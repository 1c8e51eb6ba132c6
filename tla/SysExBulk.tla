------------------------------ MODULE SysExBulk ------------------------------
(***************************************************************************)
(* The bulk half of the SysEx protocol of src/io/sysex.h: a host cuts a    *)
(* pattern, a kit or the settings into chunks, packs their bytes into the  *)
(* seven bits a MIDI cable carries and sends one frame a chunk; SysExParser *)
(* puts them together again in the staging buffer.  The cable loses,       *)
(* repeats and damages frames, and those of different transfers come in    *)
(* any order, with other messages between them.                            *)
(***************************************************************************)
EXTENDS Integers, Sequences, FiniteSetsExt

CONSTANTS
  Transfers,     \* what hosts send: [cmd, slot, data], data a sequence of bytes
  ChunkData,     \* kSysExChunkData
  Cap,           \* bulk_cap: the size of the staging buffer
  Size,          \* by command: want_total, the payload this firmware expects
  Version        \* kPatchVersion; the first byte of a payload stands for its header

Cmds == {"PatternWrite", "KitWrite", "SettingsWrite"}
Bytes == 0 .. 255
Group == 7       \* data bytes to a mask byte on the wire

ASSUME SysExBulkAssumption ==
  /\ ChunkData \in Nat \ {0} /\ ChunkData % Group = 0
  /\ Cap \in Nat \ {0} /\ Version \in Bytes
  /\ Size \in [Cmds -> 1 .. Cap]
  /\ \A t \in Transfers :
       t.cmd \in Cmds /\ t.slot \in Nat /\ t.data \in Seq(Bytes) /\ t.data # <<>>

VARIABLES
  active, cmd, slot, next, total, len,   \* bulk_active_ and the rest of bulk_*
  bulk,      \* the buffer the caller passes
  result,    \* the SysExResult of the last frame: [kind, cmd, slot, len]
  streak     \* history: the last frames were the first n chunks of one transfer

parserVars == <<active, cmd, slot, next, total, len>>
bulkVars == <<parserVars, bulk, result, streak>>

-----------------------------------------------------------------------------
(* The seven-bit codec. *)

CeilDiv(n, d) == (n + d - 1) \div d

Packed7Size(n) == n + CeilDiv(n, Group)

Unpacked7Size(n) ==
  Group * (n \div (Group + 1))
    + (IF n % (Group + 1) = 0 THEN 0 ELSE (n % (Group + 1)) - 1)

Weight == <<1, 2, 4, 8, 16, 32, 64>>

(* The high bits of the g-th group of s. *)
Mask(s, g) ==
  LET Bit(k) == IF Group * g + k <= Len(s) /\ s[Group * g + k] >= 128 THEN Weight[k] ELSE 0
  IN Bit(1) + Bit(2) + Bit(3) + Bit(4) + Bit(5) + Bit(6) + Bit(7)

Pack7(s) ==
  [i \in 1 .. Packed7Size(Len(s)) |->
     LET g == (i - 1) \div (Group + 1)
         k == (i - 1) % (Group + 1)
     IN IF k = 0 THEN Mask(s, g) ELSE s[Group * g + k] % 128]

HighBit(mask, k) == (mask \div Weight[k]) % 2

(* The bytes Unpack7 writes for a wire without illegal bytes. *)
Unpacked(w) ==
  [i \in 1 .. Unpacked7Size(Len(w)) |->
     LET g == (Group + 1) * ((i - 1) \div Group) + 1
         k == ((i - 1) % Group) + 1
     IN w[g + k] + 128 * HighBit(w[g], k)]

(* How much of the wire Unpack7 has read when it meets a byte with bit 7 set. *)
Clean(w) == CHOOSE n \in 0 .. Len(w) :
  (n < Len(w) => w[n + 1] >= 128) /\ \A i \in 1 .. n : w[i] < 128

-----------------------------------------------------------------------------
(* What is sent. *)

ChunkCount(n) == CeilDiv(n, ChunkData)

Chunks(t) == ChunkCount(Len(t.data))

Chunk(t, c) == SubSeq(t.data, c * ChunkData + 1, Min({(c + 1) * ChunkData, Len(t.data)}))

Wires == [t \in Transfers |-> [c \in 0 .. Chunks(t) - 1 |-> Pack7(Chunk(t, c))]]

(* BuildDumpChunk. *)
Frame(t, c) ==
  [cmd |-> t.cmd, slot |-> t.slot, chunk |-> c, total |-> Chunks(t), wire |-> Wires[t][c]]

(* A frame whose last byte is lost before the closing F7, and one with a    *)
(* byte that cannot be in a SysEx message.                                  *)
Damaged(f) ==
  {[f EXCEPT !.wire = SubSeq(@, 1, Len(@) - 1)]}
    \cup {[f EXCEPT !.wire[Len(f.wire)] = @ + 128]}

-----------------------------------------------------------------------------
(* SysExParser. *)

NoTransfer == "None"

None == [kind |-> "None", cmd |-> NoTransfer, slot |-> 0, len |-> 0]
NoStreak == [of |-> None, n |-> 0]

BulkInit ==
  /\ active = FALSE /\ next = 0 /\ total = 0 /\ len = 0
  /\ cmd = NoTransfer /\ slot = 0
  /\ bulk = [i \in 1 .. Cap |-> 0]
  /\ result = None
  /\ streak = NoStreak

(* bulk_cmd_ and bulk_slot_ are only read while a transfer is active, and   *)
(* are forgotten here.                                                      *)
Reset ==
  /\ active' = FALSE /\ next' = 0 /\ total' = 0 /\ len' = 0
  /\ cmd' = NoTransfer /\ slot' = 0

Answer(kind, f, n) == result' = [kind |-> kind, cmd |-> f.cmd, slot |-> f.slot, len |-> n]

Bad(status) == result' = [None EXCEPT !.kind = status]

(* Mutant of Continues: a chunk of another slot continues the transfer. *)
ContinuesAnySlot(f) == active /\ f.cmd = cmd /\ f.chunk = next /\ f.total = total

Continues(f) ==
  active /\ f.cmd = cmd /\ f.slot = slot /\ f.chunk = next /\ f.total = total

(* Mutant of From: chunk 0 does not start the buffer over. *)
FromHere(f) == len

(* Where in the buffer the chunk goes: chunk 0 restarts the transfer. *)
From(f) == IF f.chunk = 0 THEN 0 ELSE len

HasRoom(f) == Unpacked7Size(Len(f.wire)) <= Cap - From(f)

Decodes(f) ==
  /\ HasRoom(f)
  /\ \A i \in DOMAIN f.wire : f.wire[i] < 128
  /\ f.wire # <<>> => Unpacked7Size(Len(f.wire)) > 0

(* What is left in the buffer, also of a chunk that does not decode. *)
Buffer(f) ==
  LET w == IF HasRoom(f) THEN Unpacked(SubSeq(f.wire, 1, Clean(f.wire))) ELSE <<>>
  IN [i \in 1 .. Cap |-> IF i - From(f) \in DOMAIN w THEN w[i - From(f)] ELSE bulk[i]]

Fits(f) == f.chunk = 0 \/ Continues(f)

(* A chunk that does not continue the transfer in progress ends it.         *)
RefuseChunk(f) ==
  /\ ~Fits(f)
  /\ Reset /\ UNCHANGED bulk
  /\ Bad("BadEncoding")

SpoiltChunk(f) ==
  /\ Fits(f) /\ ~Decodes(f)
  /\ Reset
  /\ bulk' = Buffer(f)
  /\ Bad("BadEncoding")

Filled(f) == From(f) + Unpacked7Size(Len(f.wire))

AcceptChunk(f) ==
  /\ f.chunk + 1 < f.total /\ Fits(f) /\ Decodes(f)
  /\ active' = TRUE /\ cmd' = f.cmd /\ slot' = f.slot /\ total' = f.total
  /\ next' = f.chunk + 1 /\ len' = Filled(f)
  /\ bulk' = Buffer(f)
  /\ Answer("BulkPartial", f, Filled(f))

(* ValidateBulk: the settings carry no header. *)
ValidateBulk(c, b, n) ==
  CASE n # Size[c] -> "BadSize"
    [] n = Size[c] /\ c # "SettingsWrite" /\ b[1] # Version -> "BadVersion"
    [] OTHER -> "BulkComplete"

LastChunk(f) ==
  /\ f.chunk + 1 = f.total /\ Fits(f) /\ Decodes(f)
  /\ Reset
  /\ bulk' = Buffer(f)
  /\ Answer(ValidateBulk(f.cmd, Buffer(f), Filled(f)), f, Filled(f))

(* Bulk, for a frame whose slot, chunk and total are there. *)
Bulk(f) == RefuseChunk(f) \/ SpoiltChunk(f) \/ AcceptChunk(f) \/ LastChunk(f)

Receive(t, c) ==
  /\ Bulk(Frame(t, c))
  /\ streak' = IF c = 0 \/ streak = [of |-> t, n |-> c]
               THEN [of |-> t, n |-> c + 1] ELSE NoStreak

ReceiveDamaged(t, c) ==
  /\ \E f \in Damaged(Frame(t, c)) : Bulk(f)
  /\ streak' = NoStreak

(* Every other frame: another maker's or device's, a runt, a control        *)
(* command, a request, a bulk write too short to have a chunk number.  What *)
(* comes of it is left out.                                                 *)
OtherFrame ==
  /\ result' = None
  /\ UNCHANGED <<parserVars, bulk, streak>>

BulkNext ==
  \/ \E t \in Transfers : \E c \in 0 .. Chunks(t) - 1 : Receive(t, c) \/ ReceiveDamaged(t, c)
  \/ OtherFrame

BulkSpec == BulkInit /\ [][BulkNext]_bulkVars

-----------------------------------------------------------------------------
(* Properties. *)

BulkTypeOK ==
  /\ active \in BOOLEAN /\ cmd \in Cmds \cup {NoTransfer} /\ slot \in Nat
  /\ total \in Nat /\ next \in 0 .. total /\ len \in 0 .. Cap
  /\ bulk \in [1 .. Cap -> Bytes]
  /\ result.kind \in {"None", "BulkPartial", "BulkComplete",
                      "BadSize", "BadEncoding", "BadVersion"}

(* Transfers that a frame says the same of: its command, its slot and how    *)
(* many chunks there are.                                                   *)
Alike(t, c, s) == t.cmd = c /\ t.slot = s /\ Chunks(t) = ChunkCount(Size[c])

(* No splice: through lost, repeated, damaged and interleaved frames, every *)
(* byte of what is handed over as complete is the byte at that place of a   *)
(* transfer of that command, that slot and that number of chunks.           *)
NoSplice ==
  result.kind = "BulkComplete" =>
    /\ result.len = Size[result.cmd]
    /\ \A i \in 1 .. result.len : \E t \in Transfers :
         Alike(t, result.cmd, result.slot) /\ i \in DOMAIN t.data /\ bulk[i] = t.data[i]

(* However the parser was left by what came before, a transfer received     *)
(* once in order is handed over whole, or refused for its own header and    *)
(* size: messages of other kinds in between do not disturb it.              *)
Restores ==
  [][LET t == streak'.of
     IN streak' # streak /\ streak'.n > 0 /\ streak'.n = Chunks(t) /\ Len(t.data) <= Cap =>
          /\ result'.kind = ValidateBulk(t.cmd, t.data, Len(t.data))
          /\ \A i \in 1 .. Len(t.data) : bulk'[i] = t.data[i]]_bulkVars

-----------------------------------------------------------------------------
(* Said of the code, and not true of it. *)

(* "A dropped frame would silently splice two transfers": it does if they   *)
(* are of one slot, as a repeated attempt is, and the second loses its      *)
(* beginning where the first lost its end.                                  *)
OneTransfer ==
  result.kind = "BulkComplete" =>
    \E t \in Transfers : t.data = [i \in 1 .. result.len |-> bulk[i]]
=============================================================================
