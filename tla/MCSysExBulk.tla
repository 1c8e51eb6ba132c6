----------------------------- MODULE MCSysExBulk -----------------------------
(* A pattern, the same slot in an older format and in a longer one of as    *)
(* many chunks, another slot, the settings and a kit of a newer format, too *)
(* long for the buffer.                                                     *)
EXTENDS SysExBulk

Data(n, header, seed) == [i \in 1 .. n |-> IF i = 1 THEN header ELSE (37 * i + seed) % 256]

T(c, s, d) == [cmd |-> c, slot |-> s, data |-> d]

MCTransfers ==
  {T("PatternWrite", 9, Data(15, 5, 0)), T("PatternWrite", 9, Data(15, 4, 1)),
   T("PatternWrite", 9, Data(19, 5, 5)), T("PatternWrite", 8, Data(15, 5, 2)),
   T("SettingsWrite", 0, Data(7, 0, 3)), T("KitWrite", 9, Data(22, 6, 4))}

MCSize == [c \in Cmds |-> CASE c = "PatternWrite" -> 15 [] c = "KitWrite" -> 14 [] OTHER -> 7]
=============================================================================
