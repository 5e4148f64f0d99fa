----------------------------- MODULE MCZ80Flags -----------------------------
(***************************************************************************)
(* The programs TLC runs, and the registers they start from.               *)
(***************************************************************************)
EXTENDS Z80Flags

Ones(S)     == {<<i>> : i \in S}
Times(n, i) == [k \in 1 .. n |-> i]

\* Every instruction on its own, and the sequences that undo themselves.
BytePrograms ==
  Ones(AluOps \cup {"INC", "DEC", "NEG", "LDAIR"}) \cup Ones(Rots)
    \cup Undone
    \cup {Times(3, "RRD"), Times(3, "RLD"), Times(8, "RLC"), Times(8, "RRC"),
          Times(9, "RL"), Times(9, "RR")}

\* What can stand before SCF and CCF.
QPrograms ==
  {<<i, j>> : i \in {"ADD", "AND", "DEC", "RLCA", "DAA", "CPL", "BIT", "IN", "LD", "RES", "SCF", "CCF"},
              j \in {"SCF", "CCF"}}
    \cup {<<i, k, j>> : i \in {"XOR", "SUB"}, k \in {"LD", "SET", "DD"}, j \in {"SCF", "CCF"}}

\* DAA after every add and subtract.
BcdPrograms == {<<i, "DAA">> : i \in {"ADD", "ADC", "SUB", "SBC", "NEG"}}

WordPrograms  == Ones({"ADD16", "ADC16", "SBC16"})
\* Block instructions, and what finds their F written as its own M1 begins.
BlockPrograms ==
  Ones({"LDIR", "CPIR", "INIR"}) \cup {<<i, "SCF">> : i \in {"LDIR", "CPIR", "INIR"}}

\* Nothing, one, the edges of the nibble, of the sign and of the decimals,
\* and bytes with X and Y in every way.
Corners == {0, 1, 8, 15, 16, 40, 85, 127, 128, 153, 154, 170, 255}

\* The edges of bytes, of bit 11 and of the sign.
CornerWords ==
  {0, 1, 127, 128, 255, 256, 2047, 2048, 4095, 4096, 4097, 32512, 32767, 32768, 33023, 61440,
   65280, 65534, 65535}

\* Two-digit decimal numbers.
Bcd == {v \in Byte : IsBcd(v)}

MCStarts ==
  [prog : BytePrograms, a : Corners, r : Corners, hl : {0}, rp : {0}, bc : {0},
   f : {{}, {"C"}, {"Y", "N", "H"}, {"S", "Z", "X", "P", "C"}}]
  \cup
  [prog : QPrograms, a : Corners, r : Corners, hl : {0}, rp : {0}, bc : {3},
   f : {{}, {"X"}, {"Y", "C"}, {"X", "Y", "N", "H"}}]
  \cup
  [prog : BcdPrograms, a : Bcd, r : Bcd, hl : {0}, rp : {0}, bc : {0}, f : {{}, {"C"}}]
  \cup
  [prog : WordPrograms, a : {0}, r : {0}, hl : CornerWords, rp : CornerWords, bc : {0},
   f : {{}, {"C"}, {"S", "Z", "P"}, {"S", "C", "X", "Y"}}]
  \cup
  [prog : BlockPrograms, a : {1, 128, 255}, r : {0, 127, 168}, hl : {0}, rp : {0},
   bc : {1, 2, 17}, f : {{"C", "S", "Z"}}]

MCOperands == {0, 1, 127, 168}
=============================================================================
