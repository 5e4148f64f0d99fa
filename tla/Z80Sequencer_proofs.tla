------------------------ MODULE Z80Sequencer_proofs ------------------------
(***************************************************************************)
(* Lemmas about the templates and the decode: what the phase engine's      *)
(* proofs need of the tables without opening them.                         *)
(***************************************************************************)
EXTENDS Z80Sequencer, SequenceTheorems, TLAPS

\* An M-cycle after the opcode fetch, its length one the ring's counter holds.
GoodCycle ==
  {c \in MCycles : c.bus \notin {"M1", "INTA"} /\ BaseLen[c.bus] + c.extra \in 1 .. 7}

\* What may follow an opcode fetch: at most five of them.
Short == {s \in Seq(GoodCycle) : Len(s) <= 5}

LEMMA PiecesGood ==
  /\ Operand \in GoodCycle /\ Long(Operand, 2) \in GoodCycle
  /\ Read \in GoodCycle /\ Long(Read, 1) \in GoodCycle
  /\ Write \in GoodCycle /\ Long(Write, 2) \in GoodCycle
  /\ Input \in GoodCycle /\ Output \in GoodCycle
  /\ Internal(1) \in GoodCycle /\ Internal(2) \in GoodCycle /\ Internal(3) \in GoodCycle
  /\ Internal(4) \in GoodCycle /\ Internal(5) \in GoodCycle
  BY DEF GoodCycle, MCycles, BaseLen, BusOps, Long, Operand, Read, Write, Input, Output,
         Internal

LEMMA SeqsShort ==
  /\ << >> \in Short
  /\ \A a \in GoodCycle : <<a>> \in Short
  /\ \A a, b \in GoodCycle : <<a, b>> \in Short
  /\ \A a, b, c \in GoodCycle : <<a, b, c>> \in Short
  /\ \A a, b, c, d \in GoodCycle : <<a, b, c, d>> \in Short
  /\ \A a, b, c, d, e \in GoodCycle : <<a, b, c, d, e>> \in Short
  BY DEF Short

LEMMA GroupsShort == \A i \in 1 .. 11 : \A ex \in DOMAIN Groups[i] : Groups[i][ex] \in Short
<1>1. \A ex \in DOMAIN SingleCycle : SingleCycle[ex] \in Short
  BY SeqsShort DEF SingleCycle, NoMore
<1>2. \A ex \in DOMAIN IndexedBit : IndexedBit[ex] \in Short
  <2>1. /\ <<Operand, Operand, Internal(2), Long(Read, 1), Write>> \in Short
    BY PiecesGood, SeqsShort
  <2> QED BY <2>1 DEF IndexedBit
<1>3. \A ex \in DOMAIN Extended : Extended[ex] \in Short
  <2>1. /\ <<Internal(2)>> \in Short
        /\ <<Internal(4), Internal(3)>> \in Short
    BY PiecesGood, SeqsShort
  <2> QED BY <2>1 DEF Extended
<1>4. \A ex \in DOMAIN Byte : Byte[ex] \in Short
  <2>1. /\ <<Operand>> \in Short
        /\ <<Read>> \in Short
        /\ <<Write>> \in Short
        /\ <<Operand, Write>> \in Short
        /\ <<Long(Read, 1), Write>> \in Short
    BY PiecesGood, SeqsShort
  <2> QED BY <2>1 DEF Byte
<1>5. \A ex \in DOMAIN Word : Word[ex] \in Short
  <2>1. /\ <<Operand, Operand>> \in Short
        /\ <<Operand, Operand, Read>> \in Short
        /\ <<Operand, Operand, Write>> \in Short
        /\ <<Operand, Operand, Read, Read>> \in Short
        /\ <<Operand, Operand, Write, Write>> \in Short
        /\ <<Read>> \in Short
        /\ <<Write>> \in Short
    BY PiecesGood, SeqsShort
  <2> QED BY <2>1 DEF Word
<1>6. \A ex \in DOMAIN Relative : Relative[ex] \in Short
  <2>1. /\ <<Operand, Internal(5)>> \in Short
        /\ <<Internal(1), Operand, Internal(5)>> \in Short
    BY PiecesGood, SeqsShort
  <2> QED BY <2>1 DEF Relative
<1>7. \A ex \in DOMAIN Stack : Stack[ex] \in Short
  <2>1. /\ <<Operand, Operand, Internal(1), Write, Write>> \in Short
        /\ <<Read, Read>> \in Short
        /\ <<Internal(1), Read, Read>> \in Short
        /\ <<Internal(1), Write, Write>> \in Short
        /\ <<Read, Long(Read, 1), Write, Long(Write, 2)>> \in Short
    BY PiecesGood, SeqsShort
  <2> QED BY <2>1 DEF Stack
<1>8. \A ex \in DOMAIN InputOutput : InputOutput[ex] \in Short
  <2>1. /\ <<Operand, Input>> \in Short
        /\ <<Operand, Output>> \in Short
        /\ <<Long(Read, 1), Write>> \in Short
    BY PiecesGood, SeqsShort
  <2> QED BY <2>1 DEF InputOutput
<1>9. \A ex \in DOMAIN Extras : Extras[ex] \in Short
  <2>1. /\ <<Internal(4), Internal(3)>> \in Short
        /\ <<Read, Read>> \in Short
        /\ <<Internal(1)>> \in Short
        /\ <<Operand, Operand, Write, Write>> \in Short
        /\ <<Operand, Operand, Read, Read>> \in Short
        /\ <<Input>> \in Short
        /\ <<Output>> \in Short
        /\ <<Read, Internal(4), Write>> \in Short
    BY PiecesGood, SeqsShort
  <2> QED BY <2>1 DEF Extras
<1>10. \A ex \in DOMAIN Block : Block[ex] \in Short
  <2>1. /\ <<Read, Long(Write, 2), Internal(5)>> \in Short
        /\ <<Read, Internal(5), Internal(5)>> \in Short
        /\ <<Internal(1), Input, Write, Internal(5)>> \in Short
        /\ <<Internal(1), Read, Output, Internal(5)>> \in Short
    BY PiecesGood, SeqsShort
  <2> QED BY <2>1 DEF Block
<1>11. \A ex \in DOMAIN Response : Response[ex] \in Short
  <2>1. /\ <<Write, Write>> \in Short
        /\ <<Write, Write, Read, Read>> \in Short
    BY PiecesGood, SeqsShort
  <2> QED BY <2>1 DEF Response
<1> QED BY <1>1, <1>2, <1>3, <1>4, <1>5, <1>6, <1>7, <1>8, <1>9, <1>10, <1>11 DEF Groups

\* Every template is one.
LEMMA TemplateShort == \A ex \in Classes : Template[ex] \in Short
<1>1. ASSUME NEW ex \in Classes, ex \notin Prefixes PROVE \E i \in 1 .. 11 : ex \in DOMAIN Groups[i]
  <2>1. ex \in UNION {DOMAIN Groups[i] : i \in 1 .. 11}
    BY <1>1 DEF Classes
  <2>2. PICK D \in {DOMAIN Groups[i] : i \in 1 .. 11} : ex \in D
    BY <2>1
  <2>3. PICK i \in 1 .. 11 : D = DOMAIN Groups[i]
    BY <2>2
  <2> QED BY <2>2, <2>3
<1> QED BY <1>1, GroupsShort, SeqsShort DEF Template, NoMore

LEMMA PrefixesInClasses == Prefixes \subseteq Classes
  BY DEF Classes

LEMMA GroupsInClasses == \A i \in 1 .. 11 : DOMAIN Groups[i] \subseteq Classes
  BY DEF Classes

\* The groups share no class, and no prefix is in one: a class has one template.
LEMMA GroupsApart ==
  \A i, j \in 1 .. 11 : \A ex : ex \in DOMAIN Groups[i] /\ ex \in DOMAIN Groups[j] => i = j
<1>1. \A ex \in DOMAIN SingleCycle :
        /\ ex \notin DOMAIN IndexedBit /\ ex \notin DOMAIN Extended /\ ex \notin DOMAIN Byte
        /\ ex \notin DOMAIN Word /\ ex \notin DOMAIN Relative /\ ex \notin DOMAIN Stack
        /\ ex \notin DOMAIN InputOutput /\ ex \notin DOMAIN Extras /\ ex \notin DOMAIN Block
        /\ ex \notin DOMAIN Response
  BY DEF SingleCycle, IndexedBit, Extended, Byte, Word, Relative, Stack, InputOutput, Extras,
         Block, Response
<1>2. \A ex \in DOMAIN IndexedBit \cup DOMAIN Extended :
        /\ ex \notin DOMAIN Byte
        /\ ex \notin DOMAIN Word /\ ex \notin DOMAIN Relative /\ ex \notin DOMAIN Stack
        /\ ex \notin DOMAIN InputOutput /\ ex \notin DOMAIN Extras /\ ex \notin DOMAIN Block
        /\ ex \notin DOMAIN Response
  BY DEF IndexedBit, Extended, Byte, Word, Relative, Stack, InputOutput, Extras, Block, Response
<1>3. DOMAIN IndexedBit \cap DOMAIN Extended = {}
  BY DEF IndexedBit, Extended
<1>4. \A ex \in DOMAIN Byte :
        /\ ex \notin DOMAIN Word /\ ex \notin DOMAIN Relative /\ ex \notin DOMAIN Stack
        /\ ex \notin DOMAIN InputOutput /\ ex \notin DOMAIN Extras /\ ex \notin DOMAIN Block
        /\ ex \notin DOMAIN Response
  BY DEF Byte, Word, Relative, Stack, InputOutput, Extras, Block, Response
<1>5. \A ex \in DOMAIN Word :
        /\ ex \notin DOMAIN Relative /\ ex \notin DOMAIN Stack
        /\ ex \notin DOMAIN InputOutput /\ ex \notin DOMAIN Extras /\ ex \notin DOMAIN Block
        /\ ex \notin DOMAIN Response
  BY DEF Word, Relative, Stack, InputOutput, Extras, Block, Response
<1>6. \A ex \in DOMAIN Relative \cup DOMAIN Stack :
        /\ ex \notin DOMAIN InputOutput /\ ex \notin DOMAIN Extras /\ ex \notin DOMAIN Block
        /\ ex \notin DOMAIN Response
  BY DEF Relative, Stack, InputOutput, Extras, Block, Response
<1>7. DOMAIN Relative \cap DOMAIN Stack = {}
  BY DEF Relative, Stack
<1>8. \A ex \in DOMAIN InputOutput \cup DOMAIN Extras : ex \notin DOMAIN Block /\ ex \notin DOMAIN Response
  BY DEF InputOutput, Extras, Block, Response
<1>9. DOMAIN InputOutput \cap DOMAIN Extras = {} /\ DOMAIN Block \cap DOMAIN Response = {}
  BY DEF InputOutput, Extras, Block, Response
<1>10. ASSUME NEW i \in 1 .. 11, NEW j \in i + 1 .. 11, NEW ex, ex \in DOMAIN Groups[i], ex \in DOMAIN Groups[j]
       PROVE FALSE
  BY <1>1, <1>2, <1>3, <1>4, <1>5, <1>6, <1>7, <1>8, <1>9, <1>10 DEF Groups
<1> QED BY <1>10

LEMMA NoPrefixInGroups == \A i \in 1 .. 11 : \A ex \in DOMAIN Groups[i] : ex \notin Prefixes
<1>1. \A ex \in Prefixes :
        /\ ex \notin DOMAIN SingleCycle /\ ex \notin DOMAIN IndexedBit
        /\ ex \notin DOMAIN Extended /\ ex \notin DOMAIN Byte /\ ex \notin DOMAIN Word
        /\ ex \notin DOMAIN Relative /\ ex \notin DOMAIN Stack
        /\ ex \notin DOMAIN InputOutput /\ ex \notin DOMAIN Extras /\ ex \notin DOMAIN Block
        /\ ex \notin DOMAIN Response
  BY DEF Prefixes, SingleCycle, IndexedBit, Extended, Byte, Word, Relative, Stack, InputOutput,
         Extras, Block, Response
<1> QED BY <1>1 DEF Groups

LEMMA TemplateOf == \A i \in 1 .. 11 : \A ex \in DOMAIN Groups[i] : Template[ex] = Groups[i][ex]
<1> SUFFICES ASSUME NEW i \in 1 .. 11, NEW ex \in DOMAIN Groups[i] PROVE Template[ex] = Groups[i][ex]
  OBVIOUS
<1>1. ex \in Classes /\ ex \notin Prefixes
  BY GroupsInClasses, NoPrefixInGroups
<1>2. (CHOOSE j \in 1 .. 11 : ex \in DOMAIN Groups[j]) = i
  BY GroupsApart
<1> QED BY <1>1, <1>2 DEF Template

LEMMA GroupTemplates ==
  /\ \A ex \in DOMAIN SingleCycle : Template[ex] = SingleCycle[ex]
  /\ \A ex \in DOMAIN IndexedBit  : Template[ex] = IndexedBit[ex]
  /\ \A ex \in DOMAIN Extended    : Template[ex] = Extended[ex]
  /\ \A ex \in DOMAIN Byte        : Template[ex] = Byte[ex]
  /\ \A ex \in DOMAIN Word        : Template[ex] = Word[ex]
  /\ \A ex \in DOMAIN Relative    : Template[ex] = Relative[ex]
  /\ \A ex \in DOMAIN Stack       : Template[ex] = Stack[ex]
  /\ \A ex \in DOMAIN InputOutput : Template[ex] = InputOutput[ex]
  /\ \A ex \in DOMAIN Extras      : Template[ex] = Extras[ex]
  /\ \A ex \in DOMAIN Block       : Template[ex] = Block[ex]
  /\ \A ex \in DOMAIN Response    : Template[ex] = Response[ex]
<1>1. /\ Groups[1] = SingleCycle
      /\ Groups[2] = IndexedBit /\ Groups[3] = Extended /\ Groups[4] = Byte /\ Groups[5] = Word
      /\ Groups[6] = Relative /\ Groups[7] = Stack /\ Groups[8] = InputOutput
      /\ Groups[9] = Extras /\ Groups[10] = Block /\ Groups[11] = Response
  BY DEF Groups
<1> QED BY <1>1, TemplateOf

\* NOP and HALT end with their opcode fetch.
LEMMA TemplateNOP == Template["NOP"] = <<>> /\ Template["HALT"] = <<>>
  BY GroupTemplates DEF SingleCycle, NoMore

\* POP ends with its second read.
LEMMA TemplatePOP == Template["POP"] = <<Read, Read>>
  BY GroupTemplates DEF Stack

\* (IX+d) applies to six classes, of at most two M-cycles each.
DispClasses == {"LD_R_M", "ST_M_R", "ALU_M", "INC_M", "DEC_M", "LD_M_N"}

LEMMA DispShort ==
  \A ex \in DispClasses : Template[ex] \in Short /\ Len(Template[ex]) <= 2
<1> SUFFICES ASSUME NEW ex \in DispClasses
             PROVE  Template[ex] \in Short /\ Len(Template[ex]) <= 2
  OBVIOUS
<1>2. ex \in DOMAIN Byte /\ Len(Byte[ex]) <= 2
  <2>1. Byte[ex] \in {<<Read>>, <<Write>>, <<Operand, Write>>, <<Long(Read, 1), Write>>}
    BY DEF DispClasses, Byte
  <2>2. ex \in DOMAIN Byte
    BY DEF DispClasses, Byte
  <2>3. CASE Byte[ex] = <<Read>>
    BY <2>2, <2>3
  <2>4. CASE Byte[ex] = <<Write>>
    BY <2>2, <2>4
  <2>5. CASE Byte[ex] = <<Operand, Write>>
    BY <2>2, <2>5
  <2>6. CASE Byte[ex] = <<Long(Read, 1), Write>>
    BY <2>2, <2>6
  <2> QED BY <2>1, <2>3, <2>4, <2>5, <2>6
<1>3. Groups[4] = Byte /\ ex \in Classes
  BY <1>2, GroupsInClasses DEF Groups
<1>4. Template[ex] = Byte[ex]
  BY <1>2, GroupTemplates
<1> QED BY <1>2, <1>3, <1>4, TemplateShort

LEMMA CyclesShort ==
  ASSUME NEW ex \in Classes, NEW d \in BOOLEAN, d => ex \in DispClasses
  PROVE  Cycles(ex, d) \in Short
<1>1. CASE ~d
  BY <1>1, TemplateShort DEF Cycles
<1>2. CASE d /\ ex = "LD_M_N"
  BY <1>2, PiecesGood, SeqsShort DEF Cycles
<1>3. CASE d /\ ex # "LD_M_N"
  <2>1. <<Operand, Internal(5)>> \in Seq(GoodCycle) /\ Len(<<Operand, Internal(5)>>) = 2
    BY PiecesGood, SeqsShort DEF Short
  <2>2. Template[ex] \in Seq(GoodCycle) /\ Len(Template[ex]) <= 2
    BY <1>3, DispShort DEF Short
  <2>3. /\ <<Operand, Internal(5)>> \o Template[ex] \in Seq(GoodCycle)
        /\ Len(<<Operand, Internal(5)>> \o Template[ex]) <= 4
    BY <2>1, <2>2
  <2> QED BY <1>3, <2>3 DEF Cycles, Short
<1> QED BY <1>1, <1>2, <1>3

\* What the opcodes decode to are classes, and no interrupt response.
LEMMA PagesInClasses ==
  /\ MainPage \cup EdPage \cup CbPage \subseteq Classes
  /\ "INT" \notin MainPage \cup EdPage \cup CbPage
  /\ "NMI" \notin MainPage \cup EdPage \cup CbPage
<1>1. EdPage \subseteq Classes
  <2>1. EdPage \subseteq DOMAIN SingleCycle \cup DOMAIN Extras \cup DOMAIN Block
    BY DEF EdPage, SingleCycle, Extras, Block
  <2>2. Groups[1] = SingleCycle /\ Groups[9] = Extras /\ Groups[10] = Block
    BY DEF Groups
  <2> QED BY <2>1, <2>2, GroupsInClasses
<1>2. CbPage \subseteq Classes
  <2>1. CbPage \subseteq DOMAIN SingleCycle \cup DOMAIN InputOutput
    BY DEF CbPage, SingleCycle, InputOutput
  <2>2. Groups[1] = SingleCycle /\ Groups[8] = InputOutput
    BY DEF Groups
  <2> QED BY <2>1, <2>2, GroupsInClasses
<1>3. MainPage \subseteq Classes /\ "INT" \notin MainPage /\ "NMI" \notin MainPage
  BY DEF MainPage
<1>4. "INT" \notin EdPage \cup CbPage /\ "NMI" \notin EdPage \cup CbPage
  BY DEF EdPage, CbPage
<1> QED BY <1>1, <1>2, <1>3, <1>4

LEMMA NamedClasses == {"NOP", "DDCB", "NMI", "INT"} \subseteq Classes
<1>1. /\ "NOP" \in DOMAIN SingleCycle /\ "DDCB" \in DOMAIN IndexedBit
      /\ {"NMI", "INT"} \subseteq DOMAIN Response
  BY DEF SingleCycle, IndexedBit, Response
<1>2. Groups[1] = SingleCycle /\ Groups[2] = IndexedBit /\ Groups[11] = Response
  BY DEF Groups
<1> QED BY <1>1, <1>2, GroupsInClasses

LEMMA DispDecode == \A p, ex : UsesDisp(p, ex) => ex \in DispClasses
  BY DEF UsesDisp, DispClasses

LEMMA PrefixAfterType == \A p, ex : PrefixAfter(p, ex) \in PrefixStates
  BY DEF PrefixAfter, PrefixStates

LEMMA DeferredType == \A ex, m : Deferred(ex, m) \subseteq PendingKinds \ {"DEC"}
  BY DEF Deferred, PendingKinds
=============================================================================
