---------------------------- MODULE NvramProofs ----------------------------
(* Theorems about the settings, for every command line length, every CMOS  *)
(* contents the machine may be started with, every line that may be typed  *)
(* and any number of power failures.                                       *)
(*                                                                         *)
(* A handler's bytes are followed through the cells of the CMOS: for each  *)
(* cell of the settings either the byte is there and nothing is to be      *)
(* written to it, or the write that brings it is still in the list.        *)
EXTENDS NvramSettings, TLAPS, WellFoundedInduction

CmdlineCells == Cmdline .. Cmdline + CmdlineMax - 1

Values   == Nat \cup SUBSET Known
CellSets == [off : Nat, value : Values]

(* What may be written to a cell.                                          *)
Fits(off, v) ==
  /\ off \in Offsets
  /\ off = Magic => v = MagicNumber
  /\ off = Partition => v \in 0 .. 1
  /\ off = Flags0 => v \in SUBSET Known
  /\ off = BootPriority => v \in {PrioAuto, PrioIde, PrioUsb}
  /\ off \in CmdlineCells => v \in Nat

Elems(list) == {list[i] : i \in 1 .. Len(list)}

(* Every handler writes its cells in the order of their offsets, so none   *)
(* of them twice.                                                          *)
IsList(list) ==
  /\ list \in Seq(CellSets)
  /\ \A i, j \in 1 .. Len(list) : i < j => list[i].off < list[j].off
  /\ \A w \in Elems(list) : Fits(w.off, w.value)

Settings == [part : 0 .. 1, flags : SUBSET Known, prio : {PrioAuto, PrioIde, PrioUsb},
             cmd : Seq(Nat \ {Nul})]

IsSettings(s) == s \in Settings /\ Len(s.cmd) < CmdlineMax

-----------------------------------------------------------------------------
(* Lists of writes. *)

LEMMA OneWrite ==
  ASSUME NEW off \in Nat, NEW v \in Values, Fits(off, v)
  PROVE  /\ IsList(<< Set(off, v) >>)
         /\ Elems(<< Set(off, v) >>) = {Set(off, v)}
PROOF
  <1>1. Set(off, v) \in CellSets /\ Set(off, v).off = off /\ Set(off, v).value = v
    BY DEF Set, CellSets
  <1> DEFINE w == Set(off, v)
  <1> HIDE DEF w
  <1>2. << w >> \in Seq(CellSets) /\ Len(<< w >>) = 1 /\ << w >>[1] = w
    BY <1>1 DEF w
  <1>3. Elems(<< w >>) = {w}
    BY <1>2 DEF Elems
  <1> QED
    BY <1>1, <1>2, <1>3 DEF w, IsList

LEMMA NoWrite == IsList(<< >>) /\ Elems(<< >>) = {}
PROOF
  BY DEF IsList, Elems

LEMMA Concat ==
  ASSUME NEW a, NEW b, IsList(a), IsList(b),
         \A x \in Elems(a), y \in Elems(b) : x.off < y.off
  PROVE  /\ IsList(a \o b)
         /\ Elems(a \o b) = Elems(a) \cup Elems(b)
PROOF
  <1> DEFINE c == a \o b
  <1>1. /\ c \in Seq(CellSets) /\ Len(c) = Len(a) + Len(b)
        /\ Len(a) \in Nat /\ Len(b) \in Nat
        /\ \A i \in 1 .. Len(c) : c[i] = IF i <= Len(a) THEN a[i] ELSE b[i - Len(a)]
    BY DEF IsList
  <1> HIDE DEF c
  <1>2. ASSUME NEW i \in 1 .. Len(c)
        PROVE  \/ i \in 1 .. Len(a) /\ c[i] = a[i]
               \/ i - Len(a) \in 1 .. Len(b) /\ c[i] = b[i - Len(a)]
    BY <1>1
  <1>3. \A i \in 1 .. Len(a) : i \in 1 .. Len(c) /\ c[i] = a[i]
    BY <1>1
  <1>4. ASSUME NEW i \in 1 .. Len(b)
        PROVE  i + Len(a) \in 1 .. Len(c) /\ c[i + Len(a)] = b[i]
    <2>1. i + Len(a) \in 1 .. Len(c) /\ ~(i + Len(a) <= Len(a))
          /\ i + Len(a) - Len(a) = i
      BY <1>1
    <2> QED
      BY <1>1, <2>1
  <1>5. Elems(c) = Elems(a) \cup Elems(b)
    <2>1. ASSUME NEW w \in Elems(c) PROVE w \in Elems(a) \cup Elems(b)
      <3>1. PICK i \in 1 .. Len(c) : w = c[i]
        BY DEF Elems
      <3> QED
        BY <1>2, <3>1 DEF Elems
    <2>2. ASSUME NEW w \in Elems(a) PROVE w \in Elems(c)
      <3>1. PICK i \in 1 .. Len(a) : w = a[i]
        BY DEF Elems
      <3> QED
        BY <1>3, <3>1 DEF Elems
    <2>3. ASSUME NEW w \in Elems(b) PROVE w \in Elems(c)
      <3>1. PICK i \in 1 .. Len(b) : w = b[i]
        BY DEF Elems
      <3> QED
        BY <1>4, <3>1 DEF Elems
    <2> QED
      BY <2>1, <2>2, <2>3
  <1>6. ASSUME NEW i \in 1 .. Len(c), NEW j \in 1 .. Len(c), i < j
        PROVE  c[i].off < c[j].off
    <2>1. CASE j <= Len(a)
      <3>1. i \in 1 .. Len(a) /\ j \in 1 .. Len(a)
        BY <1>1, <1>6, <2>1
      <3> QED
        BY <1>3, <1>6, <3>1 DEF IsList
    <2>2. CASE i > Len(a)
      <3>1. /\ i - Len(a) \in 1 .. Len(b) /\ j - Len(a) \in 1 .. Len(b)
            /\ i - Len(a) < j - Len(a)
            /\ c[i] = b[i - Len(a)] /\ c[j] = b[j - Len(a)]
        BY <1>1, <1>6, <2>2
      <3> QED
        BY <3>1 DEF IsList
    <2>3. CASE i <= Len(a) /\ j > Len(a)
      <3>1. c[i] \in Elems(a)
        BY <1>1, <2>3 DEF Elems
      <3>2. c[j] = b[j - Len(a)] /\ j - Len(a) \in 1 .. Len(b)
        BY <1>1, <2>3
      <3>3. c[j] \in Elems(b)
        BY <3>2 DEF Elems
      <3> QED
        BY <3>1, <3>3
    <2> QED
      BY <1>1, <2>1, <2>2, <2>3
  <1>7. \A w \in Elems(c) : Fits(w.off, w.value)
    BY <1>5 DEF IsList
  <1>8. IsList(c)
    BY <1>1, <1>6, <1>7 DEF IsList
  <1> QED
    BY <1>5, <1>8 DEF c

(* The first write of a list and the rest of it.                           *)
LEMMA HeadOff ==
  ASSUME NEW list, IsList(list), list # << >>
  PROVE  /\ Head(list) \in Elems(list) /\ IsList(Tail(list))
         /\ Head(list) \in CellSets
         /\ \A w : w \in Elems(Tail(list))
                     <=> w \in Elems(list) /\ w.off # Head(list).off
PROOF
  <1> DEFINE t == Tail(list)
  <1>1. /\ Len(list) \in Nat \ {0} /\ Head(list) = list[1]
        /\ t \in Seq(CellSets) /\ Len(t) = Len(list) - 1
        /\ \A i \in 1 .. Len(t) : t[i] = list[i + 1]
    BY DEF IsList
  <1> HIDE DEF t
  <1>2. list[1] \in Elems(list) /\ list[1] \in CellSets
    BY <1>1 DEF Elems, IsList
  <1>3. \A i \in 1 .. Len(t) : i + 1 \in 1 .. Len(list) /\ 1 < i + 1
    BY <1>1
  <1>4. \A i \in 1 .. Len(list) : list[i].off \in Nat
    <2>1. \A i \in 1 .. Len(list) : list[i] \in CellSets
      BY DEF IsList
    <2> QED
      BY <2>1 DEF CellSets
  <1>5. ASSUME NEW w \in Elems(t)
        PROVE  w \in Elems(list) /\ w.off # list[1].off
    <2>1. PICK i \in 1 .. Len(t) : w = t[i]
      BY DEF Elems
    <2>2. w = list[i + 1] /\ i + 1 \in 1 .. Len(list) /\ 1 < i + 1 /\ 1 \in 1 .. Len(list)
      BY <1>1, <1>3, <2>1
    <2>3. list[1].off < list[i + 1].off
      BY <2>2 DEF IsList
    <2> QED
      BY <1>4, <2>2, <2>3 DEF Elems
  <1>6. ASSUME NEW w \in Elems(list), w.off # list[1].off
        PROVE  w \in Elems(t)
    <2>1. PICK i \in 1 .. Len(list) : w = list[i]
      BY DEF Elems
    <2>2. i # 1
      BY <1>6, <2>1
    <2>3. i - 1 \in 1 .. Len(t) /\ t[i - 1] = list[i]
      BY <1>1, <2>2
    <2> QED
      BY <2>1, <2>3 DEF Elems
  <1>7. ASSUME NEW i \in 1 .. Len(t), NEW j \in 1 .. Len(t), i < j
        PROVE  t[i].off < t[j].off
    <2>1. i + 1 < j + 1
      BY <1>7
    <2> QED
      BY <1>1, <1>3, <2>1 DEF IsList
  <1>8. IsList(t)
    BY <1>1, <1>5, <1>7 DEF IsList
  <1> QED
    BY <1>1, <1>2, <1>5, <1>6, <1>8 DEF t

(* A list has one write to a cell at most.                                 *)
LEMMA SameOff ==
  ASSUME NEW list, IsList(list), NEW x \in Elems(list), NEW y \in Elems(list),
         x.off = y.off
  PROVE  x = y
PROOF
  <1>1. PICK i \in 1 .. Len(list) : x = list[i]
    BY DEF Elems
  <1>2. PICK j \in 1 .. Len(list) : y = list[j]
    BY DEF Elems
  <1>3. list[i].off \in Nat /\ list[j].off \in Nat
    <2>1. list[i] \in CellSets /\ list[j] \in CellSets
      BY DEF IsList
    <2> QED
      BY <2>1 DEF CellSets
  <1>4. /\ i < j => list[i].off < list[j].off
        /\ j < i => list[j].off < list[i].off
    BY DEF IsList
  <1> QED
    BY <1>1, <1>2, <1>3, <1>4

(* A write to each cell of the command line.                               *)
LEMMA FieldWrites ==
  ASSUME NEW f \in [1 .. CmdlineMax -> Nat]
  PROVE  LET list == [i \in 1 .. CmdlineMax |-> Set(Cmdline + i - 1, f[i])]
         IN  /\ IsList(list)
             /\ Elems(list) = {Set(Cmdline + i - 1, f[i]) : i \in 1 .. CmdlineMax}
PROOF
  <1> DEFINE list == [i \in 1 .. CmdlineMax |-> Set(Cmdline + i - 1, f[i])]
  <1>1. CmdlineMax \in Nat \ {0}
    BY SettingsAssumption
  <1>2. ASSUME NEW i \in 1 .. CmdlineMax
        PROVE  /\ Set(Cmdline + i - 1, f[i]) \in CellSets
               /\ Set(Cmdline + i - 1, f[i]).off = Cmdline + i - 1
               /\ Fits(Cmdline + i - 1, f[i])
               /\ Set(Cmdline + i - 1, f[i]).value = f[i]
    <2>1. f[i] \in Nat /\ Cmdline + i - 1 \in Nat /\ Cmdline + i - 1 \in CmdlineCells
          /\ Cmdline + i - 1 >= 7
      BY <1>1 DEF Cmdline, CmdlineCells
    <2>2. Set(Cmdline + i - 1, f[i]) \in CellSets
      BY <2>1 DEF Set, CellSets, Values
    <2>3. Fits(Cmdline + i - 1, f[i])
      <3>1. Cmdline + i - 1 \in Offsets
        BY <2>1 DEF Offsets, CmdlineCells
      <3> QED
        BY <2>1, <3>1 DEF Fits, Magic, Partition, Flags0, BootPriority
    <2> QED
      BY <2>2, <2>3 DEF Set
  <1>3. list \in Seq(CellSets) /\ Len(list) = CmdlineMax
    BY <1>1, <1>2
  <1>4. \A i \in 1 .. CmdlineMax : list[i] = Set(Cmdline + i - 1, f[i])
    OBVIOUS
  <1> HIDE DEF list
  <1>5. Elems(list) = {Set(Cmdline + i - 1, f[i]) : i \in 1 .. CmdlineMax}
    BY <1>3, <1>4 DEF Elems
  <1>6. \A w \in Elems(list) : Fits(w.off, w.value)
    <2> SUFFICES ASSUME NEW i \in 1 .. CmdlineMax
                 PROVE  Fits(list[i].off, list[i].value)
      BY <1>3 DEF Elems
    <2> QED
      BY <1>2, <1>4
  <1>7. ASSUME NEW i \in 1 .. Len(list), NEW j \in 1 .. Len(list), i < j
        PROVE  list[i].off < list[j].off
    <2>1. list[i].off = Cmdline + i - 1 /\ list[j].off = Cmdline + j - 1
      BY <1>2, <1>3, <1>4
    <2> QED
      BY <1>1, <1>3, <1>7, <2>1 DEF Cmdline
  <1>8. IsList(list)
    BY <1>3, <1>6, <1>7 DEF IsList
  <1> QED
    BY <1>5, <1>8 DEF list
-----------------------------------------------------------------------------
(* The text of a command line field. *)

LEMMA Smallest ==
  ASSUME NEW T \in SUBSET Nat, T # {}
  PROVE  \E m \in T : \A n \in T : m <= n
PROOF
  <1> DEFINE R == OpToRel(<, Nat)
  <1>1. IsWellFoundedOn(R, Nat)
    BY NatLessThanWellFounded
  <1>2. \A x, y \in Nat : y < x => <<y, x>> \in R
    BY DEF OpToRel
  <1> HIDE DEF R
  <1>3. PICK m \in T : \A n \in T : ~(<<n, m>> \in R)
    BY <1>1, WFMin
  <1>4. \A n \in T : ~(n < m) /\ n \in Nat /\ m \in Nat
    BY <1>2, <1>3
  <1> QED
    BY <1>4

Unended(image) == \A i \in 0 .. CmdlineMax - 1 : Field(image, i) # Nul

LEMMA UnendedText ==
  ASSUME NEW image, Unended(image)
  PROVE  TextOf(image) = << >>
PROOF
  BY DEF TextOf, Unended

(* Two texts with the same characters are equal.                           *)
LEMMA SameText ==
  ASSUME NEW s \in Seq(Nat \ {0}), NEW t \in Seq(Nat \ {0}), Len(s) = Len(t),
         \A i \in 1 .. Len(s) : s[i] = t[i]
  PROVE  s = t
PROOF
  OBVIOUS

(* A field whose first NUL is at n holds the n characters in front of it.  *)
LEMMA EndedText ==
  ASSUME NEW image, IsImage(image), NEW n \in 0 .. CmdlineMax - 1,
         Field(image, n) = Nul,
         \A i \in 0 .. n - 1 : Field(image, i) # Nul
  PROVE  /\ TextOf(image) \in Seq(Nat \ {Nul}) /\ Len(TextOf(image)) = n
         /\ \A i \in 1 .. n : TextOf(image)[i] = Field(image, i - 1)
PROOF
  <1> DEFINE ends == {i \in 0 .. CmdlineMax - 1 : Field(image, i) = Nul}
             end  == CHOOSE e \in ends : \A i \in ends : e <= i
             text == [i \in 1 .. n |-> Field(image, i - 1)]
  <1>1. CmdlineMax \in Nat \ {0} /\ n \in Nat
    BY SettingsAssumption
  <1>2. n \in ends /\ \A i \in ends : n <= i
    BY <1>1
  <1>3. \A e \in ends : (\A i \in ends : e <= i) => e = n
    BY <1>1, <1>2
  <1> HIDE DEF ends
  <1>4. end = n
    BY <1>2, <1>3
  <1> HIDE DEF end
  <1>5. TextOf(image) = text
    BY <1>2, <1>4 DEF TextOf, ends, end
  <1>6. \A i \in 1 .. n : Field(image, i - 1) \in Nat \ {Nul}
    BY <1>1 DEF IsImage
  <1>7. text \in Seq(Nat \ {Nul}) /\ Len(text) = n
    BY <1>1, <1>6
  <1> QED
    BY <1>5, <1>7

LEMMA TextCases ==
  ASSUME NEW image, IsImage(image), ~Unended(image)
  PROVE  \E n \in 0 .. CmdlineMax - 1 :
           /\ Field(image, n) = Nul
           /\ \A i \in 0 .. n - 1 : Field(image, i) # Nul
PROOF
  <1> DEFINE ends == {i \in 0 .. CmdlineMax - 1 : Field(image, i) = Nul}
  <1>1. CmdlineMax \in Nat \ {0}
    BY SettingsAssumption
  <1>2. ends \in SUBSET Nat /\ ends # {}
    BY <1>1 DEF Unended
  <1>3. PICK m \in ends : \A n \in ends : m <= n
    BY <1>2, Smallest
  <1> QED
    BY <1>1, <1>3

-----------------------------------------------------------------------------
(* Cells that hold, or are about to hold, the bytes of some settings. *)

USE DEF Magic, MagicNumber, Partition, Flags0, BootPriority, Cmdline, Nul, PrioAuto, PrioIde, PrioUsb

Comes(image, list, off, v) ==
  \/ \E w \in Elems(list) : w.off = off /\ w.value = v
  \/ image[off] = v /\ \A w \in Elems(list) : w.off # off

(* The character at offset i of the field, the first NUL included.         *)
CharAt(text, i) == IF i < Len(text) THEN text[i + 1] ELSE Nul

Kept(image, list, s) ==
  /\ Comes(image, list, Magic, MagicNumber)
  /\ Comes(image, list, Partition, s.part)
  /\ Comes(image, list, Flags0, s.flags)
  /\ Comes(image, list, BootPriority, s.prio)
  /\ \A i \in 0 .. Len(s.cmd) : Comes(image, list, Cmdline + i, CharAt(s.cmd, i))

LEMMA SettingsFields ==
  ASSUME NEW s, IsSettings(s)
  PROVE  /\ s.part \in 0 .. 1 /\ s.flags \in SUBSET Known /\ s.prio \in {PrioAuto, PrioIde, PrioUsb}
         /\ s.cmd \in Seq(Nat \ {Nul}) /\ Len(s.cmd) \in Nat /\ Len(s.cmd) < CmdlineMax
         /\ s = [part |-> s.part, flags |-> s.flags, prio |-> s.prio, cmd |-> s.cmd]
PROOF
  BY DEF IsSettings, Settings

(* A text that stands in a field is what TextOf finds there.               *)
LEMMA FoundText ==
  ASSUME NEW image, IsImage(image), NEW text \in Seq(Nat \ {Nul}),
         Len(text) < CmdlineMax,
         \A i \in 0 .. Len(text) : image[Cmdline + i] = CharAt(text, i)
  PROVE  TextOf(image) = text
PROOF
  <1> DEFINE n == Len(text)
  <1>1. n \in Nat /\ n \in 0 .. CmdlineMax - 1
    BY SettingsAssumption
  <1>2. \A i \in 1 .. n : text[i] \in Nat \ {Nul}
    OBVIOUS
  <1>3. Field(image, n) = Nul
    BY <1>1 DEF Field, CharAt
  <1>4. ASSUME NEW i \in 0 .. n - 1
        PROVE  Field(image, i) = text[i + 1] /\ text[i + 1] # Nul
    <2>1. i \in 0 .. n /\ i < n /\ i + 1 \in 1 .. n
      BY <1>1
    <2>2. Field(image, i) = text[i + 1]
      BY <2>1 DEF Field, CharAt
    <2> QED
      BY <1>2, <2>1, <2>2
  <1>5. /\ TextOf(image) \in Seq(Nat \ {Nul}) /\ Len(TextOf(image)) = n
        /\ \A i \in 1 .. n : TextOf(image)[i] = Field(image, i - 1)
    <2> HIDE DEF n
    <2>1. \A i \in 0 .. n - 1 : Field(image, i) # Nul
      BY <1>4
    <2> QED
      BY <1>1, <1>3, <2>1, EndedText
  <1>6. \A i \in 1 .. n : Field(image, i - 1) = text[i]
    <2> SUFFICES ASSUME NEW i \in 1 .. n PROVE Field(image, i - 1) = text[i]
      OBVIOUS
    <2>1. i - 1 \in 0 .. n - 1 /\ (i - 1) + 1 = i
      BY <1>1
    <2> QED
      BY <1>4, <2>1
  <1> DEFINE found == TextOf(image)
  <1>7. /\ found \in Seq(Nat \ {Nul}) /\ Len(found) = Len(text)
        /\ \A i \in 1 .. Len(found) : found[i] = text[i]
    BY <1>5, <1>6
  <1> HIDE DEF found
  <1>8. found = text
    BY <1>7, SameText
  <1> QED
    BY <1>8 DEF found

LEMMA SanitisedType ==
  ASSUME NEW image, IsImage(image)
  PROVE  IsSettings(Sanitised(image))
PROOF
  <1>1. TextOf(image) \in Seq(Nat \ {Nul}) /\ Len(TextOf(image)) < CmdlineMax
    <2>1. CASE Unended(image)
      <3>1. << >> \in Seq(Nat \ {Nul}) /\ Len(<< >>) = 0
        OBVIOUS
      <3>2. TextOf(image) = << >>
        BY <2>1, UnendedText
      <3> QED
        BY <3>1, <3>2, SettingsAssumption
    <2>2. CASE ~Unended(image)
      <3>1. PICK n \in 0 .. CmdlineMax - 1 :
              Field(image, n) = Nul /\ \A i \in 0 .. n - 1 : Field(image, i) # Nul
        BY <2>2, TextCases
      <3>2. TextOf(image) \in Seq(Nat \ {Nul}) /\ Len(TextOf(image)) = n
        BY <3>1, EndedText
      <3> QED
        BY <3>2, SettingsAssumption
    <2> QED
      BY <2>1, <2>2
  <1>2. /\ image[Partition] \in Nat /\ image[BootPriority] \in Nat
        /\ DefaultFlags \in SUBSET Known
    BY DEF IsImage, DefaultFlags, Known
  <1> QED
    BY <1>1, <1>2 DEF Sanitised, IsSettings, Settings

LEMMA DefaultsType == IsSettings(Defaults)
PROOF
  <1>1. << >> \in Seq(Nat \ {Nul}) /\ Len(<< >>) = 0
    OBVIOUS
  <1>2. DefaultFlags \in SUBSET Known
    BY DEF DefaultFlags, Known
  <1> QED
    BY <1>1, <1>2, SettingsAssumption DEF Defaults, IsSettings, Settings

LEMMA LoadedType ==
  ASSUME NEW image, IsImage(image)
  PROVE  IsSettings(Loaded(image))
PROOF
  BY SanitisedType, DefaultsType DEF Loaded

(* With nothing left to write the CMOS says what the settings say.         *)
LEMMA LoadedKept ==
  ASSUME NEW image, IsImage(image), NEW s, IsSettings(s), Kept(image, << >>, s)
  PROVE  image[Magic] = MagicNumber /\ Sanitised(image) = s
PROOF
  <1>1. /\ image[Magic] = MagicNumber /\ image[Partition] = s.part
        /\ image[Flags0] = s.flags /\ image[BootPriority] = s.prio
        /\ \A i \in 0 .. Len(s.cmd) : image[Cmdline + i] = CharAt(s.cmd, i)
    BY NoWrite DEF Kept, Comes
  <1>2. TextOf(image) = s.cmd
    BY <1>1, FoundText, SettingsFields
  <1>3. Sanitised(image) = [part |-> s.part, flags |-> s.flags, prio |-> s.prio,
                            cmd |-> s.cmd]
    BY <1>1, <1>2, SettingsFields DEF Sanitised
  <1> QED
    BY <1>1, <1>3, SettingsFields

(* The image after the first write of a list.                              *)
Written(image, list) == [image EXCEPT ![Head(list).off] = Head(list).value]

LEMMA WriteLemma ==
  ASSUME NEW image, IsImage(image), NEW list, IsList(list), list # << >>
  PROVE  /\ IsImage(Written(image, list))
         /\ \A off \in Offsets : Written(image, list)[off] =
              IF off = Head(list).off THEN Head(list).value ELSE image[off]
         /\ Fits(Head(list).off, Head(list).value)
PROOF
  <1> DEFINE new == Written(image, list)
             w   == Head(list)
  <1>1. Fits(w.off, w.value) /\ DOMAIN image = Offsets
    BY HeadOff DEF IsList, IsImage
  <1>2. /\ DOMAIN new = Offsets
        /\ \A off \in Offsets : new[off] = IF off = w.off THEN w.value ELSE image[off]
    BY <1>1 DEF Written, Fits
  <1> HIDE DEF new, w
  <1>3. \A i \in 0 .. CmdlineMax - 1 :
          Cmdline + i \in Offsets /\ Cmdline + i \in CmdlineCells
    BY SettingsAssumption DEF Offsets, CmdlineCells
  <1>4. /\ Magic \in Offsets /\ Partition \in Offsets /\ BootPriority \in Offsets
    BY DEF Offsets
  <1>5. new[Magic] \in Nat /\ new[Partition] \in Nat /\ new[BootPriority] \in Nat
    BY <1>1, <1>2, <1>4 DEF Fits, IsImage
  <1>6. \A i \in 0 .. CmdlineMax - 1 : new[Cmdline + i] \in Nat
    BY <1>1, <1>2, <1>3 DEF Fits, IsImage, Field
  <1>7. IsImage(new)
    BY <1>2, <1>5, <1>6 DEF IsImage, Field
  <1> QED
    BY <1>1, <1>2, <1>7 DEF new, w

(* What comes to a cell still comes after a write.                         *)
LEMMA StillComes ==
  ASSUME NEW image, IsImage(image), NEW list, IsList(list), list # << >>,
         NEW off \in Offsets, NEW v, Comes(image, list, off, v)
  PROVE  Comes(Written(image, list), Tail(list), off, v)
PROOF
  <1> DEFINE w == Head(list)
  <1>1. /\ w \in Elems(list)
        /\ \A x : x \in Elems(Tail(list)) <=> x \in Elems(list) /\ x.off # w.off
    BY HeadOff
  <1>2. Written(image, list)[off] = IF off = w.off THEN w.value ELSE image[off]
    BY WriteLemma
  <1>3. \A x \in Elems(list) : x.off = w.off => x = w
    BY <1>1, SameOff
  <1> HIDE DEF w
  <1>4. CASE off = w.off
    <2>1. w.value = v
      BY <1>1, <1>3, <1>4 DEF Comes
    <2> QED
      BY <1>1, <1>2, <1>4, <2>1 DEF Comes
  <1>5. CASE off # w.off
    BY <1>1, <1>2, <1>5 DEF Comes
  <1> QED
    BY <1>4, <1>5

-----------------------------------------------------------------------------
(* The lists of the handlers. *)

LEMMA SetFields ==
  ASSUME NEW off, NEW v
  PROVE  Set(off, v).off = off /\ Set(off, v).value = v
PROOF
  BY DEF Set

(* The cells of settings that are fit to be written.                       *)
LEMMA FitCells ==
  /\ Fits(Magic, MagicNumber) /\ MagicNumber \in Values
  /\ \A v \in 0 .. 1 : Fits(Partition, v) /\ v \in Values
  /\ \A v \in SUBSET Known : Fits(Flags0, v) /\ v \in Values
  /\ \A v \in {PrioAuto, PrioIde, PrioUsb} : Fits(BootPriority, v) /\ v \in Values
  /\ \A v \in Nat : Fits(Cmdline, v) /\ v \in Values
  /\ DefaultFlags \in SUBSET Known
PROOF
  <1>1. /\ Magic \in Offsets /\ Partition \in Offsets /\ Flags0 \in Offsets
        /\ BootPriority \in Offsets /\ Cmdline \in Offsets
    BY SettingsAssumption DEF Offsets
  <1>2. \A off \in CmdlineCells : off >= 7
    BY SettingsAssumption DEF CmdlineCells
  <1>3. DefaultFlags \in SUBSET Known
    BY DEF DefaultFlags, Known
  <1>4. /\ MagicNumber \in Values /\ \A v \in Nat : v \in Values
        /\ \A v \in SUBSET Known : v \in Values
    BY DEF Values
  <1>5. Fits(Magic, MagicNumber)
    BY <1>1, <1>2 DEF Fits
  <1>6. \A v \in 0 .. 1 : Fits(Partition, v)
    BY <1>1, <1>2 DEF Fits
  <1>7. \A v \in SUBSET Known : Fits(Flags0, v)
    BY <1>1, <1>2 DEF Fits
  <1>8. \A v \in {PrioAuto, PrioIde, PrioUsb} : Fits(BootPriority, v)
    BY <1>1, <1>2 DEF Fits
  <1>9. \A v \in Nat : Fits(Cmdline, v)
    BY <1>1, <1>2 DEF Fits
  <1> QED
    BY <1>3, <1>4, <1>5, <1>6, <1>7, <1>8, <1>9

(* init_defaults writes the magic number and every other cell.             *)
LEMMA InitDefaultsList ==
  /\ IsList(InitDefaults)
  /\ \A w : w \in Elems(InitDefaults) <=>
       \/ w \in {Set(Magic, MagicNumber), Set(Partition, 0), Set(Flags0, DefaultFlags),
                 Set(BootPriority, PrioAuto)}
       \/ \E i \in 1 .. CmdlineMax : w = Set(Cmdline + i - 1, Nul)
PROOF
  <1> DEFINE a == << Set(Magic, MagicNumber), Set(Partition, 0), Set(Flags0, DefaultFlags),
                     Set(BootPriority, PrioAuto) >>
             f == [i \in 1 .. CmdlineMax |-> Nul]
             b == [i \in 1 .. CmdlineMax |-> Set(Cmdline + i - 1, f[i])]
             b0 == [i \in 1 .. CmdlineMax |-> Set(Cmdline + i - 1, Nul)]
  <1>1. InitDefaults = a \o b0 /\ b = b0
    BY DEF InitDefaults
  <1>2. f \in [1 .. CmdlineMax -> Nat]
    OBVIOUS
  <1>3. IsList(b) /\ Elems(b) = {Set(Cmdline + i - 1, f[i]) : i \in 1 .. CmdlineMax}
    <2> HIDE DEF f
    <2> QED
      BY <1>2, FieldWrites
  <1>4. \A w : w \in Elems(b) <=> \E i \in 1 .. CmdlineMax : w = Set(Cmdline + i - 1, Nul)
    <2>1. \A i \in 1 .. CmdlineMax : f[i] = Nul
      OBVIOUS
    <2> HIDE DEF f, b
    <2> QED
      BY <1>3, <2>1
  <1>5. \A w \in Elems(b) : w.off >= 7
    <2> SUFFICES ASSUME NEW w \in Elems(b) PROVE w.off >= 7
      OBVIOUS
    <2>1. PICK i \in 1 .. CmdlineMax : w = Set(Cmdline + i - 1, Nul)
      BY <1>4
    <2>2. w.off = Cmdline + i - 1
      BY <2>1 DEF Set
    <2> QED
      BY <2>2, SettingsAssumption
  <1> HIDE DEF b, b0
  <1>6. /\ Set(Magic, MagicNumber) \in CellSets /\ Set(Partition, 0) \in CellSets
        /\ Set(Flags0, DefaultFlags) \in CellSets
        /\ Set(BootPriority, PrioAuto) \in CellSets
    BY FitCells DEF Set, CellSets
  <1>7. /\ a \in Seq(CellSets) /\ Len(a) = 4
        /\ a[1] = Set(Magic, MagicNumber) /\ a[2] = Set(Partition, 0)
        /\ a[3] = Set(Flags0, DefaultFlags) /\ a[4] = Set(BootPriority, PrioAuto)
    BY <1>6
  <1> HIDE DEF a
  <1>8. \A w : w \in Elems(a) <=>
          w \in {Set(Magic, MagicNumber), Set(Partition, 0), Set(Flags0, DefaultFlags),
                 Set(BootPriority, PrioAuto)}
    <2>1. 1 .. Len(a) = {1, 2, 3, 4}
      BY <1>7
    <2> QED
      BY <1>7, <2>1 DEF Elems
  <1>9. \A i, j \in 1 .. Len(a) : i < j => a[i].off < a[j].off
    <2>1. a[1].off = 0 /\ a[2].off = 4 /\ a[3].off = 5 /\ a[4].off = 6
      BY <1>7 DEF Set
    <2>2. \A i \in 1 .. Len(a) : i = 1 \/ i = 2 \/ i = 3 \/ i = 4
      BY <1>7
    <2> QED
      BY <2>1, <2>2
  <1>10. \A w \in Elems(a) : Fits(w.off, w.value) /\ w.off < 7
    <2> SUFFICES ASSUME NEW w \in Elems(a) PROVE Fits(w.off, w.value) /\ w.off < 7
      OBVIOUS
    <2>1. CASE w = Set(Magic, MagicNumber)
      BY <2>1, FitCells DEF Set
    <2>2. CASE w = Set(Partition, 0)
      BY <2>2, FitCells DEF Set
    <2>3. CASE w = Set(Flags0, DefaultFlags)
      BY <2>3, FitCells DEF Set
    <2>4. CASE w = Set(BootPriority, PrioAuto)
      BY <2>4, FitCells DEF Set
    <2> QED
      BY <1>8, <2>1, <2>2, <2>3, <2>4
  <1>11. IsList(a)
    BY <1>7, <1>9, <1>10 DEF IsList
  <1>12. \A x \in Elems(a), y \in Elems(b) : x.off < y.off
    <2> SUFFICES ASSUME NEW x \in Elems(a), NEW y \in Elems(b) PROVE x.off < y.off
      OBVIOUS
    <2>1. x.off \in {0, 4, 5, 6}
      BY <1>8 DEF Set
    <2>2. PICK i \in 1 .. CmdlineMax : y = Set(Cmdline + i - 1, Nul)
      BY <1>4
    <2>3. y.off = Cmdline + i - 1
      BY <2>2 DEF Set
    <2> QED
      BY <2>1, <2>3, SettingsAssumption
  <1>13. IsList(a \o b) /\ Elems(a \o b) = Elems(a) \cup Elems(b)
    BY <1>3, <1>11, <1>12, Concat
  <1> QED
    BY <1>1, <1>4, <1>8, <1>13

(* What bios_nvram_load_settings repairs where the magic number is right.  *)
LEMMA RepairsList ==
  ASSUME NEW image, IsImage(image), image[Magic] = MagicNumber
  PROVE  /\ IsList(Repairs(image))
         /\ \A w : w \in Elems(Repairs(image)) <=>
              \/ image[Partition] > 1 /\ w = Set(Partition, 0)
              \/ ~(image[Flags0] \subseteq Known) /\ w = Set(Flags0, DefaultFlags)
              \/ image[BootPriority] > PrioUsb /\ w = Set(BootPriority, PrioAuto)
              \/ Unended(image) /\ w = Set(Cmdline, Nul)
PROOF
  <1> DEFINE ca == image[Partition] > 1
             cb == ~(image[Flags0] \subseteq Known)
             cc == image[BootPriority] > PrioUsb
             cd == Unended(image)
             wa == Set(Partition, 0)
             wb == Set(Flags0, DefaultFlags)
             wc == Set(BootPriority, PrioAuto)
             wd == Set(Cmdline, Nul)
             a  == IF ca THEN << wa >> ELSE << >>
             b  == IF cb THEN << wb >> ELSE << >>
             c  == IF cc THEN << wc >> ELSE << >>
             d  == IF cd THEN << wd >> ELSE << >>
  <1>1. Repairs(image) = ((a \o b) \o c) \o d
    BY DEF Repairs, Unended
  <1>2. wa.off = 4 /\ wb.off = 5 /\ wc.off = 6 /\ wd.off = 7
    BY DEF Set
  <1>a. IsList(a) /\ Elems(a) = IF ca THEN {wa} ELSE {}
    <2>1. IsList(<< wa >>) /\ Elems(<< wa >>) = {wa}
      BY FitCells, OneWrite
    <2> HIDE DEF ca, wa
    <2>2. CASE ca
      BY <2>1, <2>2
    <2>3. CASE ~ca
      BY <2>3, NoWrite
    <2> QED
      BY <2>2, <2>3
  <1>b. IsList(b) /\ Elems(b) = IF cb THEN {wb} ELSE {}
    <2>1. IsList(<< wb >>) /\ Elems(<< wb >>) = {wb}
      BY FitCells, OneWrite
    <2> HIDE DEF cb, wb
    <2>2. CASE cb
      BY <2>1, <2>2
    <2>3. CASE ~cb
      BY <2>3, NoWrite
    <2> QED
      BY <2>2, <2>3
  <1>c. IsList(c) /\ Elems(c) = IF cc THEN {wc} ELSE {}
    <2>1. IsList(<< wc >>) /\ Elems(<< wc >>) = {wc}
      BY FitCells, OneWrite
    <2> HIDE DEF cc, wc
    <2>2. CASE cc
      BY <2>1, <2>2
    <2>3. CASE ~cc
      BY <2>3, NoWrite
    <2> QED
      BY <2>2, <2>3
  <1>d. IsList(d) /\ Elems(d) = IF cd THEN {wd} ELSE {}
    <2>1. IsList(<< wd >>) /\ Elems(<< wd >>) = {wd}
      BY FitCells, OneWrite
    <2> HIDE DEF cd, wd
    <2>2. CASE cd
      BY <2>1, <2>2
    <2>3. CASE ~cd
      BY <2>3, NoWrite
    <2> QED
      BY <2>2, <2>3
  <1> HIDE DEF a, b, c, d, wa, wb, wc, wd, ca, cb, cc, cd
  <1>4. /\ \A x \in Elems(a) : x.off = 4
        /\ \A x \in Elems(b) : x.off = 5
        /\ \A x \in Elems(c) : x.off = 6
        /\ \A x \in Elems(d) : x.off = 7
    BY <1>2, <1>a, <1>b, <1>c, <1>d
  <1>5. IsList(a \o b) /\ Elems(a \o b) = Elems(a) \cup Elems(b)
    BY <1>4, <1>a, <1>b, Concat
  <1>6. /\ IsList((a \o b) \o c)
        /\ Elems((a \o b) \o c) = (Elems(a) \cup Elems(b)) \cup Elems(c)
    BY <1>4, <1>5, <1>c, Concat
  <1>7. /\ IsList(((a \o b) \o c) \o d)
        /\ Elems(((a \o b) \o c) \o d)
             = ((Elems(a) \cup Elems(b)) \cup Elems(c)) \cup Elems(d)
    BY <1>4, <1>6, <1>d, Concat
  <1>8. \A w : w \in Elems(Repairs(image)) <=>
          \/ ca /\ w = wa
          \/ cb /\ w = wb
          \/ cc /\ w = wc
          \/ cd /\ w = wd
    BY <1>1, <1>7, <1>a, <1>b, <1>c, <1>d
  <1> QED
    BY <1>1, <1>7, <1>8 DEF ca, cb, cc, cd, wa, wb, wc, wd

(* A saved command line fills the field.                                   *)
LEMMA SaveCmdlineList ==
  ASSUME NEW text \in Seq(Nat \ {Nul}), Len(text) < CmdlineMax
  PROVE  /\ IsList(SaveCmdline(text))
         /\ \A w \in Elems(SaveCmdline(text)) : w.off >= Cmdline
         /\ \A w \in Elems(SaveCmdline(text)), i \in 0 .. Len(text) :
              w.off = Cmdline + i => w.value = CharAt(text, i)
         /\ \A i \in 0 .. Len(text) :
              Set(Cmdline + i, CharAt(text, i)) \in Elems(SaveCmdline(text))
PROOF
  <1> DEFINE f == [i \in 1 .. CmdlineMax |-> IF i <= Len(text) THEN text[i] ELSE Nul]
             list  == [i \in 1 .. CmdlineMax |-> Set(Cmdline + i - 1, f[i])]
  <1>1. SaveCmdline(text) = list
    BY DEF SaveCmdline
  <1>2. CmdlineMax \in Nat \ {0} /\ Len(text) \in Nat
    BY SettingsAssumption
  <1>3. \A i \in 1 .. Len(text) : text[i] \in Nat
    OBVIOUS
  <1>4. f \in [1 .. CmdlineMax -> Nat]
    BY <1>2, <1>3
  <1>5. \A i \in 1 .. CmdlineMax : f[i] = IF i <= Len(text) THEN text[i] ELSE Nul
    OBVIOUS
  <1> HIDE DEF f
  <1>6. IsList(list) /\ Elems(list) = {Set(Cmdline + i - 1, f[i]) : i \in 1 .. CmdlineMax}
    BY <1>4, FieldWrites
  <1> HIDE DEF list
  <1>7. ASSUME NEW i \in 0 .. Len(text)
        PROVE  /\ i + 1 \in 1 .. CmdlineMax /\ Cmdline + (i + 1) - 1 = Cmdline + i
               /\ f[i + 1] = CharAt(text, i)
    <2>1. i + 1 \in 1 .. CmdlineMax /\ (i + 1 <= Len(text) <=> i < Len(text))
      BY <1>2
    <2> QED
      BY <1>5, <2>1 DEF CharAt
  <1>8. ASSUME NEW w \in Elems(list)
        PROVE  /\ w.off >= Cmdline
               /\ \A i \in 0 .. Len(text) : w.off = Cmdline + i => w.value = CharAt(text, i)
    <2>1. PICK k \in 1 .. CmdlineMax : w = Set(Cmdline + k - 1, f[k])
      BY <1>6
    <2>2. w.off = Cmdline + k - 1 /\ w.value = f[k]
      BY <2>1 DEF Set
    <2>3. ASSUME NEW i \in 0 .. Len(text), w.off = Cmdline + i PROVE w.value = CharAt(text, i)
      <3>1. k = i + 1
        BY <1>2, <2>2, <2>3
      <3> QED
        BY <1>7, <2>2, <3>1
    <2> QED
      BY <1>2, <2>2, <2>3
  <1>9. ASSUME NEW i \in 0 .. Len(text)
        PROVE  Set(Cmdline + i, CharAt(text, i)) \in Elems(list)
    <2>1. Set(Cmdline + (i + 1) - 1, f[i + 1]) \in Elems(list)
      BY <1>6, <1>7
    <2> QED
      BY <1>7, <2>1
  <1> QED
    BY <1>1, <1>6, <1>8, <1>9

-----------------------------------------------------------------------------
(* What each handler leaves to be written. *)

LEMMA KeptRepairs ==
  ASSUME NEW image, IsImage(image), image[Magic] = MagicNumber
  PROVE  Kept(image, Repairs(image), Sanitised(image))
PROOF
  <1> DEFINE list == Repairs(image)
             s    == Sanitised(image)
  <1>1. \A w : w \in Elems(list) <=>
              \/ image[Partition] > 1 /\ w = Set(Partition, 0)
              \/ ~(image[Flags0] \subseteq Known) /\ w = Set(Flags0, DefaultFlags)
              \/ image[BootPriority] > PrioUsb /\ w = Set(BootPriority, PrioAuto)
              \/ Unended(image) /\ w = Set(Cmdline, Nul)
    BY RepairsList
  <1>2. /\ s.part = IF image[Partition] > 1 THEN 0 ELSE image[Partition]
        /\ s.flags = IF image[Flags0] \subseteq Known THEN image[Flags0] ELSE DefaultFlags
        /\ s.prio = IF image[BootPriority] > PrioUsb THEN PrioAuto ELSE image[BootPriority]
        /\ s.cmd = TextOf(image)
    BY DEF Sanitised
  <1> HIDE DEF list, s
  <1>3. \A w \in Elems(list) : w.off \in {4, 5, 6, 7}
    BY <1>1 DEF Set
  <1>4. Comes(image, list, Magic, MagicNumber)
    BY <1>3 DEF Comes
  <1>5. Comes(image, list, Partition, s.part)
    <2>1. CASE image[Partition] > 1
      <3>1. Set(Partition, 0) \in Elems(list) /\ s.part = 0
        BY <1>1, <1>2, <2>1
      <3> QED
        BY <3>1 DEF Comes, Set
    <2>2. CASE ~(image[Partition] > 1)
      <3>1. image[Partition] = s.part /\ \A w \in Elems(list) : w.off # Partition
        BY <1>1, <1>2, <2>2 DEF Set
      <3> QED
        BY <3>1 DEF Comes
    <2> QED
      BY <2>1, <2>2
  <1>6. Comes(image, list, Flags0, s.flags)
    <2>1. CASE ~(image[Flags0] \subseteq Known)
      <3>1. Set(Flags0, DefaultFlags) \in Elems(list) /\ s.flags = DefaultFlags
        BY <1>1, <1>2, <2>1
      <3> QED
        BY <3>1 DEF Comes, Set
    <2>2. CASE ~(~(image[Flags0] \subseteq Known))
      <3>1. image[Flags0] = s.flags /\ \A w \in Elems(list) : w.off # Flags0
        BY <1>1, <1>2, <2>2 DEF Set
      <3> QED
        BY <3>1 DEF Comes
    <2> QED
      BY <2>1, <2>2
  <1>7. Comes(image, list, BootPriority, s.prio)
    <2>1. CASE image[BootPriority] > PrioUsb
      <3>1. Set(BootPriority, PrioAuto) \in Elems(list) /\ s.prio = PrioAuto
        BY <1>1, <1>2, <2>1
      <3> QED
        BY <3>1 DEF Comes, Set
    <2>2. CASE ~(image[BootPriority] > PrioUsb)
      <3>1. image[BootPriority] = s.prio /\ \A w \in Elems(list) : w.off # BootPriority
        BY <1>1, <1>2, <2>2 DEF Set
      <3> QED
        BY <3>1 DEF Comes
    <2> QED
      BY <2>1, <2>2
  <1>8. ASSUME NEW i \in 0 .. Len(s.cmd)
        PROVE  Comes(image, list, Cmdline + i, CharAt(s.cmd, i))
    <2>1. CASE Unended(image)
      <3>1. Len(s.cmd) = 0 /\ i = 0
        BY <1>2, <2>1, UnendedText
      <3>2. Set(Cmdline, Nul) \in Elems(list)
        BY <1>1, <2>1
      <3> QED
        BY <3>1, <3>2 DEF Comes, CharAt, Set
    <2>2. CASE ~Unended(image)
      <3>1. PICK n \in 0 .. CmdlineMax - 1 :
              Field(image, n) = Nul /\ \A k \in 0 .. n - 1 : Field(image, k) # Nul
        BY <2>2, TextCases
      <3>2. Len(s.cmd) = n /\ \A k \in 1 .. n : s.cmd[k] = Field(image, k - 1)
        BY <1>2, <3>1, EndedText
      <3>3. image[Cmdline + i] = CharAt(s.cmd, i)
        <4>1. CASE i = n
          BY <3>1, <3>2, <4>1 DEF CharAt, Field
        <4>2. CASE i # n
          <5>1. i + 1 \in 1 .. n /\ (i + 1) - 1 = i /\ i < n
            BY <3>2, <4>2, SettingsAssumption
          <5>2. s.cmd[i + 1] = Field(image, (i + 1) - 1)
            BY <3>2, <5>1
          <5> QED
            BY <3>2, <5>1, <5>2 DEF CharAt, Field
        <4> QED
          BY <4>1, <4>2
      <3>4. \A w \in Elems(list) : w.off \in {4, 5, 6}
        BY <1>1, <2>2 DEF Set
      <3>5. \A w \in Elems(list) : w.off # Cmdline + i
        BY <3>2, <3>4, SettingsAssumption
      <3> QED
        BY <3>3, <3>5 DEF Comes
    <2> QED
      BY <2>1, <2>2
  <1> QED
    BY <1>4, <1>5, <1>6, <1>7, <1>8 DEF Kept, list, s

LEMMA KeptDefaults ==
  ASSUME NEW image
  PROVE  Kept(image, InitDefaults, Defaults)
PROOF
  <1> DEFINE s == Defaults
  <1>1. /\ s.part = 0 /\ s.flags = DefaultFlags /\ s.prio = PrioAuto
        /\ s.cmd = << >> /\ Len(s.cmd) = 0
    BY DEF Defaults
  <1> HIDE DEF s
  <1>2. /\ Set(Magic, MagicNumber) \in Elems(InitDefaults)
        /\ Set(Partition, 0) \in Elems(InitDefaults)
        /\ Set(Flags0, DefaultFlags) \in Elems(InitDefaults)
        /\ Set(BootPriority, PrioAuto) \in Elems(InitDefaults)
    BY InitDefaultsList
  <1>3. Set(Cmdline, Nul) \in Elems(InitDefaults)
    <2>1. 1 \in 1 .. CmdlineMax /\ Cmdline + 1 - 1 = Cmdline
      BY SettingsAssumption
    <2>2. Set(Cmdline + 1 - 1, Nul) \in Elems(InitDefaults)
      BY <2>1, InitDefaultsList
    <2> QED
      BY <2>1, <2>2
  <1>4. \A i \in 0 .. Len(s.cmd) : i = 0 /\ CharAt(s.cmd, i) = Nul
    BY <1>1 DEF CharAt
  <1>5. Kept(image, InitDefaults, s)
    BY <1>1, <1>2, <1>3, <1>4 DEF Kept, Comes, Set
  <1> QED
    BY <1>5 DEF s

(* One field of the settings at rest is changed.                           *)
LEMMA KeptOne ==
  ASSUME NEW image, NEW s, IsSettings(s), Kept(image, << >>, s),
         NEW off \in {Partition, Flags0, BootPriority}, NEW v \in Values,
         Fits(off, v), NEW new, new.cmd = s.cmd,
         new.part = (IF off = Partition THEN v ELSE s.part),
         new.flags = (IF off = Flags0 THEN v ELSE s.flags),
         new.prio = (IF off = BootPriority THEN v ELSE s.prio)
  PROVE  IsList(<< Set(off, v) >>) /\ Kept(image, << Set(off, v) >>, new)
PROOF
  <1> DEFINE list == << Set(off, v) >>
  <1>1. IsList(list) /\ Elems(list) = {Set(off, v)}
    <2>1. off \in Nat
      OBVIOUS
    <2> QED
      BY <2>1, OneWrite
  <1>2. /\ Set(off, v).off = off /\ Set(off, v).value = v
    BY DEF Set
  <1> HIDE DEF list
  <1>3. /\ image[Magic] = MagicNumber /\ image[Partition] = s.part
        /\ image[Flags0] = s.flags /\ image[BootPriority] = s.prio
        /\ \A i \in 0 .. Len(s.cmd) : image[Cmdline + i] = CharAt(s.cmd, i)
    BY NoWrite DEF Kept, Comes
  <1>4. \A i \in 0 .. Len(s.cmd) : Cmdline + i > 6
    BY SettingsFields
  <1>5. Comes(image, list, Magic, MagicNumber)
    BY <1>1, <1>2, <1>3 DEF Comes
  <1>6. Comes(image, list, Partition, new.part)
    BY <1>1, <1>2, <1>3 DEF Comes
  <1>7. Comes(image, list, Flags0, new.flags)
    BY <1>1, <1>2, <1>3 DEF Comes
  <1>8. Comes(image, list, BootPriority, new.prio)
    BY <1>1, <1>2, <1>3 DEF Comes
  <1>9. \A i \in 0 .. Len(s.cmd) : Comes(image, list, Cmdline + i, CharAt(s.cmd, i))
    BY <1>1, <1>2, <1>3, <1>4 DEF Comes
  <1> QED
    BY <1>1, <1>5, <1>6, <1>7, <1>8, <1>9 DEF Kept, list

LEMMA KeptCmdline ==
  ASSUME NEW image, NEW s, IsSettings(s), Kept(image, << >>, s),
         NEW text \in Seq(Nat \ {Nul}), Len(text) < CmdlineMax,
         NEW new, new.cmd = text, new.part = s.part, new.flags = s.flags,
         new.prio = s.prio
  PROVE  Kept(image, SaveCmdline(text), new)
PROOF
  <1> DEFINE list == SaveCmdline(text)
  <1>1. /\ \A w \in Elems(list) : w.off >= Cmdline
        /\ \A i \in 0 .. Len(text) : Set(Cmdline + i, CharAt(text, i)) \in Elems(list)
    BY SaveCmdlineList
  <1> HIDE DEF list
  <1>2. /\ image[Magic] = MagicNumber /\ image[Partition] = s.part
        /\ image[Flags0] = s.flags /\ image[BootPriority] = s.prio
    BY NoWrite DEF Kept, Comes
  <1>3. \A w \in Elems(list) :
          w.off # Magic /\ w.off # Partition /\ w.off # Flags0 /\ w.off # BootPriority
    BY <1>1
  <1>4. \A i \in 0 .. Len(text) : Comes(image, list, Cmdline + i, CharAt(text, i))
    <2> SUFFICES ASSUME NEW i \in 0 .. Len(text)
                 PROVE  Comes(image, list, Cmdline + i, CharAt(text, i))
      OBVIOUS
    <2>1. Set(Cmdline + i, CharAt(text, i)) \in Elems(list)
      BY <1>1
    <2> QED
      BY <2>1 DEF Comes, Set
  <1> QED
    BY <1>2, <1>3, <1>4 DEF Kept, Comes, list
-----------------------------------------------------------------------------
(* Half of a handler's writes. *)

(* What is still to be written are bytes of the settings a.                *)
Agrees(list, a) ==
  \A w \in Elems(list) :
    /\ w.off = Partition => w.value = a.part
    /\ w.off = Flags0 => w.value = a.flags
    /\ w.off = BootPriority => w.value = a.prio
    /\ \A i \in 0 .. Len(a.cmd) : w.off = Cmdline + i => w.value = CharAt(a.cmd, i)

(* Each field says what b or what a says, and the command line, where they *)
(* agree about it, says so all the time; or it never had an end.           *)
Half(image, list, b, a) ==
  /\ image[Magic] = MagicNumber
  /\ Sanitised(image).part \in {b.part, a.part}
  /\ Sanitised(image).flags \in {b.flags, a.flags}
  /\ Sanitised(image).prio \in {b.prio, a.prio}
  /\ Agrees(list, a)
  /\ b.cmd = a.cmd =>
       \/ \A i \in 0 .. Len(a.cmd) : image[Cmdline + i] = CharAt(a.cmd, i)
       \/ /\ a.cmd = << >> /\ Unended(image)
          /\ \A w \in Elems(list) : w.off \in CmdlineCells => w.off = Cmdline

LEMMA KeptAgrees ==
  ASSUME NEW image, NEW list, IsList(list), NEW s, Kept(image, list, s)
  PROVE  Agrees(list, s)
PROOF
  <1>1. ASSUME NEW off, NEW v, Comes(image, list, off, v), NEW w \in Elems(list),
               w.off = off
        PROVE  w.value = v
    <2>1. PICK x \in Elems(list) : x.off = off /\ x.value = v
      BY <1>1 DEF Comes
    <2>2. x = w
      BY <1>1, <2>1, SameOff
    <2> QED
      BY <2>1, <2>2
  <1> SUFFICES ASSUME NEW w \in Elems(list)
               PROVE  /\ w.off = Partition => w.value = s.part
                      /\ w.off = Flags0 => w.value = s.flags
                      /\ w.off = BootPriority => w.value = s.prio
                      /\ \A i \in 0 .. Len(s.cmd) :
                           w.off = Cmdline + i => w.value = CharAt(s.cmd, i)
    BY DEF Agrees
  <1>2. \A off, v : Comes(image, list, off, v) /\ w.off = off => w.value = v
    BY <1>1
  <1> QED
    BY <1>2 DEF Kept

(* A handler that starts with the CMOS at rest.                            *)
LEMMA HalfAtRest ==
  ASSUME NEW image, IsImage(image), NEW list, IsList(list), NEW b, IsSettings(b),
         NEW a, Kept(image, << >>, b), Kept(image, list, a)
  PROVE  Half(image, list, b, a)
PROOF
  <1>1. image[Magic] = MagicNumber /\ Sanitised(image) = b
    BY LoadedKept
  <1>2. \A i \in 0 .. Len(b.cmd) : image[Cmdline + i] = CharAt(b.cmd, i)
    BY NoWrite DEF Kept, Comes
  <1>3. Agrees(list, a)
    BY KeptAgrees
  <1>4. b.cmd = a.cmd => \A i \in 0 .. Len(a.cmd) : image[Cmdline + i] = CharAt(a.cmd, i)
    BY <1>2
  <1> QED
    BY <1>1, <1>3, <1>4 DEF Half

LEMMA HalfRepairs ==
  ASSUME NEW image, IsImage(image), image[Magic] = MagicNumber
  PROVE  Half(image, Repairs(image), Sanitised(image), Sanitised(image))
PROOF
  <1> DEFINE s == Sanitised(image)
             list == Repairs(image)
  <1>1. IsList(list) /\ Kept(image, list, s)
    BY RepairsList, KeptRepairs
  <1>2. Agrees(list, s)
    BY <1>1, KeptAgrees
  <1>3. CASE Unended(image)
    <2>1. s.cmd = << >>
      BY <1>3, UnendedText DEF Sanitised
    <2>2. \A w \in Elems(list) : w.off \in CmdlineCells => w.off = Cmdline
      <3> SUFFICES ASSUME NEW w \in Elems(list), w.off \in CmdlineCells
                   PROVE  w.off = Cmdline
        OBVIOUS
      <3>1. w \in {Set(Partition, 0), Set(Flags0, DefaultFlags),
                   Set(BootPriority, PrioAuto), Set(Cmdline, Nul)}
        BY RepairsList
      <3>2. w.off >= 7
        BY SettingsAssumption DEF CmdlineCells
      <3> QED
        BY <3>1, <3>2 DEF Set
    <2> HIDE DEF s, list
    <2> QED
      BY <1>2, <1>3, <2>1, <2>2 DEF Half, s, list
  <1>4. CASE ~Unended(image)
    <2>1. \A w \in Elems(list) : w.off \in {4, 5, 6}
      BY <1>4, RepairsList DEF Set
    <2>2. \A i \in 0 .. Len(s.cmd) : image[Cmdline + i] = CharAt(s.cmd, i)
      <3> HIDE DEF s, list
      <3> SUFFICES ASSUME NEW i \in 0 .. Len(s.cmd)
                   PROVE  image[Cmdline + i] = CharAt(s.cmd, i)
        OBVIOUS
      <3>1. Comes(image, list, Cmdline + i, CharAt(s.cmd, i))
        BY <1>1 DEF Kept
      <3>2. Cmdline + i \notin {4, 5, 6}
        OBVIOUS
      <3> QED
        BY <2>1, <3>1, <3>2 DEF Comes
    <2> HIDE DEF s, list
    <2> QED
      BY <1>2, <2>2 DEF Half, s, list
  <1> QED
    BY <1>3, <1>4

(* One more byte written.                                                  *)
LEMMA HalfWrite ==
  ASSUME NEW image, IsImage(image), NEW list, IsList(list), list # << >>,
         NEW b, NEW a, IsSettings(a), Half(image, list, b, a)
  PROVE  Half(Written(image, list), Tail(list), b, a)
PROOF
  <1> DEFINE w   == Head(list)
             new == Written(image, list)
  <1>1. /\ w \in Elems(list)
        /\ \A x : x \in Elems(Tail(list)) <=> x \in Elems(list) /\ x.off # w.off
    BY HeadOff
  <1>2. /\ \A off \in Offsets : new[off] = IF off = w.off THEN w.value ELSE image[off]
        /\ Fits(w.off, w.value)
    BY WriteLemma
  <1> HIDE DEF w, new
  <1>3. /\ Magic \in Offsets /\ Partition \in Offsets /\ Flags0 \in Offsets
        /\ BootPriority \in Offsets
        /\ \A i \in 0 .. CmdlineMax - 1 : Cmdline + i \in Offsets /\ Cmdline + i \in CmdlineCells
    BY SettingsAssumption DEF Offsets, CmdlineCells
  <1>4. /\ w.off = Partition => w.value = a.part
        /\ w.off = Flags0 => w.value = a.flags
        /\ w.off = BootPriority => w.value = a.prio
        /\ \A i \in 0 .. Len(a.cmd) : w.off = Cmdline + i => w.value = CharAt(a.cmd, i)
    BY <1>1 DEF Half, Agrees
  <1>5. new[Magic] = MagicNumber
    BY <1>2, <1>3 DEF Half, Fits
  <1>6. Sanitised(new).part \in {b.part, a.part}
    <2>1. new[Partition] = a.part \/ new[Partition] = image[Partition]
      BY <1>2, <1>3, <1>4
    <2> QED
      BY <2>1, SettingsFields DEF Half, Sanitised
  <1>7. Sanitised(new).flags \in {b.flags, a.flags}
    <2>1. new[Flags0] = a.flags \/ new[Flags0] = image[Flags0]
      BY <1>2, <1>3, <1>4
    <2> QED
      BY <2>1, SettingsFields DEF Half, Sanitised
  <1>8. Sanitised(new).prio \in {b.prio, a.prio}
    <2>1. new[BootPriority] = a.prio \/ new[BootPriority] = image[BootPriority]
      BY <1>2, <1>3, <1>4
    <2> QED
      BY <2>1, SettingsFields DEF Half, Sanitised
  <1>9. Agrees(Tail(list), a)
    BY <1>1 DEF Half, Agrees
  <1>10. ASSUME b.cmd = a.cmd
         PROVE  \/ \A i \in 0 .. Len(a.cmd) : new[Cmdline + i] = CharAt(a.cmd, i)
                \/ /\ a.cmd = << >> /\ Unended(new)
                   /\ \A x \in Elems(Tail(list)) : x.off \in CmdlineCells => x.off = Cmdline
    <2>1. CASE \A i \in 0 .. Len(a.cmd) : image[Cmdline + i] = CharAt(a.cmd, i)
      <3>1. ASSUME NEW i \in 0 .. Len(a.cmd) PROVE new[Cmdline + i] = CharAt(a.cmd, i)
        <4>1. Cmdline + i \in Offsets
          BY <1>3, SettingsFields, SettingsAssumption
        <4>2. new[Cmdline + i] = IF Cmdline + i = w.off THEN w.value ELSE image[Cmdline + i]
          BY <1>2, <4>1
        <4> QED
          BY <1>4, <2>1, <4>2
      <3> QED
        BY <3>1
    <2>2. CASE /\ a.cmd = << >> /\ Unended(image)
               /\ \A x \in Elems(list) : x.off \in CmdlineCells => x.off = Cmdline
      <3>1. CASE w.off \in CmdlineCells
        <4>1. w.off = Cmdline + 0 /\ 0 \in 0 .. Len(a.cmd)
          BY <1>1, <2>2, <3>1
        <4>2. new[Cmdline + 0] = CharAt(a.cmd, 0)
          <5>1. Cmdline + 0 \in Offsets
            BY <1>3, SettingsAssumption
          <5>2. new[Cmdline + 0] = w.value
            BY <1>2, <4>1, <5>1
          <5> QED
            BY <1>4, <4>1, <5>2
        <4>3. \A i \in 0 .. Len(a.cmd) : i = 0
          BY <2>2
        <4> QED
          BY <4>2, <4>3
      <3>2. CASE w.off \notin CmdlineCells
        <4>1. \A i \in 0 .. CmdlineMax - 1 : new[Cmdline + i] = image[Cmdline + i]
          BY <1>2, <1>3, <3>2
        <4>2. Unended(new)
          BY <2>2, <4>1 DEF Unended, Field
        <4> QED
          BY <1>1, <2>2, <4>2
      <3> QED
        BY <3>1, <3>2
    <2> QED
      BY <1>10, <2>1, <2>2 DEF Half
  <1> QED
    BY <1>5, <1>6, <1>7, <1>8, <1>9, <1>10 DEF Half, new

-----------------------------------------------------------------------------
(* The inductive invariant. *)

TypeInv ==
  /\ piix4 \in BOOLEAN /\ IsImage(cmos) /\ IsList(writes)
  /\ IsSettings(settings) /\ IsSettings(before) /\ IsSettings(after)
  /\ ~piix4 \/ pc = "off" => writes = << >>
  /\ ~piix4 => before = Defaults /\ after = Defaults

(* What a running handler has not written yet, it will.                    *)
KeptInv == piix4 /\ pc # "off" => Kept(cmos, writes, settings)

(* A handler, finished, cut or at work, left what was or what is to be.    *)
HalfInv == piix4 /\ sound => Half(cmos, writes, before, after)

(* A request for the test blob still stands: it is in the CMOS or on its   *)
(* way there, or stage 3 has loaded it and has not started the blob yet.   *)
Due == \/ "test" \in cmos[Flags0] \/ pc = "consumed"
       \/ \E w \in Elems(writes) : w.off = Flags0 /\ "test" \in w.value
       \/ pc \in {"load", "ready"} /\ "test" \in settings.flags

OnceInv ==
  /\ asked \in Nat /\ ran \in Nat /\ ran <= asked /\ (Due => ran + 1 <= asked)
  /\ pc = "consumed" => piix4 /\ "test" \notin settings.flags
  /\ pc \in {"load", "ready"} /\ ~piix4 => settings = Defaults

IInv == TypeInv /\ KeptInv /\ HalfInv /\ OnceInv

LEMMA InitLemma == Init => IInv
PROOF
  <1> SUFFICES ASSUME Init PROVE IInv
    OBVIOUS
  <1>1. TypeInv
    BY ImageAssumption, NoWrite, DefaultsType DEF Init, TypeInv
  <1>2. KeptInv /\ HalfInv
    BY DEF Init, KeptInv, HalfInv
  <1>3. OnceInv
    BY NoWrite DEF Init, OnceInv, Due, Defaults
  <1> QED
    BY <1>1, <1>2, <1>3 DEF IInv

-----------------------------------------------------------------------------
(* A handler that starts. *)
LEMMA HandleLemma ==
  ASSUME TypeInv, NEW new, NEW list, Handle(new, list), pc' # "off",
         IsSettings(new), IsList(list),
         piix4 => Kept(cmos, list, new),
         piix4 /\ cmos[Magic] = MagicNumber => Half(cmos, list, Loaded(cmos), new)
  PROVE  TypeInv' /\ KeptInv' /\ HalfInv'
PROOF
  <1>1. /\ settings' = new /\ writes' = Saving(list) /\ before' = Loaded(cmos)
        /\ after' = (IF piix4 THEN new ELSE Defaults)
        /\ sound' = (cmos[Magic] = MagicNumber)
        /\ piix4' = piix4 /\ cmos' = cmos
    BY DEF Handle
  <1>2. IsSettings(Loaded(cmos)) /\ IsSettings(Defaults)
    BY LoadedType, DefaultsType DEF TypeInv
  <1>3. /\ writes' = IF piix4 THEN list ELSE << >>
        /\ ~piix4 => Loaded(cmos) = Defaults
    BY <1>1 DEF Saving, Loaded
  <1>4. TypeInv'
    <2>1. IsImage(cmos)' /\ IsList(writes)' /\ IsSettings(settings)'
      BY <1>1, <1>3, NoWrite DEF TypeInv
    <2>2. IsSettings(before)' /\ IsSettings(after)'
      BY <1>1, <1>2
    <2>3. (~piix4 => writes = << >> /\ before = Defaults /\ after = Defaults)'
      BY <1>1, <1>3
    <2> QED
      BY <1>1, <2>1, <2>2, <2>3 DEF TypeInv
  <1>5. KeptInv'
    BY <1>1, <1>3 DEF KeptInv
  <1>6. HalfInv'
    BY <1>1, <1>3 DEF HalfInv
  <1> QED
    BY <1>4, <1>5, <1>6

(* At rest the CMOS says what the settings in memory say.                  *)
LEMMA RestLemma ==
  ASSUME TypeInv, KeptInv, piix4, pc # "off", writes = << >>
  PROVE  /\ Kept(cmos, << >>, settings) /\ IsSettings(settings)
         /\ cmos[Magic] = MagicNumber /\ Loaded(cmos) = settings
         /\ cmos[Flags0] = settings.flags
PROOF
  <1>1. Kept(cmos, << >>, settings) /\ IsSettings(settings) /\ IsImage(cmos)
    BY DEF TypeInv, KeptInv
  <1>2. cmos[Magic] = MagicNumber /\ Sanitised(cmos) = settings
    BY <1>1, LoadedKept
  <1>3. cmos[Flags0] = settings.flags
    BY <1>1, NoWrite DEF Kept, Comes
  <1> QED
    BY <1>1, <1>2, <1>3 DEF Loaded

(* A handler that starts with the CMOS at rest.                            *)
LEMMA EditLemma ==
  ASSUME TypeInv, KeptInv, NEW new, NEW list, Handle(new, list), pc' # "off",
         pc # "off", writes = << >>, IsSettings(new), IsList(list),
         Kept(cmos, << >>, settings) => Kept(cmos, list, new)
  PROVE  TypeInv' /\ KeptInv' /\ HalfInv'
PROOF
  <1>1. ASSUME piix4
        PROVE  Kept(cmos, list, new) /\ Half(cmos, list, Loaded(cmos), new)
    <2>1. /\ Kept(cmos, << >>, settings) /\ IsSettings(settings)
          /\ Loaded(cmos) = settings /\ IsImage(cmos)
      BY <1>1, RestLemma DEF TypeInv
    <2> QED
      BY <2>1, HalfAtRest
  <1> QED
    BY <1>1, HandleLemma

(* A step that only moves on.                                              *)
LEMMA MoveLemma ==
  ASSUME TypeInv, KeptInv, HalfInv, pc # "off",
         UNCHANGED <<piix4, cmos, writes, settings, before, after, sound>>
  PROVE  (pc' # "off" => TypeInv') /\ KeptInv' /\ HalfInv'
PROOF
  BY DEF TypeInv, KeptInv, HalfInv

LEMMA WriteStep ==
  ASSUME TypeInv, KeptInv, HalfInv, Write
  PROVE  TypeInv' /\ KeptInv' /\ HalfInv'
PROOF
  <1>1. /\ writes # << >> /\ cmos' = Written(cmos, writes) /\ writes' = Tail(writes)
        /\ UNCHANGED <<piix4, settings, pc, before, after, sound>>
    BY DEF Write, Written, history
  <1>2. IsImage(cmos) /\ IsList(writes) /\ piix4 /\ pc # "off"
        /\ IsSettings(settings) /\ IsSettings(after)
    BY <1>1 DEF TypeInv
  <1>3. IsImage(cmos') /\ IsList(writes')
    BY <1>1, <1>2, WriteLemma, HeadOff
  <1>4. TypeInv'
    BY <1>1, <1>2, <1>3 DEF TypeInv
  <1>5. KeptInv'
    <2>1. Kept(cmos, writes, settings)
      BY <1>2 DEF KeptInv
    <2>2. /\ Magic \in Offsets /\ Partition \in Offsets /\ Flags0 \in Offsets
          /\ BootPriority \in Offsets
          /\ \A i \in 0 .. Len(settings.cmd) : Cmdline + i \in Offsets
      BY <1>2, SettingsFields, SettingsAssumption DEF Offsets
    <2>3. \A off \in Offsets : \A v : Comes(cmos, writes, off, v) =>
             Comes(cmos', writes', off, v)
      BY <1>1, <1>2, StillComes
    <2>4. Kept(cmos', writes', settings)
      BY <2>1, <2>2, <2>3 DEF Kept
    <2> QED
      BY <1>1, <2>4 DEF KeptInv
  <1>6. HalfInv'
    <2>1. sound => Half(cmos', writes', before, after)
      BY <1>1, <1>2, HalfWrite DEF HalfInv
    <2> QED
      BY <1>1, <2>1 DEF HalfInv
  <1> QED
    BY <1>4, <1>5, <1>6

LEMMA PowerOnStep ==
  ASSUME TypeInv, PowerOn
  PROVE  TypeInv' /\ KeptInv' /\ HalfInv'
PROOF
  <1>1. pc' = "load" /\ Handle(Loaded(cmos), Repairs(cmos)) /\ IsImage(cmos)
    BY DEF PowerOn, TypeInv
  <1>2. CASE cmos[Magic] = MagicNumber
    <2>1. IsList(Repairs(cmos)) /\ IsSettings(Loaded(cmos))
      BY <1>1, <1>2, RepairsList, LoadedType
    <2>2. piix4 => /\ Kept(cmos, Repairs(cmos), Loaded(cmos))
                   /\ Half(cmos, Repairs(cmos), Loaded(cmos), Loaded(cmos))
      BY <1>1, <1>2, KeptRepairs, HalfRepairs DEF Loaded
    <2> QED
      BY <1>1, <2>1, <2>2, HandleLemma
  <1>3. CASE cmos[Magic] # MagicNumber
    <2>1. Repairs(cmos) = InitDefaults /\ Loaded(cmos) = Defaults
      BY <1>3 DEF Repairs, Loaded
    <2>2. IsList(Repairs(cmos)) /\ IsSettings(Loaded(cmos))
      BY <1>1, <2>1, InitDefaultsList, LoadedType
    <2>3. Kept(cmos, Repairs(cmos), Loaded(cmos))
      BY <2>1, KeptDefaults
    <2> QED
      BY <1>1, <1>3, <2>2, <2>3, HandleLemma
  <1> QED
    BY <1>2, <1>3

(* A handler that sets some flags, and no other field.                     *)
LEMMA FlagsStep ==
  ASSUME TypeInv, KeptInv, pc # "off", pc' # "off", writes = << >>,
         NEW flags \in SUBSET Known,
         Handle([settings EXCEPT !.flags = flags], << Set(Flags0, flags) >>)
  PROVE  TypeInv' /\ KeptInv' /\ HalfInv'
PROOF
  <1> DEFINE new  == [settings EXCEPT !.flags = flags]
             list == << Set(Flags0, flags) >>
  <1>1. IsSettings(settings) /\ Fits(Flags0, flags) /\ flags \in Values
    BY FitCells DEF TypeInv
  <1>2. /\ new.cmd = settings.cmd /\ new.part = settings.part
        /\ new.prio = settings.prio /\ new.flags = flags /\ IsSettings(new)
    BY <1>1 DEF IsSettings, Settings
  <1>3. IsList(list)
    BY <1>1, OneWrite
  <1> HIDE DEF new
  <1>4. Kept(cmos, << >>, settings) => Kept(cmos, list, new)
    BY <1>1, <1>2, KeptOne
  <1> HIDE DEF list
  <1> QED
    BY <1>2, <1>3, <1>4, EditLemma DEF new, list

LEMMA PartitionStep ==
  ASSUME TypeInv, KeptInv, pc # "off", pc' # "off", writes = << >>,
         NEW part \in 0 .. 1,
         Handle([settings EXCEPT !.part = part], << Set(Partition, part) >>)
  PROVE  TypeInv' /\ KeptInv' /\ HalfInv'
PROOF
  <1> DEFINE new  == [settings EXCEPT !.part = part]
             list == << Set(Partition, part) >>
  <1>1. IsSettings(settings) /\ Fits(Partition, part) /\ part \in Values
    BY FitCells DEF TypeInv
  <1>2. /\ new.cmd = settings.cmd /\ new.part = part
        /\ new.prio = settings.prio /\ new.flags = settings.flags /\ IsSettings(new)
    BY <1>1 DEF IsSettings, Settings
  <1>3. IsList(list)
    BY <1>1, OneWrite
  <1> HIDE DEF new
  <1>4. Kept(cmos, << >>, settings) => Kept(cmos, list, new)
    BY <1>1, <1>2, KeptOne
  <1> HIDE DEF list
  <1> QED
    BY <1>2, <1>3, <1>4, EditLemma DEF new, list

LEMMA PriorityStep ==
  ASSUME TypeInv, KeptInv, pc # "off", pc' # "off", writes = << >>,
         NEW prio \in {PrioAuto, PrioIde, PrioUsb},
         Handle([settings EXCEPT !.prio = prio], << Set(BootPriority, prio) >>)
  PROVE  TypeInv' /\ KeptInv' /\ HalfInv'
PROOF
  <1> DEFINE new  == [settings EXCEPT !.prio = prio]
             list == << Set(BootPriority, prio) >>
  <1>1. IsSettings(settings) /\ Fits(BootPriority, prio) /\ prio \in Values
    BY FitCells DEF TypeInv
  <1>2. /\ new.cmd = settings.cmd /\ new.part = settings.part
        /\ new.prio = prio /\ new.flags = settings.flags /\ IsSettings(new)
    BY <1>1 DEF IsSettings, Settings
  <1>3. IsList(list)
    BY <1>1, OneWrite
  <1> HIDE DEF new
  <1>4. Kept(cmos, << >>, settings) => Kept(cmos, list, new)
    BY <1>1, <1>2, KeptOne
  <1> HIDE DEF list
  <1> QED
    BY <1>2, <1>3, <1>4, EditLemma DEF new, list

LEMMA CmdlineStep ==
  ASSUME TypeInv, KeptInv, pc # "off", pc' # "off", writes = << >>,
         NEW text \in Seq(Nat \ {Nul}), Len(text) < CmdlineMax,
         Handle([settings EXCEPT !.cmd = text], SaveCmdline(text))
  PROVE  TypeInv' /\ KeptInv' /\ HalfInv'
PROOF
  <1> DEFINE new  == [settings EXCEPT !.cmd = text]
             list == SaveCmdline(text)
  <1>1. IsSettings(settings)
    BY DEF TypeInv
  <1>2. /\ new.cmd = text /\ new.part = settings.part
        /\ new.prio = settings.prio /\ new.flags = settings.flags /\ IsSettings(new)
    BY <1>1 DEF IsSettings, Settings
  <1>3. IsList(list)
    BY SaveCmdlineList
  <1> HIDE DEF new
  <1>4. Kept(cmos, << >>, settings) => Kept(cmos, list, new)
    BY <1>1, <1>2, KeptCmdline
  <1> HIDE DEF list
  <1> QED
    BY <1>2, <1>3, <1>4, EditLemma DEF new, list

(* The command line is cut to what the field holds.                        *)
LEMMA CutText ==
  ASSUME NEW arg \in Seq(Nat \ {Nul})
  PROVE  LET text == IF Len(arg) < CmdlineMax THEN arg
                     ELSE SubSeq(arg, 1, CmdlineMax - 1)
         IN  text \in Seq(Nat \ {Nul}) /\ Len(text) < CmdlineMax
PROOF
  <1>1. CASE Len(arg) < CmdlineMax
    BY <1>1
  <1>2. CASE ~(Len(arg) < CmdlineMax)
    <2>1. CmdlineMax - 1 \in Nat /\ CmdlineMax - 1 <= Len(arg) /\ CmdlineMax \in Nat
      BY <1>2, SettingsAssumption
    <2>2. /\ SubSeq(arg, 1, CmdlineMax - 1) \in Seq(Nat \ {Nul})
          /\ Len(SubSeq(arg, 1, CmdlineMax - 1)) = CmdlineMax - 1
      BY <2>1
    <2> QED
      BY <1>2, <2>1, <2>2
  <1> QED
    BY <1>1, <1>2

LEMMA BitKnown ==
  /\ DOMAIN Bit = {"m", "t", "s", "v"}
  /\ \A key \in DOMAIN Bit : Bit[key] \in Known /\ (Bit[key] = "test" => key = "t")
PROOF
  BY DEF Bit, Known

(* Every step, but for the count of the test blob's starts.                *)
LEMMA StepLemma ==
  ASSUME TypeInv, KeptInv, HalfInv, [Next]_vars
  PROVE  TypeInv' /\ KeptInv' /\ HalfInv'
PROOF
  <1>s. IsSettings(settings) /\ settings.flags \in SUBSET Known
    BY SettingsFields DEF TypeInv
  <1>1. CASE PowerOn
    BY <1>1, PowerOnStep
  <1>2. CASE Write
    BY <1>2, WriteStep
  <1>3. CASE LoadDone \/ RunTestBlob \/ Proceed \/ Quit
    <2>1. /\ UNCHANGED <<piix4, cmos, writes, settings, before, after, sound>>
          /\ pc # "off" /\ pc' # "off"
      BY <1>3 DEF LoadDone, RunTestBlob, Proceed, Quit, GoTo, history
    <2> QED
      BY <2>1, MoveLemma
  <1>4. CASE Consume
    <2> DEFINE flags == settings.flags \ {"test"}
    <2>1. /\ pc # "off" /\ pc' # "off" /\ writes = << >> /\ flags \in SUBSET Known
          /\ Handle([settings EXCEPT !.flags = flags], << Set(Flags0, flags) >>)
      BY <1>4, <1>s DEF Consume, GoTo
    <2> HIDE DEF flags
    <2> QED
      BY <2>1, FlagsStep
  <1>5. CASE Command
    <2>1. pc # "off" /\ pc' # "off" /\ writes = << >>
      BY <1>5 DEF Command
    <2>2. PICK c \in Commands :
            \/ SetCmdline(c)      \/ SetPartition(c)  \/ SetFlag(c)
            \/ SetBootPriority(c) \/ ResetDefaults(c) \/ BadArgument(c)
      BY <1>5 DEF Command
    <2>3. CASE SetCmdline(c)
      <3> DEFINE text == IF Len(c.arg) < CmdlineMax THEN c.arg
                         ELSE SubSeq(c.arg, 1, CmdlineMax - 1)
      <3>1. c.arg \in Seq(Nat \ {Nul})
        BY <2>3, TextAssumption DEF SetCmdline
      <3>2. text \in Seq(Nat \ {Nul}) /\ Len(text) < CmdlineMax
        BY <3>1, CutText
      <3>3. Handle([settings EXCEPT !.cmd = text], SaveCmdline(text))
        BY <2>3 DEF SetCmdline
      <3> HIDE DEF text
      <3> QED
        BY <2>1, <3>2, <3>3, CmdlineStep
    <2>4. CASE SetPartition(c)
      BY <2>1, <2>4, PartitionStep DEF SetPartition
    <2>5. CASE SetFlag(c)
      <3> DEFINE flags == IF c.arg = 1 THEN settings.flags \cup {Bit[c.key]}
                          ELSE settings.flags \ {Bit[c.key]}
      <3>1. flags \in SUBSET Known
        BY <1>s, <2>5, BitKnown DEF SetFlag
      <3>2. Handle([settings EXCEPT !.flags = flags], << Set(Flags0, flags) >>)
        BY <2>5 DEF SetFlag
      <3> HIDE DEF flags
      <3> QED
        BY <2>1, <3>1, <3>2, FlagsStep
    <2>6. CASE SetBootPriority(c)
      <3>1. c.arg \in {PrioAuto, PrioIde, PrioUsb}
        BY <2>6 DEF SetBootPriority
      <3> QED
        BY <2>1, <2>6, <3>1, PriorityStep DEF SetBootPriority
    <2>7. CASE ResetDefaults(c)
      <3>1. Handle(Defaults, InitDefaults)
        BY <2>7 DEF ResetDefaults
      <3> QED
        BY <2>1, <3>1, DefaultsType, InitDefaultsList, KeptDefaults, EditLemma
    <2>8. CASE BadArgument(c)
      BY <2>1, <2>8, MoveLemma DEF BadArgument
    <2> QED
      BY <2>2, <2>3, <2>4, <2>5, <2>6, <2>7, <2>8
  <1>6. CASE Learn
    <2>1. pc # "off" /\ pc' # "off" /\ writes = << >>
      BY <1>6 DEF Learn, GoTo
    <2>2. PICK kind \in {PrioIde, PrioUsb} :
            IF settings.prio = PrioAuto
            THEN Handle([settings EXCEPT !.prio = kind], << Set(BootPriority, kind) >>)
            ELSE Handle(settings, << >>)
      BY <1>6 DEF Learn
    <2>3. CASE settings.prio = PrioAuto
      BY <2>1, <2>2, <2>3, PriorityStep
    <2>4. CASE settings.prio # PrioAuto
      BY <1>s, <2>1, <2>2, <2>4, NoWrite, EditLemma
    <2> QED
      BY <2>3, <2>4
  <1>7. CASE PowerCut
    <2>1. /\ pc' = "off" /\ writes' = << >> /\ settings' = Defaults
          /\ UNCHANGED <<piix4, cmos, before, after, sound>>
      BY <1>7 DEF PowerCut, history
    <2>2. TypeInv'
      BY <2>1, NoWrite, DefaultsType DEF TypeInv
    <2>3. HalfInv'
      <3>1. \A b, a : Half(cmos, writes, b, a) => Half(cmos, << >>, b, a)
        BY NoWrite DEF Half, Agrees
      <3> QED
        BY <2>1, <3>1 DEF HalfInv
    <2> QED
      BY <2>1, <2>2, <2>3 DEF KeptInv
  <1>8. CASE UNCHANGED vars
    BY <1>8 DEF vars, history, TypeInv, KeptInv, HalfInv
  <1> QED
    BY <1>1, <1>2, <1>3, <1>4, <1>5, <1>6, <1>7, <1>8 DEF Next

-----------------------------------------------------------------------------
(* The request for the test blob. *)

(* What a started handler has still to write to the flags.                 *)
LEMMA DueOfList ==
  ASSUME NEW list, NEW new, Handle(new, list), pc' # "consumed",
         pc' \in {"load", "ready"} => ("test" \in new.flags => "test" \in cmos[Flags0]),
         \A w \in Elems(list) : w.off = Flags0 => "test" \notin w.value
  PROVE  Due' => "test" \in cmos[Flags0]
PROOF
  <1>1. cmos' = cmos /\ settings' = new /\ (writes' = list \/ writes' = << >>)
    BY DEF Handle, Saving
  <1> QED
    BY <1>1, NoWrite DEF Due

LEMMA OnceStep ==
  ASSUME TypeInv, KeptInv, OnceInv, [Next]_vars
  PROVE  OnceInv'
PROOF
  <1>d. DefaultFlags \in SUBSET Known /\ "test" \notin DefaultFlags
        /\ Defaults.flags = DefaultFlags
    BY DEF DefaultFlags, Known, Defaults
  <1>i. \A w \in Elems(InitDefaults) : w.off = Flags0 => "test" \notin w.value
    <2> SUFFICES ASSUME NEW w \in Elems(InitDefaults), w.off = Flags0
                 PROVE  "test" \notin w.value
      OBVIOUS
    <2>1. \A i \in 1 .. CmdlineMax : w # Set(Cmdline + i - 1, Nul)
      BY SettingsAssumption DEF Set
    <2>2. w = Set(Flags0, DefaultFlags)
      BY <2>1, InitDefaultsList DEF Set
    <2> QED
      BY <1>d, <2>2 DEF Set
  <1>r. ASSUME piix4, pc # "off", writes = << >>
        PROVE  cmos[Flags0] = settings.flags
    BY <1>r, RestLemma
  <1>1. CASE PowerOn
    <2>1. /\ pc' = "load" /\ Handle(Loaded(cmos), Repairs(cmos)) /\ IsImage(cmos)
          /\ UNCHANGED <<asked, ran, piix4>> /\ settings' = Loaded(cmos)
      BY <1>1 DEF PowerOn, TypeInv, Handle
    <2>2. "test" \in Loaded(cmos).flags => "test" \in cmos[Flags0]
      BY <1>d DEF Loaded, Sanitised
    <2>3. \A w \in Elems(Repairs(cmos)) : w.off = Flags0 => "test" \notin w.value
      <3>1. CASE cmos[Magic] = MagicNumber
        <4> SUFFICES ASSUME NEW w \in Elems(Repairs(cmos)), w.off = Flags0
                     PROVE  "test" \notin w.value
          OBVIOUS
        <4>1. w \in {Set(Partition, 0), Set(Flags0, DefaultFlags),
                     Set(BootPriority, PrioAuto), Set(Cmdline, Nul)}
          BY <2>1, <3>1, RepairsList
        <4>2. w = Set(Flags0, DefaultFlags)
          BY <4>1 DEF Set
        <4> QED
          BY <1>d, <4>2 DEF Set
      <3>2. CASE cmos[Magic] # MagicNumber
        BY <1>i, <3>2 DEF Repairs
      <3> QED
        BY <3>1, <3>2
    <2>4. Due' => "test" \in cmos[Flags0]
      BY <2>1, <2>2, <2>3, DueOfList
    <2>5. ~piix4 => settings' = Defaults
      BY <2>1 DEF Loaded
    <2> QED
      BY <2>1, <2>4, <2>5 DEF OnceInv, Due
  <1>2. CASE Write
    <2>1. /\ writes # << >> /\ cmos' = Written(cmos, writes) /\ writes' = Tail(writes)
          /\ UNCHANGED <<piix4, settings, pc, asked, ran>>
      BY <1>2 DEF Write, Written, history
    <2>2. IsImage(cmos) /\ IsList(writes) /\ Flags0 \in Offsets
      BY DEF TypeInv, Offsets
    <2>3. /\ Head(writes) \in Elems(writes)
          /\ \A w \in Elems(Tail(writes)) : w \in Elems(writes)
          /\ cmos'[Flags0] = IF Flags0 = Head(writes).off THEN Head(writes).value
                             ELSE cmos[Flags0]
      BY <2>1, <2>2, WriteLemma, HeadOff
    <2>4. Due' => Due
      BY <2>1, <2>3 DEF Due
    <2> QED
      BY <2>1, <2>4 DEF OnceInv
  <1>3. CASE LoadDone
    <2>1. /\ pc = "load" /\ pc' = "ready"
          /\ UNCHANGED <<piix4, cmos, writes, settings, asked, ran>>
      BY <1>3 DEF LoadDone, GoTo, history
    <2> QED
      BY <2>1 DEF OnceInv, Due
  <1>4. CASE Consume
    <2> DEFINE flags == settings.flags \ {"test"}
               new   == [settings EXCEPT !.flags = flags]
    <2>1. /\ pc = "ready" /\ pc' = "consumed" /\ "test" \in settings.flags
          /\ settings' = new /\ UNCHANGED <<piix4, asked, ran>>
      BY <1>4 DEF Consume, GoTo, Handle
    <2>2. settings'.flags = flags
      <3>1. settings \in Settings
        BY DEF TypeInv, IsSettings
      <3> QED
        BY <2>1, <3>1 DEF Settings
    <2>3. piix4
      <3>1. settings # Defaults
        BY <1>d, <2>1
      <3> QED
        BY <2>1, <3>1 DEF OnceInv
    <2>4. Due
      BY <2>1 DEF Due
    <2> QED
      BY <2>1, <2>2, <2>3, <2>4 DEF OnceInv
  <1>5. CASE RunTestBlob
    <2>1. /\ pc = "consumed" /\ writes = << >> /\ pc' = "selftest" /\ ran' = ran + 1
          /\ UNCHANGED <<piix4, cmos, writes, settings, asked>>
      BY <1>5 DEF RunTestBlob, GoTo
    <2>2. "test" \notin cmos[Flags0]
      BY <1>r, <2>1 DEF OnceInv
    <2>3. ~Due'
      BY <2>1, <2>2, NoWrite DEF Due
    <2>4. Due
      BY <2>1 DEF Due
    <2> QED
      BY <2>1, <2>3, <2>4 DEF OnceInv
  <1>6. CASE Proceed \/ Quit
    <2>1. /\ pc' \in {"prompt", "boot"}
          /\ UNCHANGED <<piix4, cmos, writes, settings, asked, ran>>
      BY <1>6 DEF Proceed, Quit, GoTo, history
    <2>2. Due' => Due
      BY <2>1 DEF Due
    <2> QED
      BY <2>1, <2>2 DEF OnceInv
  <1>7. CASE Command
    <2>1. pc = "prompt" /\ pc' = "prompt" /\ writes = << >> /\ ran' = ran
      BY <1>7 DEF Command
    <2>2. PICK c \in Commands :
            \/ SetCmdline(c)      \/ SetPartition(c)  \/ SetFlag(c)
            \/ SetBootPriority(c) \/ ResetDefaults(c) \/ BadArgument(c)
      BY <1>7 DEF Command
    <2>3. ASSUME NEW new, NEW list, Handle(new, list), UNCHANGED asked,
                 \A w \in Elems(list) : w.off = Flags0 => "test" \notin w.value
          PROVE  OnceInv'
      <3>1. Due' => Due
        BY <2>1, <2>3, DueOfList DEF Due
      <3> QED
        BY <2>1, <2>3, <3>1 DEF OnceInv
    <2>4. CASE SetCmdline(c)
      <3> DEFINE text == IF Len(c.arg) < CmdlineMax THEN c.arg
                         ELSE SubSeq(c.arg, 1, CmdlineMax - 1)
      <3>1. c.arg \in Seq(Nat \ {Nul})
        BY <2>4, TextAssumption DEF SetCmdline
      <3>2. text \in Seq(Nat \ {Nul}) /\ Len(text) < CmdlineMax
        BY <3>1, CutText
      <3>3. /\ Handle([settings EXCEPT !.cmd = text], SaveCmdline(text))
            /\ UNCHANGED asked
        BY <2>4 DEF SetCmdline
      <3> HIDE DEF text
      <3>4. \A w \in Elems(SaveCmdline(text)) : w.off # Flags0
        BY <3>2, SaveCmdlineList
      <3> QED
        BY <2>3, <3>3, <3>4
    <2>5. CASE SetPartition(c)
      <3>1. /\ Handle([settings EXCEPT !.part = c.arg], << Set(Partition, c.arg) >>)
            /\ UNCHANGED asked /\ c.arg \in 0 .. 1
        BY <2>5 DEF SetPartition
      <3>2. Elems(<< Set(Partition, c.arg) >>) = {Set(Partition, c.arg)}
        BY <3>1, FitCells, OneWrite
      <3>3. \A w \in Elems(<< Set(Partition, c.arg) >>) : w.off # Flags0
        BY <3>2 DEF Set
      <3> QED
        BY <2>3, <3>1, <3>3
    <2>6. CASE SetBootPriority(c)
      <3>1. /\ Handle([settings EXCEPT !.prio = c.arg], << Set(BootPriority, c.arg) >>)
            /\ UNCHANGED asked /\ c.arg \in {PrioAuto, PrioIde, PrioUsb}
        BY <2>6 DEF SetBootPriority
      <3>2. Elems(<< Set(BootPriority, c.arg) >>) = {Set(BootPriority, c.arg)}
        BY <3>1, FitCells, OneWrite
      <3>3. \A w \in Elems(<< Set(BootPriority, c.arg) >>) : w.off # Flags0
        BY <3>2 DEF Set
      <3> QED
        BY <2>3, <3>1, <3>3
    <2>7. CASE ResetDefaults(c)
      BY <1>i, <2>3, <2>7 DEF ResetDefaults
    <2>8. CASE BadArgument(c)
      <3>1. UNCHANGED <<piix4, cmos, writes, settings, asked>>
        BY <2>8 DEF BadArgument
      <3>2. Due' => Due
        BY <2>1, <3>1 DEF Due
      <3> QED
        BY <2>1, <3>1, <3>2 DEF OnceInv
    <2>9. CASE SetFlag(c)
      <3> DEFINE flags == IF c.arg = 1 THEN settings.flags \cup {Bit[c.key]}
                          ELSE settings.flags \ {Bit[c.key]}
                 list  == << Set(Flags0, flags) >>
      <3>1. /\ cmos' = cmos /\ piix4' = piix4 /\ writes' = Saving(list)
            /\ c.key \in DOMAIN Bit /\ c.arg \in 0 .. 1
            /\ asked' = asked + (IF c.key = "t" THEN c.arg ELSE 0)
        BY <2>9 DEF SetFlag, Handle
      <3>2. flags \in SUBSET Known
        BY <3>1, BitKnown, SettingsFields DEF TypeInv
      <3>3. Elems(list) = {Set(Flags0, flags)}
        <4> HIDE DEF flags
        <4> QED
          BY <3>2, FitCells, OneWrite
      <3>4. "test" \in flags => "test" \in settings.flags \/ (c.key = "t" /\ c.arg = 1)
        BY <3>1, BitKnown
      <3> HIDE DEF flags, list
      <3>5. Due' => "test" \in cmos[Flags0] \/ (piix4 /\ "test" \in flags)
        BY <2>1, <3>1, <3>3, NoWrite DEF Due, Saving, Set
      <3>6. Due' => Due \/ (c.key = "t" /\ c.arg = 1)
        BY <1>r, <2>1, <3>4, <3>5 DEF Due
      <3>7. ran' = ran /\ asked' >= asked /\ asked' \in Nat
            /\ (c.key = "t" /\ c.arg = 1 => asked' = asked + 1)
        BY <2>1, <3>1 DEF OnceInv
      <3> QED
        BY <2>1, <3>6, <3>7 DEF OnceInv
    <2> QED
      BY <2>2, <2>4, <2>5, <2>6, <2>7, <2>8, <2>9
  <1>8. CASE Learn
    <2>1. pc' = "running" /\ UNCHANGED <<asked, ran>>
      BY <1>8 DEF Learn, GoTo
    <2>2. PICK kind \in {PrioIde, PrioUsb} :
            \/ Handle([settings EXCEPT !.prio = kind], << Set(BootPriority, kind) >>)
            \/ Handle(settings, << >>)
      BY <1>8 DEF Learn
    <2>3. \A w \in Elems(<< Set(BootPriority, kind) >>) : w.off # Flags0
      <3>1. Elems(<< Set(BootPriority, kind) >>) = {Set(BootPriority, kind)}
        BY FitCells, OneWrite
      <3> QED
        BY <3>1 DEF Set
    <2>4. Due' => Due
      BY <2>1, <2>2, <2>3, NoWrite, DueOfList DEF Due
    <2> QED
      BY <2>1, <2>4 DEF OnceInv
  <1>9. CASE PowerCut
    <2>1. pc' = "off" /\ writes' = << >> /\ UNCHANGED <<piix4, cmos, asked, ran>>
      BY <1>9 DEF PowerCut, history
    <2>2. Due' => Due
      BY <2>1, NoWrite DEF Due
    <2> QED
      BY <2>1, <2>2 DEF OnceInv
  <1>10. CASE UNCHANGED vars
    BY <1>10 DEF vars, history, OnceInv, Due
  <1> QED
    BY <1>1, <1>2, <1>3, <1>4, <1>5, <1>6, <1>7, <1>8, <1>9, <1>10 DEF Next

-----------------------------------------------------------------------------
LEMMA Inductive == Spec => []IInv
PROOF
  <1>1. IInv /\ [Next]_vars => IInv'
    BY StepLemma, OnceStep DEF IInv
  <1> QED
    BY <1>1, InitLemma, PTL DEF Spec

(* The settings in use are always usable, and whenever no handler is at    *)
(* work the CMOS holds them: nothing the prompt shows is lost at the next  *)
(* start, whatever contents the first boot found.                          *)
THEOREM SettingsPersist == Spec => []Persisted
PROOF
  <1>1. IInv => Persisted
    <2> SUFFICES ASSUME IInv PROVE Persisted
      OBVIOUS
    <2>1. Usable(settings)
      BY SettingsFields DEF IInv, TypeInv, Usable
    <2>2. ASSUME piix4, pc # "off", writes = << >>
          PROVE  cmos[Magic] = MagicNumber /\ Loaded(cmos) = settings
      BY <2>2, RestLemma DEF IInv
    <2> QED
      BY <2>1, <2>2 DEF Persisted
  <1> QED
    BY <1>1, Inductive, PTL

(* Power may fail after any byte of any handler.                           *)
THEOREM CutIsHarmless == Spec => []CutLeavesOldOrNew
PROOF
  <1>1. IInv => CutLeavesOldOrNew
    <2> SUFFICES ASSUME IInv, sound PROVE CutLeavesOldOrNew
      BY DEF CutLeavesOldOrNew
    <2>1. CASE ~piix4
      BY <2>1 DEF CutLeavesOldOrNew, Loaded, IInv, TypeInv
    <2>2. CASE piix4
      <3>1. Half(cmos, writes, before, after) /\ IsImage(cmos) /\ IsSettings(after)
        BY <2>2 DEF IInv, HalfInv, TypeInv
      <3>2. Loaded(cmos) = Sanitised(cmos)
        BY <2>2, <3>1 DEF Loaded, Half
      <3>3. before.cmd = after.cmd => TextOf(cmos) = after.cmd
        BY <3>1, FoundText, UnendedText, SettingsFields DEF Half
      <3>4. Sanitised(cmos).cmd = TextOf(cmos)
        BY DEF Sanitised
      <3> QED
        BY <3>1, <3>2, <3>3, <3>4 DEF CutLeavesOldOrNew, Half
    <2> QED
      BY <2>1, <2>2 DEF IInv, TypeInv
  <1> QED
    BY <1>1, Inductive, PTL

(* A request for the test blob is taken back before the blob is started.   *)
THEOREM TestBlobOnce == Spec => []AtMostOnce
PROOF
  <1>1. IInv => AtMostOnce
    BY DEF IInv, OnceInv, AtMostOnce
  <1> QED
    BY <1>1, Inductive, PTL
=============================================================================
