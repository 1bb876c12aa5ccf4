------------------------------ MODULE Dtb_proofs ------------------------------
(***************************************************************************)
(* For every sequence of builder calls, with texts and values of any       *)
(* length: the string table is sound, and the reader never loses the       *)
(* tokens.  The invariant has one part for each block and one for the      *)
(* reader: a chain of tokens covers the structure block, each leading to   *)
(* the next by the distance the reader goes, and the reader is on it.      *)
(* build_minimal_dtb is one of these programs, so what holds of every      *)
(* sequence of builder calls holds of its own.                             *)
(***************************************************************************)
EXTENDS DtbTree, TLAPS, FiniteSetTheorems, WellFoundedInduction

Base == HdrSize + RsvSize

Tokens == {p \in DOMAIN struct : struct[p].kind = "token"}
Follows(p) == p \in Tokens \/ p = structLen

WellBegin(p) ==
  /\ p + 4 \in DOMAIN struct /\ struct[p + 4].kind = "text" /\ struct[p + 4].len \in Nat
  /\ Follows(p + 4 + Padded(struct[p + 4].len))

WellProp(p) ==
  LET len == struct[p + 4].nums[1]
      off == struct[p + 8].nums[1]
  IN /\ p + 4 \in DOMAIN struct /\ struct[p + 4].kind = "word" /\ len \in Nat
     /\ p + 8 \in DOMAIN struct /\ struct[p + 8].kind = "word"
     /\ off \in DOMAIN strtab
     /\ len # 0 => /\ p + 12 \in DOMAIN struct
                   /\ struct[p + 12].kind = "value" /\ struct[p + 12].len = len
     /\ Follows(p + 12 + Padded(len))

Well(p) ==
  /\ p % 4 = 0
  /\ struct[p].nums[1] \in {BEGIN_NODE, END_NODE, PROP, END}
  /\ struct[p].nums[1] = BEGIN_NODE => WellBegin(p)
  /\ struct[p].nums[1] = END_NODE => Follows(p + 4)
  /\ struct[p].nums[1] = PROP => WellProp(p)

LayoutInv ==
  /\ structLen \in Nat /\ structLen % 4 = 0
  /\ \A p \in DOMAIN struct : p \in Nat /\ p < structLen
  /\ Follows(0)
  /\ \A p \in Tokens : Well(p)

StringsInv ==
  /\ strtabLen \in Nat
  /\ DOMAIN strings \subseteq Texts
  /\ \A p \in DOMAIN strtab : p \in Nat /\ p < strtabLen /\ strtab[p].kind = "text"
  /\ \A n \in DOMAIN strings : strings[n] \in Nat
  /\ StringTableSound

ReaderInv ==
  /\ mode \in {"building", "raised", "reading", "done"}
  /\ mode = "reading" =>
       /\ header.offStruct = Base /\ header.sizeStruct = structLen
       /\ header.offStrings = Base + structLen
       /\ pos \in Nat /\ pos >= Base /\ Follows(pos - Base)

DtbInv == LayoutInv /\ StringsInv /\ ReaderInv

-----------------------------------------------------------------------------
\* Arithmetic of the two roundings.

\* The reader's rounding of an offset past aligned data is the writer's padding
\* of the data (build_minimal_dtb.py:44 and dump_dtb.py:30).
LEMMA RoundingAgrees ==
  ASSUME NEW a \in Nat, NEW n \in Nat, a % 4 = 0
  PROVE  RoundUp(a + n) = a + Padded(n)
  BY DEF RoundUp, Padded

\* Padding reaches the next multiple of the word size.
LEMMA PaddedFacts ==
  ASSUME NEW n \in Nat
  PROVE  Padded(n) \in Nat /\ Padded(n) >= n /\ Padded(n) % 4 = 0
  BY DEF Padded

\* Alignment is kept by sums.
LEMMA AlignedSum ==
  ASSUME NEW a \in Nat, NEW b \in Nat, a % 4 = 0, b % 4 = 0
  PROVE  (a + b) % 4 = 0
  OBVIOUS

-----------------------------------------------------------------------------
\* The writer.

\* One more token and what belongs to it, at the end of the block.
LEMMA Extended ==
  ASSUME LayoutInv, NEW at, at = structLen,
         structLen' \in Nat, structLen' > at, structLen' % 4 = 0,
         \A p \in DOMAIN struct : p \in DOMAIN struct' /\ struct'[p] = struct[p],
         \A p \in DOMAIN struct' \ DOMAIN struct :
            p \in Nat /\ p < structLen' /\ (struct'[p].kind = "token" => p = at),
         at \in DOMAIN struct', struct'[at].kind = "token",
         DOMAIN strtab \subseteq DOMAIN strtab',
         Well(at)'
  PROVE  LayoutInv'
<1>1. Tokens' = Tokens \cup {at}
  BY DEF LayoutInv, Tokens
<1>2. ASSUME NEW p, Follows(p) PROVE Follows(p)'
  BY <1>1, <1>2 DEF Follows
<1>3. ASSUME NEW p \in Tokens PROVE Well(p)'
  <2>1. Well(p) /\ struct'[p] = struct[p]
    BY DEF LayoutInv, Tokens
  <2>2. struct[p].nums[1] = BEGIN_NODE => WellBegin(p)'
    BY <1>2, <2>1 DEF Well, WellBegin
  <2>3. struct[p].nums[1] = END_NODE => Follows(p + 4)'
    BY <1>2, <2>1 DEF Well
  <2>4. struct[p].nums[1] = PROP => WellProp(p)'
    BY <1>2, <2>1 DEF Well, WellProp
  <2> QED
    BY <2>1, <2>2, <2>3, <2>4 DEF Well
<1>4. \A p \in DOMAIN struct' : p \in Nat /\ p < structLen'
  BY DEF LayoutInv
<1> QED
  BY <1>1, <1>2, <1>3, <1>4 DEF LayoutInv

\* Text and Token are items with the lengths and kinds the layout speaks of.
LEMMA TextFacts ==
  ASSUME NEW t \in Texts
  PROVE  Text(t).kind = "text" /\ Text(t).len = Bytes(t) + 1 /\ Text(t).len \in Nat
  BY BytesAssumption DEF Text, Item

\* begin_node.
LEMMA BeginNodeKeepsLayout ==
  ASSUME LayoutInv, NEW name \in Texts, BeginNode(name)
  PROVE  LayoutInv'
<1> PICK at : at = structLen
  OBVIOUS
<1> DEFINE len == Bytes(name) + 1
<1>1. len \in Nat /\ Padded(len) \in Nat /\ Padded(len) >= len /\ Padded(len) % 4 = 0
  BY BytesAssumption, PaddedFacts
<1>2. at \in Nat /\ at % 4 = 0 /\ at \notin DOMAIN struct /\ at + 4 \notin DOMAIN struct
  BY DEF LayoutInv
<1>3. structLen' = at + 4 + Padded(len)
  BY DEF BeginNode
<1>4. structLen' \in Nat /\ structLen' > at + 4 /\ structLen' % 4 = 0
  <2> HIDE DEF len
  <2>1. at + 4 \in Nat /\ (at + 4) % 4 = 0
    BY <1>2
  <2>2. len > 0
    BY BytesAssumption DEF len
  <2> QED
    BY <1>1, <1>3, <2>1, <2>2, AlignedSum
<1>5. /\ DOMAIN struct' = DOMAIN struct \cup {at, at + 4}
      /\ struct'[at] = Token(BEGIN_NODE) /\ struct'[at + 4] = Text(name)
      /\ \A p \in DOMAIN struct : struct'[p] = struct[p]
  BY <1>2 DEF BeginNode, With
<1>6. Well(at)'
  <2>1. struct'[at].nums[1] = BEGIN_NODE
    BY <1>5 DEF Token, Item
  <2>2. WellBegin(at)'
    BY <1>3, <1>5, TextFacts DEF WellBegin, Follows
  <2> QED
    BY <1>2, <2>1, <2>2 DEF Well, BEGIN_NODE, END_NODE, PROP
<1>7. struct'[at].kind = "token" /\ struct'[at + 4].kind # "token"
  BY <1>5, TextFacts DEF Token, Item
<1>8. strtab' = strtab
  BY DEF BeginNode
<1>9. \A p \in DOMAIN struct' \ DOMAIN struct :
        p \in Nat /\ p < structLen' /\ (struct'[p].kind = "token" => p = at)
  BY <1>2, <1>4, <1>5, <1>7
<1>10. \A p \in DOMAIN struct : p \in DOMAIN struct' /\ struct'[p] = struct[p]
  BY <1>5
<1>11. structLen' > at /\ at \in DOMAIN struct'
  BY <1>2, <1>4, <1>5
<1> QED
  BY <1>4, <1>6, <1>7, <1>8, <1>9, <1>10, <1>11, Extended

\* end_node and the last token.
LEMMA WordKeepsLayout ==
  ASSUME LayoutInv, NEW n \in {END_NODE, END},
         struct' = With(struct, structLen, Token(n)), structLen' = structLen + 4,
         strtab' = strtab
  PROVE  LayoutInv'
<1> PICK at : at = structLen
  OBVIOUS
<1>1. at \in Nat /\ at % 4 = 0 /\ at \notin DOMAIN struct
  BY DEF LayoutInv
<1>2. /\ DOMAIN struct' = DOMAIN struct \cup {at} /\ struct'[at] = Token(n)
      /\ \A p \in DOMAIN struct : struct'[p] = struct[p]
  BY <1>1 DEF With
<1>3. struct'[at].kind = "token" /\ struct'[at].nums[1] = n
  BY <1>2 DEF Token, Item
<1>4. Well(at)'
  BY <1>1, <1>3 DEF Well, Follows, BEGIN_NODE, END_NODE, PROP, END
<1>5. structLen' \in Nat /\ structLen' > at /\ structLen' % 4 = 0
  BY <1>1
<1> QED
  BY <1>1, <1>2, <1>3, <1>4, <1>5, Extended

\* A property's name is in the string table once it is written.
LEMMA NameStored ==
  ASSUME StringsInv, NEW name \in Texts, AddString(name)
  PROVE  /\ StringsInv'
         /\ DOMAIN strtab \subseteq DOMAIN strtab'
         /\ StrOff(name) \in DOMAIN strtab'
<1>1. CASE name \in DOMAIN strings
  BY <1>1 DEF AddString, StrOff, StringsInv, StringTableSound
<1>2. CASE name \notin DOMAIN strings
  <2>1. Bytes(name) \in Nat
    BY BytesAssumption
  <2>2. strtabLen \in Nat /\ strtabLen \notin DOMAIN strtab /\ strtabLen' = strtabLen + Bytes(name) + 1
    BY <1>2 DEF StringsInv, AddString
  <2>3. /\ DOMAIN strtab' = DOMAIN strtab \cup {strtabLen} /\ strtab'[strtabLen] = Text(name)
        /\ \A p \in DOMAIN strtab : strtab'[p] = strtab[p]
    BY <1>2, <2>2 DEF AddString, With
  <2>4. /\ DOMAIN strings' = DOMAIN strings \cup {name} /\ strings'[name] = strtabLen
        /\ \A n \in DOMAIN strings : strings'[n] = strings[n]
    BY <1>2 DEF AddString, With
  <2>5. \A p \in DOMAIN strtab' : p \in Nat /\ p < strtabLen' /\ strtab'[p].kind = "text"
    BY <2>1, <2>2, <2>3, TextFacts DEF StringsInv
  <2>6. \A n \in DOMAIN strings : /\ strings[n] \in Nat /\ Bytes(n) \in Nat
                                  /\ strings[n] + Bytes(n) < strtabLen
    BY BytesAssumption DEF StringsInv, StringTableSound
  <2>7. StringTableSound'
    <3> SUFFICES ASSUME NEW n \in DOMAIN strings'
        PROVE  /\ strings'[n] \in DOMAIN strtab' /\ strtab'[strings'[n]] = Text(n)
               /\ strings'[n] + Bytes(n) < strtabLen'
               /\ \A k \in DOMAIN strings' : strings'[n] < strings'[k] => strings'[n] + Bytes(n) < strings'[k]
      BY DEF StringTableSound
    <3>1. CASE n = name
      BY <3>1, <2>1, <2>2, <2>3, <2>4, <2>6
    <3>2. CASE n \in DOMAIN strings
      <4>1. strings[n] \in DOMAIN strtab /\ strtab[strings[n]] = Text(n)
        BY <3>2 DEF StringsInv, StringTableSound
      <4>2. \A k \in DOMAIN strings : strings[n] < strings[k] => strings[n] + Bytes(n) < strings[k]
        BY <3>2 DEF StringsInv, StringTableSound
      <4> QED
        BY <3>2, <4>1, <4>2, <2>1, <2>2, <2>3, <2>4, <2>6
    <3> QED
      BY <3>1, <3>2, <2>4
  <2>8. \A n \in DOMAIN strings' : strings'[n] \in Nat
    BY <2>2, <2>4, <2>6
  <2> QED
    BY <1>2, <2>1, <2>2, <2>3, <2>4, <2>5, <2>7, <2>8 DEF StringsInv, StrOff
<1> QED
  BY <1>1, <1>2

\* prop.
LEMMA PropKeeps ==
  ASSUME LayoutInv, StringsInv, NEW name \in Texts, NEW n \in Nat, NEW nums, NEW texts,
         Prop(name, Value(n, nums, texts))
  PROVE  LayoutInv' /\ StringsInv'
<1> PICK at : at = structLen
  OBVIOUS
<1> DEFINE value == Value(n, nums, texts)
           off == StrOff(name)
<1>1. value.len = n /\ value.kind = "value"
  BY DEF Value, Item
<1>2. /\ StringsInv' /\ DOMAIN strtab \subseteq DOMAIN strtab'
      /\ off \in DOMAIN strtab'
  BY NameStored DEF Prop
<1>3. Padded(n) \in Nat /\ Padded(n) >= n /\ Padded(n) % 4 = 0
  BY PaddedFacts
<1>4. /\ at \in Nat /\ at % 4 = 0 /\ at \notin DOMAIN struct /\ at + 4 \notin DOMAIN struct
      /\ at + 8 \notin DOMAIN struct /\ at + 12 \notin DOMAIN struct
  BY DEF LayoutInv
<1>5. structLen' = at + 12 + Padded(n)
  BY <1>1 DEF Prop
<1>6. structLen' \in Nat /\ structLen' > at + 8 /\ structLen' % 4 = 0 /\ (n # 0 => structLen' > at + 12)
  BY <1>3, <1>4, <1>5
<1>7. DOMAIN PropHead(name, value) = DOMAIN struct \cup {at, at + 4, at + 8}
  BY DEF PropHead, With
<1>8. /\ PropHead(name, value)[at] = Token(PROP)
      /\ PropHead(name, value)[at + 4] = Word(n)
      /\ PropHead(name, value)[at + 8] = Word(off)
      /\ \A p \in DOMAIN struct : PropHead(name, value)[p] = struct[p]
  BY <1>1, <1>4 DEF PropHead, With
<1>9. /\ DOMAIN struct' = DOMAIN struct \cup {at, at + 4, at + 8} \cup (IF n = 0 THEN {} ELSE {at + 12})
      /\ struct'[at] = Token(PROP) /\ struct'[at + 4] = Word(n) /\ struct'[at + 8] = Word(off)
      /\ n # 0 => struct'[at + 12] = value
      /\ \A p \in DOMAIN struct : struct'[p] = struct[p]
  <2> HIDE DEF value
  <2>1. CASE n = 0
    BY <1>1, <1>7, <1>8, <2>1 DEF Prop, value
  <2>2. CASE n # 0
    <3>1. struct' = With(PropHead(name, value), at + 12, value)
      BY <1>1, <2>2 DEF Prop, value
    <3> QED
      BY <1>4, <1>7, <1>8, <2>2, <3>1 DEF With
  <2> QED
    BY <2>1, <2>2
<1>10. /\ struct'[at].kind = "token" /\ struct'[at].nums[1] = PROP
       /\ struct'[at + 4].kind = "word" /\ struct'[at + 4].nums[1] = n
       /\ struct'[at + 8].kind = "word" /\ struct'[at + 8].nums[1] = off
  BY <1>9 DEF Token, Word, Item
<1>11. WellProp(at)'
  BY <1>1, <1>2, <1>5, <1>9, <1>10 DEF WellProp, Follows
<1>12. Well(at)'
  BY <1>4, <1>10, <1>11 DEF Well, BEGIN_NODE, END_NODE, PROP
<1>13. \A p \in DOMAIN struct' \ DOMAIN struct :
          p \in Nat /\ p < structLen' /\ (struct'[p].kind = "token" => p = at)
  BY <1>1, <1>3, <1>4, <1>6, <1>9, <1>10
<1>14. LayoutInv'
  BY <1>2, <1>4, <1>6, <1>9, <1>10, <1>12, <1>13, Extended
<1> QED
  BY <1>2, <1>14

-----------------------------------------------------------------------------
\* The reader.

\* What the reader finds past the reservation map is the structure block, and
\* where the header says strings are, the string block.
LEMMA BlocksFound ==
  ASSUME LayoutInv, StringsInv
  PROVE  /\ \A p \in DOMAIN struct : Data(Base + p) = struct[p]
         /\ \A p \in DOMAIN strtab : Data(Base + structLen + p) = strtab[p]
<1>1. ASSUME NEW p \in DOMAIN struct PROVE Data(Base + p) = struct[p]
  <2>1. p \in Nat /\ (Base + p) - (HdrSize + RsvSize) = p
    BY DEF LayoutInv, Base, HdrSize, RsvSize
  <2> QED
    BY <2>1 DEF Data
<1>2. ASSUME NEW p \in DOMAIN strtab PROVE Data(Base + structLen + p) = strtab[p]
  <2>1. /\ p \in Nat /\ structLen \in Nat
        /\ (Base + structLen + p) - (HdrSize + RsvSize) = structLen + p
        /\ (structLen + p) - structLen = p
    BY DEF LayoutInv, StringsInv, Base, HdrSize, RsvSize
  <2>2. structLen + p \notin DOMAIN struct
    BY <2>1 DEF LayoutInv
  <2> QED
    BY <2>1, <2>2 DEF Data
<1> QED
  BY <1>1, <1>2

\* One turn of the reader's loop leaves it on the chain of tokens, or done.
LEMMA ReadTokenKeeps ==
  ASSUME DtbInv, mode = "reading", ReadToken, UNCHANGED <<builderVars, header>>
  PROVE  ReaderInv'
<1> PICK p : p = pos - Base
  OBVIOUS
<1>1. /\ header.offStruct = Base /\ header.sizeStruct = structLen
      /\ header.offStrings = Base + structLen
      /\ p \in Nat /\ pos = Base + p /\ Follows(p) /\ structLen \in Nat
  BY DEF DtbInv, ReaderInv, LayoutInv, Base, HdrSize, RsvSize
<1>2. CASE ~InBlock
  BY <1>1, <1>2 DEF ReadToken, Stop, ReaderInv
<1>3. CASE InBlock
  <2>1. p \in Tokens /\ Well(p) /\ p % 4 = 0
    <3>1. p # structLen
      BY <1>1, <1>3 DEF InBlock, Base, HdrSize, RsvSize
    <3>2. p \in Tokens
      BY <1>1, <3>1 DEF Follows
    <3> QED
      BY <3>2 DEF DtbInv, LayoutInv, Well
  <2>2. Data(pos) = struct[p] /\ At(pos) = struct[p].nums[1] /\ Data(pos).kind = "token"
    BY <1>1, <2>1, BlocksFound DEF Tokens, DtbInv, At
  <2>3. Base \in Nat /\ Base % 4 = 0 /\ pos \in Nat /\ pos % 4 = 0
    BY <1>1, <2>1 DEF Base, HdrSize, RsvSize
  <2>4. ASSUME NEW q \in Nat, pos' = Base + q, Follows(q), mode' = mode
        PROVE  ReaderInv'
    <3>1. Follows(q)'
      BY <2>4 DEF Follows, Tokens, builderVars
    <3>2. pos' - Base = q /\ pos' >= Base /\ pos' \in Nat
      BY <2>3, <2>4
    <3> QED
      BY <1>1, <2>4, <3>1, <3>2 DEF ReaderInv, builderVars, Base, HdrSize, RsvSize
  <2>5. CASE At(pos) = BEGIN_NODE
    <3>1. WellBegin(p)
      BY <2>1, <2>2, <2>5 DEF Well
    <3>2. Data(pos + 4) = struct[p + 4]
      <4>1. pos + 4 = Base + (p + 4)
        BY <1>1, <2>3
      <4> QED
        BY <3>1, <4>1, BlocksFound DEF WellBegin, DtbInv
    <3>3. Readable(pos)
      BY <2>2, <2>5, <3>1, <3>2 DEF Readable, WellBegin, BEGIN_NODE, PROP, IsWord
    <3>4. ReadBegin
      BY <1>3, <2>5, <3>3 DEF ReadToken, BEGIN_NODE, END_NODE, PROP, END
    <3>5. pos' = RoundUp(pos + 4 + struct[p + 4].len) /\ mode' = mode
      BY <3>2, <3>4 DEF ReadBegin
    <3>6. pos' = pos + 4 + Padded(struct[p + 4].len) /\ Padded(struct[p + 4].len) \in Nat
      BY <2>3, <3>1, <3>5, RoundingAgrees, PaddedFacts DEF WellBegin
    <3>7. pos' = Base + (p + 4 + Padded(struct[p + 4].len))
      BY <1>1, <2>3, <3>6
    <3>8. p + 4 + Padded(struct[p + 4].len) \in Nat /\ Follows(p + 4 + Padded(struct[p + 4].len))
      BY <1>1, <3>1, <3>6 DEF WellBegin
    <3> QED
      BY <2>4, <3>5, <3>7, <3>8
  <2>6. CASE At(pos) = END_NODE
    <3>1. Follows(p + 4)
      BY <2>1, <2>2, <2>6 DEF Well
    <3>2. ReadEnd
      BY <1>3, <2>2, <2>6 DEF ReadToken, Readable, BEGIN_NODE, END_NODE, PROP, END
    <3> QED
      BY <1>1, <2>3, <2>4, <3>1, <3>2 DEF ReadEnd
  <2>7. CASE At(pos) = PROP
    <3>1. WellProp(p)
      BY <2>1, <2>2, <2>7 DEF Well
    <3> PICK n : n = struct[p + 4].nums[1]
      OBVIOUS
    <3> PICK off : off = struct[p + 8].nums[1]
      OBVIOUS
    <3>2. Data(pos + 4) = struct[p + 4] /\ Data(pos + 8) = struct[p + 8]
      <4>1. pos + 4 = Base + (p + 4) /\ pos + 8 = Base + (p + 8)
        BY <1>1, <2>3
      <4> QED
        BY <3>1, <4>1, BlocksFound DEF WellProp, DtbInv
    <3>3. At(pos + 4) = n /\ n \in Nat /\ At(pos + 8) = off /\ off \in DOMAIN strtab
      BY <3>1, <3>2 DEF At, WellProp
    <3>4. NameOf(pos).kind = "text"
      <4>1. NameOf(pos) = strtab[off]
        BY <1>1, <3>3, BlocksFound DEF NameOf, DtbInv
      <4> QED
        BY <3>3, <4>1 DEF DtbInv, StringsInv
    <3>5. ValueOf(pos).kind = "value" /\ ValueOf(pos).len = n
      <4>1. CASE n = 0
        BY <3>3, <4>1 DEF ValueOf, Value, Item
      <4>2. CASE n # 0
        <5>1. pos + 12 = Base + (p + 12)
          BY <1>1, <2>3
        <5>2. Data(pos + 12) = struct[p + 12]
          BY <3>1, <4>2, <5>1, BlocksFound DEF WellProp, DtbInv
        <5> QED
          BY <3>1, <3>3, <4>2, <5>2 DEF ValueOf, WellProp
      <4> QED
        BY <4>1, <4>2
    <3>6. Readable(pos)
      BY <2>2, <2>7, <3>1, <3>2, <3>3, <3>4, <3>5 DEF Readable, WellProp, IsWord, BEGIN_NODE, PROP
    <3>7. ReadProp
      BY <1>3, <2>7, <3>6 DEF ReadToken, BEGIN_NODE, END_NODE, PROP, END
    <3>8. pos' = RoundUp(pos + 12 + n) /\ mode' = mode
      BY <3>3, <3>7 DEF ReadProp
    <3>9. pos' = pos + 12 + Padded(n) /\ Padded(n) \in Nat
      <4>1. pos + 12 \in Nat /\ (pos + 12) % 4 = 0
        BY <2>3
      <4> QED
        BY <3>3, <3>8, <4>1, RoundingAgrees, PaddedFacts
    <3>10. pos' = Base + (p + 12 + Padded(n)) /\ Follows(p + 12 + Padded(n))
      BY <1>1, <2>3, <3>1, <3>9 DEF WellProp
    <3>11. p + 12 + Padded(n) \in Nat
      BY <1>1, <3>9
    <3> QED
      BY <2>4, <3>8, <3>10, <3>11
  <2>8. CASE At(pos) = END
    BY <1>1, <1>3, <2>2, <2>8 DEF ReadToken, Readable, Stop, ReaderInv, BEGIN_NODE, END_NODE, PROP, END
  <2> QED
    BY <2>1, <2>2, <2>5, <2>6, <2>7, <2>8 DEF Well
<1> QED
  BY <1>2, <1>3

-----------------------------------------------------------------------------

\* Nothing is described yet.
LEMMA InitEstablishes ==
  ASSUME DtbInit PROVE DtbInv
  BY DEF DtbInit, DtbInv, LayoutInv, StringsInv, ReaderInv, StringTableSound, Follows, Tokens

\* Each call of the builder and each turn of the reader keeps the invariant.
LEMMA NextPreserves ==
  ASSUME DtbInv, [Describe \/ Raise \/ Build \/ Dump]_dtbVars
  PROVE  DtbInv'
<1>1. CASE Describe
  <2>1. mode' = "building"
    BY <1>1 DEF Describe
  <2>2. CASE EndNode
    <3>1. LayoutInv'
      BY <2>2, WordKeepsLayout DEF EndNode, DtbInv
    <3>2. StringsInv'
      BY <2>2 DEF EndNode, DtbInv, StringsInv, StringTableSound
    <3> QED
      BY <2>1, <3>1, <3>2 DEF DtbInv, ReaderInv
  <2>3. CASE \E name \in Texts : BeginNode(name)
    <3>1. LayoutInv'
      BY <2>3, BeginNodeKeepsLayout DEF DtbInv
    <3>2. StringsInv'
      BY <2>3 DEF BeginNode, DtbInv, StringsInv, StringTableSound
    <3> QED
      BY <2>1, <3>1, <3>2 DEF DtbInv, ReaderInv
  <2>4. CASE \E name \in Texts, len \in Nat, nums \in Seq(Nat), texts \in Seq(Texts) :
               Prop(name, Value(len, nums, texts))
    BY <2>1, <2>4, PropKeeps DEF DtbInv, ReaderInv
  <2> QED
    BY <1>1, <2>2, <2>3, <2>4 DEF Describe
<1>2. CASE Raise
  BY <1>2 DEF Raise, builderVars, DtbInv, LayoutInv, StringsInv, ReaderInv, StringTableSound,
              Follows, Tokens, Well, WellBegin, WellProp
<1>3. CASE Build
  <2>1. LayoutInv'
    BY <1>3, WordKeepsLayout DEF Build, DtbInv
  <2>2. StringsInv'
    BY <1>3 DEF Build, DtbInv, StringsInv, StringTableSound
  <2>3. /\ header'.offStruct = Base /\ header'.sizeStruct = structLen'
        /\ header'.offStrings = Base + structLen'
        /\ pos' = Base /\ mode' = "reading"
    BY <1>3 DEF Build, Header, Base
  <2>4. Base \in Nat /\ pos' - Base = 0
    BY <2>3 DEF Base, HdrSize, RsvSize
  <2>5. 0 \in Tokens' \/ 0 = structLen'
    BY <2>1 DEF LayoutInv, Follows
  <2>6. pos' - Base \in Tokens' \/ pos' - Base = structLen'
    BY <2>4, <2>5
  <2>7. ReaderInv'
    BY <2>3, <2>6 DEF ReaderInv, Follows, Base, HdrSize, RsvSize
  <2> QED
    BY <2>1, <2>2, <2>7 DEF DtbInv
<1>4. CASE Dump
  <2>1. LayoutInv' /\ StringsInv'
    BY <1>4 DEF Dump, builderVars, DtbInv, LayoutInv, StringsInv, StringTableSound,
                Follows, Tokens, Well, WellBegin, WellProp
  <2> QED
    BY <1>4, <2>1, ReadTokenKeeps DEF Dump, DtbInv
<1>5. CASE UNCHANGED dtbVars
  BY <1>5 DEF dtbVars, builderVars, readerVars, DtbInv, LayoutInv, StringsInv, ReaderInv,
              StringTableSound, Follows, Tokens, Well, WellBegin, WellProp
<1> QED
  BY <1>1, <1>2, <1>3, <1>4, <1>5

\* The invariant holds throughout.
THEOREM Invariance == AnyTree => []DtbInv
<1>1. DtbInit => DtbInv
  BY InitEstablishes
<1>2. DtbInv /\ [Describe \/ Raise \/ Build \/ Dump]_dtbVars => DtbInv'
  BY NextPreserves
<1> QED
  BY <1>1, <1>2, PTL DEF AnyTree

\* Whatever nodes and properties a program describes, with names and values of
\* whatever length, names keep their places in the string table (_str_off).
THEOREM StringTableAlwaysSound == AnyTree => []StringTableSound
<1>1. DtbInv => StringTableSound
  BY DEF DtbInv, StringsInv
<1> QED
  BY <1>1, Invariance, PTL

\* Whatever was described, dump_dtb never meets anything but a token where it
\* expects one, nor a name or a value that is not there.
THEOREM NeverLost == AnyTree => []NeverGarbled
<1>1. DtbInv => NeverGarbled
  BY DEF DtbInv, ReaderInv, NeverGarbled
<1> QED
  BY <1>1, Invariance, PTL

-----------------------------------------------------------------------------
\* build_minimal_dtb.

Inputs == options \in CommandLines

\* Each call of build_minimal_dtb is a call of a builder method, with texts and
\* values of the right kind, or the exception.
LEMMA CallIsOne ==
  ASSUME Inputs, Call
  PROVE  Describe \/ Raise
<1> HIDE DEF Calls
<1> PICK c : c = Calls(options)[next]
  OBVIOUS
<1>1. /\ mode = "building"
      /\ c.op \in {"begin", "prop"} => c.name \in Texts
      /\ c.op = "prop" => /\ c.value = Value(c.value.len, c.value.nums, c.value.texts)
                          /\ c.value.len \in Nat /\ c.value.nums \in Seq(Nat)
                          /\ c.value.texts \in Seq(Texts)
  BY TextsAssumption DEF Call, Inputs
<1>2. CASE c.op = "raise" /\ Raise
  BY <1>2
<1>3. CASE /\ \/ c.op = "begin" /\ BeginNode(c.name)
              \/ c.op = "end" /\ EndNode
              \/ c.op = "prop" /\ Prop(c.name, c.value)
           /\ UNCHANGED <<header, mode, readerVars>>
  <2>1. CASE c.op = "prop" /\ Prop(c.name, c.value)
    <3>1. Prop(c.name, Value(c.value.len, c.value.nums, c.value.texts))
      BY <1>1, <2>1
    <3> QED
      BY <1>1, <1>3, <2>1, <3>1 DEF Describe
  <2> QED
    BY <1>1, <1>3, <2>1 DEF Describe
<1> QED
  BY <1>2, <1>3 DEF Call

\* build_minimal_dtb followed by dump_dtb is a builder program and its reader,
\* for every kernel command line, initrd range and interrupt number.
THEOREM TreeIsAnyTree == Spec => AnyTree
<1>1. Init => DtbInit /\ Inputs
  BY DEF Init, Inputs
<1>2. Inputs /\ [Next]_vars => Inputs'
  BY DEF Inputs, Next, Call, WriteBlob, vars
<1>3. Inputs /\ [Next]_vars => [Describe \/ Raise \/ Build \/ Dump]_dtbVars
  <2>1. ASSUME Inputs, Call PROVE Describe \/ Raise
    BY <2>1, CallIsOne
  <2> QED
    BY <2>1 DEF Next, WriteBlob, vars
<1> QED
  BY <1>1, <1>2, <1>3, PTL DEF Spec, AnyTree

\* The string table of the tree is sound (_str_off).
THEOREM TreeStringTableSound == Spec => []StringTableSound
  BY TreeIsAnyTree, StringTableAlwaysSound, PTL

\* dump_dtb reads back tokens, names and values where build_minimal_dtb put some,
\* for texts of any length.
THEOREM TreeNeverGarbled == Spec => []NeverGarbled
  BY TreeIsAnyTree, NeverLost, PTL

-----------------------------------------------------------------------------
\* The numbering of calls and lines: how many calls of a kind come before one,
\* and which line of the dump is of which call.

\* The least element of a set of numbers.
LEMMA LeastOf ==
  ASSUME NEW S \in SUBSET Nat, S # {}
  PROVE  \E n \in S : \A m \in S : n <= m
<1> DEFINE R == OpToRel(<, Nat)
<1>1. IsWellFoundedOn(R, Nat)
  BY NatLessThanWellFounded
<1>2. \A x, y \in Nat : <<y, x>> \in R <=> y < x
  BY DEF OpToRel
<1> HIDE DEF R
<1>3. PICK n \in S : \A y \in S : ~(<<y, n>> \in R)
  BY <1>1, WFMin
<1>4. ASSUME NEW m \in S PROVE n <= m
  <2>1. ~(m < n) /\ m \in Nat /\ n \in Nat
    BY <1>2, <1>3
  <2> QED
    BY <2>1
<1> QED
  BY <1>4

\* One call more is or is not one of those counted.
LEMMA BeforeStep ==
  ASSUME NEW calls, NEW op, NEW i \in Nat \ {0}
  PROVE  /\ Before(calls, i, op) \in Nat
         /\ Before(calls, i + 1, op) = Before(calls, i, op) + (IF calls[i].op = op THEN 1 ELSE 0)
<1> DEFINE B == {j \in 1 .. i - 1 : calls[j].op = op}
           C == {j \in 1 .. i : calls[j].op = op}
<1>1. IsFiniteSet(1 .. i - 1) /\ i - 1 \in Int
  BY FS_Interval
<1>2. IsFiniteSet(B)
  BY <1>1, FS_Subset
<1>3. Cardinality(B) \in Nat
  BY <1>2, FS_CardinalityType
<1>4. i \notin B /\ C = B \cup (IF calls[i].op = op THEN {i} ELSE {})
  OBVIOUS
<1>5. Cardinality(C) = Cardinality(B) + (IF calls[i].op = op THEN 1 ELSE 0)
  <2> HIDE DEF B, C
  <2>1. CASE calls[i].op = op
    <3>1. C = B \cup {i} /\ i \notin B
      BY <1>4, <2>1
    <3> QED
      BY <1>2, <2>1, <3>1, FS_AddElement
  <2>2. CASE calls[i].op # op
    BY <1>3, <1>4, <2>2
  <2> QED
    BY <2>1, <2>2
<1>6. Before(calls, i, op) = Cardinality(B) /\ Before(calls, i + 1, op) = Cardinality(C)
  <2>1. (i + 1) - 1 = i
    OBVIOUS
  <2> QED
    BY <2>1 DEF Before
<1> QED
  BY <1>3, <1>5, <1>6

\* Nothing is before the first call.
LEMMA BeforeFirst ==
  ASSUME NEW calls, NEW op
  PROVE  Before(calls, 1, op) = 0
<1>1. {j \in 1 .. 1 - 1 : calls[j].op = op} = {}
  OBVIOUS
<1> QED
  BY <1>1, FS_EmptySet DEF Before

\* Nesting from call to call.
LevelAfter(c) == IF c.op = "begin" THEN 1 ELSE IF c.op = "end" THEN -1 ELSE 0

\* A node opened, closed, or neither.
LEMMA LevelStep ==
  ASSUME NEW calls, NEW i \in Nat \ {0}
  PROVE  /\ Level(calls, i) \in Int
         /\ Level(calls, i + 1) = Level(calls, i) + LevelAfter(calls[i])
<1>1. /\ Before(calls, i, "begin") \in Nat
      /\ Before(calls, i + 1, "begin")
           = Before(calls, i, "begin") + (IF calls[i].op = "begin" THEN 1 ELSE 0)
  BY BeforeStep
<1>2. /\ Before(calls, i, "end") \in Nat
      /\ Before(calls, i + 1, "end")
           = Before(calls, i, "end") + (IF calls[i].op = "end" THEN 1 ELSE 0)
  BY BeforeStep
<1> QED
  BY <1>1, <1>2 DEF Level, LevelAfter

\* No node is open at first.
LEMMA LevelFirst ==
  ASSUME NEW calls
  PROVE  Level(calls, 1) = 0
  BY BeforeFirst DEF Level

\* The calls are finitely many.
IsCalls(calls) == \E S : calls \in Seq(S)

\* So are those that make a line.
LEMMA ToldFinite ==
  ASSUME NEW calls, IsCalls(calls)
  PROVE  /\ Len(calls) \in Nat /\ DOMAIN calls = 1 .. Len(calls)
         /\ Told(calls) \subseteq 1 .. Len(calls)
         /\ IsFiniteSet(Told(calls)) /\ Cardinality(Told(calls)) \in Nat
<1>1. Len(calls) \in Nat /\ DOMAIN calls = 1 .. Len(calls)
  BY DEF IsCalls
<1>2. IsFiniteSet(1 .. Len(calls))
  BY <1>1, FS_Interval
<1>3. Told(calls) \subseteq 1 .. Len(calls)
  BY <1>1 DEF Told
<1>4. IsFiniteSet(Told(calls))
  BY <1>2, <1>3, FS_Subset
<1> QED
  BY <1>1, <1>3, <1>4, FS_CardinalityType

\* No line is before the first.
LEMMA RankFirst ==
  ASSUME NEW calls, IsCalls(calls)
  PROVE  Rank(calls, 0) = 0
<1>1. {j \in Told(calls) : j <= 0} = {}
  BY ToldFinite
<1> QED
  BY <1>1, FS_EmptySet DEF Rank

\* A call has one line more than the call before, or as many.
LEMMA RankStep ==
  ASSUME NEW calls, IsCalls(calls), NEW i \in 1 .. Len(calls)
  PROVE  /\ Rank(calls, i - 1) \in Nat /\ Rank(calls, i - 1) <= Cardinality(Told(calls))
         /\ Rank(calls, i) = Rank(calls, i - 1) + (IF i \in Told(calls) THEN 1 ELSE 0)
<1> DEFINE T == Told(calls)
           B == {j \in T : j <= i - 1}
           C == {j \in T : j <= i}
<1>1. T \subseteq 1 .. Len(calls) /\ IsFiniteSet(T) /\ Len(calls) \in Nat /\ i \in Nat
  BY ToldFinite
<1> HIDE DEF T
<1>2. IsFiniteSet(B) /\ Cardinality(B) <= Cardinality(T)
  BY <1>1, FS_Subset
<1>3. Cardinality(B) \in Nat
  BY <1>2, FS_CardinalityType
<1>4. i \notin B /\ C = B \cup (IF i \in T THEN {i} ELSE {})
  <2>1. \A j \in T : j <= i <=> j <= i - 1 \/ j = i
    BY <1>1
  <2>2. ~(i <= i - 1) /\ i <= i
    BY <1>1
  <2> QED
    BY <2>1, <2>2
<1>5. Cardinality(C) = Cardinality(B) + (IF i \in T THEN 1 ELSE 0)
  <2> HIDE DEF B, C
  <2>1. CASE i \in T
    <3>1. C = B \cup {i} /\ i \notin B
      BY <1>4, <2>1
    <3> QED
      BY <1>2, <2>1, <3>1, FS_AddElement
  <2>2. CASE i \notin T
    BY <1>3, <1>4, <2>2
  <2> QED
    BY <2>1, <2>2
<1>6. Rank(calls, i - 1) = Cardinality(B) /\ Rank(calls, i) = Cardinality(C)
  BY DEF Rank, T
<1> QED
  BY <1>2, <1>3, <1>5, <1>6 DEF T

\* All lines are up to the last call.
LEMMA RankLast ==
  ASSUME NEW calls, IsCalls(calls)
  PROVE  Rank(calls, Len(calls)) = Cardinality(Told(calls))
<1>1. {j \in Told(calls) : j <= Len(calls)} = Told(calls)
  BY ToldFinite
<1> QED
  BY <1>1 DEF Rank

\* Later calls have later lines.
LEMMA RankOrder ==
  ASSUME NEW calls, IsCalls(calls), NEW i \in Told(calls), NEW j \in Told(calls), i < j
  PROVE  Rank(calls, i) < Rank(calls, j)
<1> DEFINE T == Told(calls)
           B == {k \in T : k <= i}
           C == {k \in T : k <= j}
<1>1. T \subseteq Nat /\ IsFiniteSet(T) /\ i \in T /\ j \in T
  BY ToldFinite
<1> HIDE DEF T
<1>2. IsFiniteSet(B) /\ IsFiniteSet(C)
  BY <1>1, FS_Subset
<1>3. j \notin B /\ B \cup {j} \subseteq C
  <2>1. i \in Nat /\ j \in Nat /\ ~(j <= i)
    BY <1>1
  <2>2. \A k \in T : k <= i => k <= j
    BY <1>1, <2>1
  <2>3. j <= j
    BY <2>1
  <2> QED
    BY <1>1, <2>1, <2>2, <2>3
<1>4. Rank(calls, i) = Cardinality(B) /\ Rank(calls, j) = Cardinality(C)
  BY DEF Rank, T
<1> HIDE DEF B, C
<1>5. Cardinality(B \cup {j}) = Cardinality(B) + 1
  BY <1>2, <1>3, FS_AddElement
<1>6. Cardinality(B \cup {j}) <= Cardinality(C)
  BY <1>2, <1>3, FS_Subset
<1>7. Cardinality(B) \in Nat /\ Cardinality(C) \in Nat
  BY <1>2, FS_CardinalityType
<1> QED
  BY <1>4, <1>5, <1>6, <1>7

\* The line of a call that makes one is where the calls before it put it.
LEMMA LineFound ==
  ASSUME NEW calls, IsCalls(calls), NEW i \in Told(calls)
  PROVE  /\ Rank(calls, i) \in 1 .. Cardinality(Told(calls))
         /\ Lines(calls)[Rank(calls, i)] = LineOf(calls, i)
<1> DEFINE T == Told(calls)
           r == Rank(calls, i)
<1>1. i \in 1 .. Len(calls) /\ T \subseteq Nat /\ Len(calls) \in Nat
  BY ToldFinite
<1>2. r \in Nat /\ r > 0
  BY <1>1, RankStep
<1>3. r <= Cardinality(T)
  <2>1. {j \in T : j <= i} \in SUBSET T /\ IsFiniteSet(T)
    BY ToldFinite
  <2> QED
    BY <2>1, FS_Subset DEF Rank
<1>4. Cardinality(T) \in Nat
  BY ToldFinite
<1>5. ASSUME NEW j \in T, Rank(calls, j) = r PROVE j = i
  <2>1. i < j \/ j < i \/ i = j
    BY <1>1
  <2>2. ~(i < j)
    <3>1. ASSUME i < j PROVE FALSE
      <4>1. r < Rank(calls, j)
        BY <3>1, RankOrder
      <4> QED
        BY <1>2, <1>5, <4>1
    <3> QED
      BY <3>1
  <2>3. ~(j < i)
    <3>1. ASSUME j < i PROVE FALSE
      <4>1. Rank(calls, j) < r
        BY <3>1, RankOrder
      <4> QED
        BY <1>2, <1>5, <4>1
    <3> QED
      BY <3>1
  <2> QED
    BY <2>1, <2>2, <2>3
<1>6. (CHOOSE j \in T : Rank(calls, j) = r) = i
  <2> HIDE DEF T, r
  <2>1. i \in T /\ Rank(calls, i) = r
    BY DEF T, r
  <2> QED
    BY <1>5, <2>1
<1>7. r \in 1 .. Cardinality(T)
  BY <1>2, <1>3, <1>4
<1>8. Lines(calls)[r] = LineOf(calls, CHOOSE j \in T : Rank(calls, j) = r)
  <2> DEFINE rank == [j \in T |-> Rank(calls, j)]
             line == [j \in T |-> LineOf(calls, j)]
  <2>1. (CHOOSE j \in T : rank[j] = r) = i
    <3> HIDE DEF T, r
    <3>1. i \in T /\ rank[i] = r
      BY DEF T, r
    <3>2. \A j \in T : rank[j] = r => j = i
      BY <1>5
    <3> HIDE DEF rank
    <3> QED
      BY <3>1, <3>2
  <2>2. Lines(calls)[r] = line[CHOOSE j \in T : rank[j] = r]
    BY <1>7 DEF Lines
  <2> QED
    BY <1>6, <2>1, <2>2
<1> QED
  BY <1>6, <1>7, <1>8

\* The first lines of a list of them.
Beginning(s, n) == [k \in 1 .. n |-> s[k]]

\* Printing the next line.
LEMMA OneMore ==
  ASSUME NEW s, NEW n \in Nat
  PROVE  Append(Beginning(s, n), s[n + 1]) = Beginning(s, n + 1)
<1> DEFINE S == {s[k] : k \in 1 .. n + 1}
<1>1. Beginning(s, n) \in Seq(S) /\ Len(Beginning(s, n)) = n
  BY DEF Beginning
<1>2. s[n + 1] \in S
  OBVIOUS
<1> HIDE DEF S
<1>3. /\ DOMAIN Append(Beginning(s, n), s[n + 1]) = 1 .. n + 1
      /\ \A k \in 1 .. n : Append(Beginning(s, n), s[n + 1])[k] = Beginning(s, n)[k]
      /\ Append(Beginning(s, n), s[n + 1])[n + 1] = s[n + 1]
  BY <1>1, <1>2
<1> QED
  BY <1>1, <1>3 DEF Beginning

\* What has been printed is a beginning, and all of it when as long.
LEMMA IsBeginning ==
  ASSUME NEW calls, IsCalls(calls), NEW n \in 0 .. Cardinality(Told(calls))
  PROVE  /\ IsPrefix(Beginning(Lines(calls), n), Lines(calls))
         /\ Len(Beginning(Lines(calls), n)) = n /\ Len(Lines(calls)) = Cardinality(Told(calls))
<1> DEFINE m == Cardinality(Told(calls))
           s == Lines(calls)
           S == {s[k] : k \in 1 .. m}
<1>1. m \in Nat /\ n \in Nat /\ n <= m
  BY ToldFinite
<1>2. s = [k \in 1 .. m |-> s[k]]
  BY DEF Lines
<1> HIDE DEF s, m
<1>3. \A k \in 1 .. m : s[k] \in S
  OBVIOUS
<1> HIDE DEF S
<1>4. s \in Seq(S) /\ Len(s) = m
  BY <1>1, <1>2, <1>3
<1>5. Beginning(s, n) \in Seq(S) /\ Len(Beginning(s, n)) = n
  BY <1>1, <1>3 DEF Beginning
<1>6. SubSeq(Beginning(s, n), 1, n) = SubSeq(s, 1, n)
  <2>1. SubSeq(s, 1, n) = [k \in 1 .. n |-> s[k]]
    BY <1>1, <1>4
  <2>2. SubSeq(Beginning(s, n), 1, n) = [k \in 1 .. n |-> Beginning(s, n)[k]]
    BY <1>1, <1>5
  <2> QED
    BY <2>1, <2>2 DEF Beginning
<1> QED
  BY <1>1, <1>4, <1>5, <1>6 DEF IsPrefix, s, m

-----------------------------------------------------------------------------
\* Every node that build_minimal_dtb opens it closes, and nothing it closes is
\* not open: the level before each call, found by adding up, is a number.

Depths(s, d) ==
  /\ d \in [0 .. Len(s) -> Nat]
  /\ d[0] = 0 /\ d[Len(s)] = 0
  /\ \A i \in 1 .. Len(s) : d[i] = d[i - 1] + LevelAfter(s[i])
Nested(s) == IsCalls(s) /\ \E d : Depths(s, d)

\* The levels added up are those counted.
LEMMA DepthsAreLevels ==
  ASSUME NEW s, NEW d, IsCalls(s), Depths(s, d)
  PROVE  \A i \in 0 .. Len(s) : Level(s, i + 1) = d[i] /\ d[i] \in Nat
<1>1. Len(s) \in Nat
  BY DEF IsCalls
<1> DEFINE Bad == {i \in 0 .. Len(s) : Level(s, i + 1) # d[i]}
<1>2. Bad = {}
  <2> SUFFICES ASSUME Bad # {} PROVE FALSE
    OBVIOUS
  <2>1. Bad \in SUBSET Nat
    BY <1>1
  <2>2. PICK i \in Bad : \A j \in Bad : i <= j
    BY <2>1, LeastOf
  <2>3. i \in 0 .. Len(s) /\ Level(s, i + 1) # d[i]
    OBVIOUS
  <2>4. i # 0
    BY <2>3, LevelFirst DEF Depths
  <2>5. i \in Nat \ {0} /\ i \in 1 .. Len(s) /\ i - 1 \in 0 .. Len(s)
    BY <1>1, <2>3, <2>4
  <2>6. i - 1 \notin Bad
    <3>1. ~(i <= i - 1)
      BY <2>5
    <3> QED
      BY <2>2, <3>1
  <2>7. Level(s, i) = d[i - 1]
    <3>1. (i - 1) + 1 = i
      BY <2>5
    <3> QED
      BY <2>5, <2>6, <3>1
  <2>8. Level(s, i + 1) = Level(s, i) + LevelAfter(s[i])
    BY <2>5, LevelStep
  <2>9. d[i] = d[i - 1] + LevelAfter(s[i])
    BY <2>5 DEF Depths
  <2> QED
    BY <2>3, <2>7, <2>8, <2>9
<1> QED
  BY <1>2 DEF Depths

\* They are never below zero, and zero at the end.
LEMMA NestedLevels ==
  ASSUME NEW s, Nested(s)
  PROVE  /\ \A i \in 1 .. Len(s) + 1 : Level(s, i) \in Nat
         /\ Level(s, Len(s) + 1) = 0
<1>1. PICK d : Depths(s, d)
  BY DEF Nested
<1>2. Len(s) \in Nat /\ IsCalls(s)
  BY DEF Nested, IsCalls
<1>3. \A i \in 0 .. Len(s) : Level(s, i + 1) = d[i] /\ d[i] \in Nat
  BY <1>1, <1>2, DepthsAreLevels
<1>4. Level(s, Len(s) + 1) = 0
  <2>1. Len(s) \in 0 .. Len(s)
    BY <1>2
  <2> QED
    BY <1>1, <1>3, <2>1 DEF Depths
<1>5. ASSUME NEW i \in 1 .. Len(s) + 1 PROVE Level(s, i) \in Nat
  <2>1. i - 1 \in 0 .. Len(s) /\ (i - 1) + 1 = i
    BY <1>2
  <2> QED
    BY <1>3, <2>1
<1> QED
  BY <1>4, <1>5

\* No calls are nested.
LEMMA NestedNone ==
  Nested(<<>>)
<1>1. IsCalls(<<>>)
  BY DEF IsCalls
<1>2. Depths(<<>>, [i \in 0 .. 0 |-> 0])
  BY DEF Depths
<1> QED
  BY <1>1, <1>2 DEF Nested

\* A property, or the exception, opens and closes nothing.
LEMMA NestedOne ==
  ASSUME NEW c, LevelAfter(c) = 0
  PROVE  Nested(<<c>>)
<1>1. IsCalls(<<c>>)
  <2>1. <<c>> \in Seq({c})
    OBVIOUS
  <2> QED
    BY <2>1 DEF IsCalls
<1>2. Depths(<<c>>, [i \in 0 .. 1 |-> 0])
  BY DEF Depths
<1> QED
  BY <1>1, <1>2 DEF Nested

IsJoin(u, s, t) ==
  /\ IsCalls(u) /\ Len(s) \in Nat /\ Len(t) \in Nat
  /\ Len(u) = Len(s) + Len(t)
  /\ \A i \in 1 .. Len(s) : u[i] = s[i]
  /\ \A i \in 1 .. Len(t) : u[Len(s) + i] = t[i]

\* Calls one after the other.
LEMMA Joined ==
  ASSUME NEW s, NEW t, IsCalls(s), IsCalls(t)
  PROVE  IsJoin(s \o t, s, t)
<1>1. PICK S : s \in Seq(S)
  BY DEF IsCalls
<1>2. PICK T : t \in Seq(T)
  BY DEF IsCalls
<1>3. s \in Seq(S \cup T) /\ t \in Seq(S \cup T)
  BY <1>1, <1>2
<1>4. s \o t \in Seq(S \cup T)
  BY <1>3
<1>5. /\ Len(s) \in Nat /\ Len(t) \in Nat
      /\ Len(s \o t) = Len(s) + Len(t)
  BY <1>3
<1>6. \A i \in 1 .. Len(s) + Len(t) : (s \o t)[i] = IF i <= Len(s) THEN s[i] ELSE t[i - Len(s)]
  BY <1>3, <1>5
<1>7. ASSUME NEW i \in 1 .. Len(s) PROVE (s \o t)[i] = s[i]
  BY <1>5, <1>6
<1>8. ASSUME NEW i \in 1 .. Len(t) PROVE (s \o t)[Len(s) + i] = t[i]
  <2>1. Len(s) + i \in 1 .. Len(s) + Len(t) /\ ~(Len(s) + i <= Len(s)) /\ (Len(s) + i) - Len(s) = i
    BY <1>5
  <2> QED
    BY <1>6, <2>1
<1> QED
  BY <1>4, <1>5, <1>7, <1>8 DEF IsCalls, IsJoin

\* The levels of one part, then those of the other.
JoinedDepths(d, m, e, n) == [i \in 0 .. m + n |-> IF i <= m THEN d[i] ELSE e[i - m]]

\* Two properly nested parts.
LEMMA DepthsJoin ==
  ASSUME NEW s, NEW t, IsCalls(s), IsCalls(t), NEW d, NEW e, Depths(s, d), Depths(t, e)
  PROVE  Depths(s \o t, JoinedDepths(d, Len(s), e, Len(t)))
<1>3. /\ IsCalls(s \o t) /\ Len(s) \in Nat /\ Len(t) \in Nat
      /\ Len(s \o t) = Len(s) + Len(t)
  BY Joined DEF IsJoin
<1>4. PICK m \in Nat : m = Len(s)
  BY <1>3
<1>5. PICK n \in Nat : n = Len(t)
  BY <1>3
<1> DEFINE f == [i \in 0 .. m + n |-> IF i <= m THEN d[i] ELSE e[i - m]]
<1>6. /\ \A i \in 0 .. m : d[i] \in Nat
      /\ \A i \in 0 .. n : e[i] \in Nat
      /\ d[0] = 0 /\ d[m] = 0 /\ e[0] = 0 /\ e[n] = 0
  BY <1>4, <1>5 DEF Depths
<1>7. f \in [0 .. m + n -> Nat]
  <2> SUFFICES ASSUME NEW i \in 0 .. m + n PROVE (IF i <= m THEN d[i] ELSE e[i - m]) \in Nat
    OBVIOUS
  <2>1. CASE i <= m
    BY <1>6, <2>1
  <2>2. CASE ~(i <= m)
    <3>1. i - m \in 0 .. n
      BY <2>2
    <3> QED
      BY <1>6, <2>2, <3>1
  <2> QED
    BY <2>1, <2>2
<1>8. f[0] = 0 /\ f[m + n] = 0
  <2>1. f[0] = d[0]
    OBVIOUS
  <2>2. CASE n = 0
    BY <1>6, <2>1, <2>2
  <2>3. CASE n # 0
    <3>1. ~(m + n <= m) /\ (m + n) - m = n /\ m + n \in 0 .. m + n
      BY <2>3
    <3> QED
      BY <1>6, <2>1, <3>1
  <2> QED
    BY <2>2, <2>3
<1>9. ASSUME NEW i \in 1 .. m + n PROVE f[i] = f[i - 1] + LevelAfter((s \o t)[i])
  <2>1. CASE i <= m
    <3>1. i \in 1 .. Len(s) /\ i \in 0 .. m + n /\ i - 1 \in 0 .. m + n /\ i - 1 <= m
      BY <1>4, <2>1
    <3>2. (s \o t)[i] = s[i]
      BY <3>1, Joined DEF IsJoin
    <3>3. f[i] = d[i] /\ f[i - 1] = d[i - 1]
      BY <2>1, <3>1
    <3>4. d[i] = d[i - 1] + LevelAfter(s[i])
      BY <3>1 DEF Depths
    <3> QED
      BY <3>2, <3>3, <3>4
  <2>2. CASE ~(i <= m)
    <3> PICK k : k = i - m
      OBVIOUS
    <3>1. k \in 1 .. Len(t) /\ i = m + k /\ k - 1 \in 0 .. n /\ i \in 0 .. m + n /\ i - 1 \in 0 .. m + n
      BY <1>5, <2>2
    <3>2. (s \o t)[i] = t[k]
      BY <1>4, <3>1, Joined DEF IsJoin
    <3>3. f[i] = e[k]
      BY <2>2, <3>1
    <3>4. f[i - 1] = e[k - 1]
      <4>1. CASE k = 1
        BY <1>6, <3>1, <4>1
      <4>2. CASE k # 1
        <5>1. ~(i - 1 <= m) /\ (i - 1) - m = k - 1
          BY <3>1, <4>2
        <5> QED
          BY <3>1, <5>1
      <4> QED
        BY <4>1, <4>2
    <3>5. e[k] = e[k - 1] + LevelAfter(t[k])
      BY <3>1 DEF Depths
    <3> QED
      BY <3>2, <3>3, <3>4, <3>5
  <2> QED
    BY <2>1, <2>2
<1> HIDE DEF f
<1>10. Depths(s \o t, f)
  BY <1>3, <1>4, <1>5, <1>7, <1>8, <1>9 DEF Depths
<1> QED
  BY <1>4, <1>5, <1>10 DEF f, JoinedDepths

\* Together they are properly nested.
LEMMA NestedJoin ==
  ASSUME NEW s, NEW t, Nested(s), Nested(t)
  PROVE  Nested(s \o t)
<1>1. IsCalls(s \o t) /\ IsCalls(s) /\ IsCalls(t)
  BY Joined DEF Nested, IsJoin
<1>2. PICK d, e : Depths(s, d) /\ Depths(t, e)
  BY DEF Nested
<1>3. Depths(s \o t, JoinedDepths(d, Len(s), e, Len(t)))
  BY <1>1, <1>2, DepthsJoin
<1> QED
  BY <1>1, <1>3 DEF Nested

IsNode(u, name, body) ==
  /\ IsCalls(u) /\ Len(body) \in Nat /\ Len(u) = Len(body) + 2
  /\ u[1] = Begin(name) /\ u[Len(body) + 2] = Finish
  /\ \A i \in 1 .. Len(body) : u[1 + i] = body[i]

\* The calls of a node: its own two and its body between them.
LEMMA NodeIs ==
  ASSUME NEW name, NEW body, IsCalls(body)
  PROVE  IsNode(Node(name, body), name, body)
<1> DEFINE a == <<Begin(name)>>
           z == <<Finish>>
<1>2. /\ IsCalls(a) /\ Len(a) = 1 /\ a[1] = Begin(name)
      /\ IsCalls(z) /\ Len(z) = 1 /\ z[1] = Finish
  <2>1. a \in Seq({Begin(name)}) /\ z \in Seq({Finish})
    OBVIOUS
  <2>2. IsCalls(a) /\ IsCalls(z)
    BY <2>1 DEF IsCalls
  <2> QED
    BY <2>2
<1>3. LevelAfter(a[1]) = 1 /\ LevelAfter(z[1]) = -1
  BY <1>2 DEF LevelAfter, Begin, Finish
<1> HIDE DEF a, z
<1>4. PICK n \in Nat : n = Len(body)
  BY ToldFinite
<1>5. /\ IsCalls(a \o body) /\ Len(a \o body) = n + 1
      /\ (a \o body)[1] = a[1]
      /\ \A i \in 1 .. n : (a \o body)[1 + i] = body[i]
  <2>2. IsJoin(a \o body, a, body)
    BY <1>2, Joined
  <2>3. 1 \in 1 .. Len(a) /\ Len(a) + Len(body) = n + 1
    BY <1>2, <1>4
  <2> QED
    BY <1>2, <1>4, <2>2, <2>3 DEF IsJoin
<1>6. PICK s : s = (a \o body) \o z
  OBVIOUS
<1>7. /\ IsCalls(s) /\ Len(s) = n + 2
      /\ \A i \in 1 .. n + 1 : s[i] = (a \o body)[i]
      /\ s[n + 2] = z[1]
  <2>1. /\ IsCalls(s) /\ Len(s) = (n + 1) + 1
        /\ \A i \in 1 .. n + 1 : s[i] = (a \o body)[i]
        /\ s[(n + 1) + 1] = z[1]
    <3> PICK b : b = a \o body
      OBVIOUS
    <3>1. IsCalls(b) /\ Len(b) = n + 1 /\ s = b \o z
      BY <1>5, <1>6
    <3>2. IsJoin(b \o z, b, z)
      BY <1>2, <3>1, Joined
    <3>3. 1 \in 1 .. Len(z)
      BY <1>2
    <3> QED
      BY <1>2, <1>5, <3>1, <3>2, <3>3 DEF IsJoin
  <2>2. (n + 1) + 1 = n + 2
    OBVIOUS
  <2> QED
    BY <2>1, <2>2
<1>8. s[1] = a[1]
  <2>1. 1 \in 1 .. n + 1
    OBVIOUS
  <2> QED
    BY <1>5, <1>7, <2>1
<1>9. ASSUME NEW i \in 1 .. n PROVE s[1 + i] = body[i]
  <2>1. 1 + i \in 1 .. n + 1
    OBVIOUS
  <2> QED
    BY <1>5, <1>7, <2>1
<1> QED
  BY <1>2, <1>4, <1>6, <1>7, <1>8, <1>9 DEF Node, a, z, IsNode

\* The levels in a node are one above those of its body.
NodeDepths(d, n) == [i \in 0 .. n + 2 |-> IF i \in 1 .. n + 1 THEN d[i - 1] + 1 ELSE 0]

\* A node around a properly nested body.
LEMMA DepthsNode ==
  ASSUME NEW name, NEW body, IsCalls(body), NEW d, Depths(body, d)
  PROVE  Depths(Node(name, body), NodeDepths(d, Len(body)))
<1> PICK s : s = Node(name, body)
  OBVIOUS
<1>1. IsNode(s, name, body)
  BY NodeIs
<1>2. PICK n \in Nat : n = Len(body)
  BY ToldFinite
<1>3. LevelAfter(Begin(name)) = 1 /\ LevelAfter(Finish) = -1
  BY DEF LevelAfter, Begin, Finish
<1>4. /\ Len(s) = n + 2 /\ s[1] = Begin(name) /\ s[n + 2] = Finish
      /\ \A i \in 1 .. n : s[1 + i] = body[i]
  BY <1>1, <1>2 DEF IsNode
<1> DEFINE f == [i \in 0 .. n + 2 |-> IF i \in 1 .. n + 1 THEN d[i - 1] + 1 ELSE 0]
<1>8. (\A i \in 0 .. n : d[i] \in Nat) /\ d[0] = 0 /\ d[n] = 0
  BY <1>2 DEF Depths
<1>9. f \in [0 .. n + 2 -> Nat] /\ f[0] = 0 /\ f[n + 2] = 0
  <2>1. ASSUME NEW i \in 1 .. n + 1 PROVE d[i - 1] + 1 \in Nat
    <3>1. i - 1 \in 0 .. n
      OBVIOUS
    <3> QED
      BY <1>8, <3>1
  <2> QED
    BY <2>1
<1>10. ASSUME NEW i \in 1 .. n + 2 PROVE f[i] = f[i - 1] + LevelAfter(s[i])
  <2>1. CASE i = 1
    <3>1. f[1] = d[0] + 1 /\ f[0] = 0
      OBVIOUS
    <3> QED
      BY <1>3, <1>4, <1>8, <2>1, <3>1
  <2>2. CASE i \in 2 .. n + 1
    <3> PICK k \in 1 .. n : i = 1 + k
      <4>1. i - 1 \in 1 .. n /\ i = 1 + (i - 1)
        BY <2>2
      <4> QED
        BY <4>1
    <3>1. f[i] = d[k] + 1 /\ f[i - 1] = d[k - 1] + 1
      <4>1. i \in 1 .. n + 1 /\ i - 1 = k /\ i - 1 \in 1 .. n + 1 /\ (i - 1) - 1 = k - 1
        BY <2>2
      <4>2. i \in 0 .. n + 2 /\ i - 1 \in 0 .. n + 2
        OBVIOUS
      <4> QED
        BY <4>1, <4>2
    <3>2. s[i] = body[k]
      BY <1>4
    <3>3. d[k] = d[k - 1] + LevelAfter(body[k]) /\ d[k] \in Nat /\ d[k - 1] \in Nat
      <4>1. k \in 0 .. n /\ k - 1 \in 0 .. n
        OBVIOUS
      <4> QED
        BY <1>2, <1>8, <4>1 DEF Depths
    <3>4. LevelAfter(body[k]) \in Int
      BY DEF LevelAfter
    <3> HIDE DEF f
    <3> QED
      BY <3>1, <3>2, <3>3, <3>4
  <2>3. CASE i = n + 2
    <3>1. f[n + 2] = 0 /\ f[(n + 2) - 1] = d[n] + 1
      <4>1. (n + 2) - 1 = n + 1 /\ (n + 1) - 1 = n
        OBVIOUS
      <4>2. n + 1 \in 1 .. n + 1 /\ n + 1 \in 0 .. n + 2 /\ n + 2 \in 0 .. n + 2 /\ n + 2 \notin 1 .. n + 1
        OBVIOUS
      <4> QED
        BY <4>1, <4>2
    <3> HIDE DEF f
    <3> QED
      BY <1>3, <1>4, <1>8, <2>3, <3>1
  <2> QED
    BY <2>1, <2>2, <2>3
<1> HIDE DEF f
<1>11. Depths(s, f)
  BY <1>4, <1>9, <1>10 DEF Depths
<1> QED
  BY <1>2, <1>11 DEF f, NodeDepths

\* It is properly nested itself.
LEMMA NestedNode ==
  ASSUME NEW name, NEW body, Nested(body)
  PROVE  Nested(Node(name, body))
<1>1. IsCalls(body) /\ IsCalls(Node(name, body))
  BY NodeIs DEF Nested, IsNode
<1>2. PICK d : Depths(body, d)
  BY DEF Nested
<1>3. Depths(Node(name, body), NodeDepths(d, Len(body)))
  BY <1>1, <1>2, DepthsNode
<1> QED
  BY <1>1, <1>3 DEF Nested

\* A property with one number, or with any value.
LEMMA NestedProp ==
  ASSUME NEW name, NEW value
  PROVE  Nested(Set(name, value))
<1>1. LevelAfter([op |-> "prop", name |-> name, value |-> value]) = 0
  BY DEF LevelAfter
<1> QED
  BY <1>1, NestedOne DEF Set

\* Properties of each kind.
LEMMA NestedProps ==
  ASSUME NEW name, NEW data
  PROVE  /\ Nested(U32(name, data)) /\ Nested(U64(name, data))
         /\ Nested(StrList(name, data)) /\ Nested(Str(name, data))
         /\ Nested(Flag(name)) /\ Nested(Reg2(name, data))
  BY NestedProp DEF U32, U64, StrList, Str, Flag, Reg2

\* A number of the command line that fits, or the exception.
LEMMA NestedPacked ==
  ASSUME NEW n, NEW max, NEW calls, Nested(calls)
  PROVE  Nested(Packed(n, max, calls))
<1>1. LevelAfter(Fail) = 0
  BY DEF LevelAfter, Fail
<1> QED
  BY <1>1, NestedOne DEF Packed

\* All the calls of build_minimal_dtb, whatever the options.
LEMMA CallsNested ==
  ASSUME NEW o
  PROVE  Nested(Calls(o))
<1> USE NestedNone, NestedJoin, NestedNode, NestedProps, NestedPacked
<1>1. Nested(CpuNode)
  BY DEF CpuNode
<1>2. Nested(CpusNode(o))
  BY <1>1 DEF CpusNode
<1>3. Nested(<<Fail>>)
  <2>1. LevelAfter(Fail) = 0
    BY DEF LevelAfter, Fail
  <2> QED
    BY <2>1, NestedOne
<1>4. Nested(InitrdProps(o))
  BY <1>3 DEF InitrdProps
<1>5. Nested(ChosenNode(o))
  BY <1>4, Zenon DEF ChosenNode
<1>6. Nested(SerialNode) /\ Nested(ClintNode)
  <2>1. Nested(SerialNode)
    BY DEF SerialNode
  <2>2. Nested(ClintNode)
    BY Zenon DEF ClintNode
  <2> QED
    BY <2>1, <2>2
<1>7. Nested(PlicNode)
  <2>1. Nested(U32("phandle", <<3>>) \o U32("riscv,ndev", <<95>>) \o Reg2("reg", "plic")
               \o U32("interrupts-extended", <<2, 11, 2, 9>>))
    BY Zenon
  <2>2. Nested(U32("phandle", <<3>>) \o U32("riscv,ndev", <<95>>) \o Reg2("reg", "plic")
               \o U32("interrupts-extended", <<2, 11, 2, 9>>) \o Flag("interrupt-controller")
               \o StrList("compatible", <<"sifive,plic-1.0.0", "riscv,plic0">>))
    BY <2>1, Zenon
  <2> QED
    BY <2>2, Zenon DEF PlicNode
<1>8. Nested(VirtioNode(o))
  BY Zenon DEF VirtioNode
<1> QED
  BY <1>2, <1>5, <1>6, <1>7, <1>8 DEF Calls

-----------------------------------------------------------------------------
\* What the dump prints.  Each call of the builder leads from one place of the
\* structure block to the next, and the reader goes the same way.

GoodCall(c) ==
  /\ c.op \in {"begin", "prop"} => c.name \in Texts
  /\ c.op = "prop" => /\ c.value = Value(c.value.len, c.value.nums, c.value.texts)
                      /\ c.value.len \in Nat
                      /\ c.value.len = 0 => c.value = Value(0, <<>>, <<>>)
GoodCalls(calls) == Nested(calls) /\ \A i \in 1 .. Len(calls) : GoodCall(calls[i])

\* A call has been written from p to q.
Written(c, p, q) ==
  \/ /\ c.op = "begin"
     /\ p \in DOMAIN struct /\ struct[p] = Token(BEGIN_NODE)
     /\ p + 4 \in DOMAIN struct /\ struct[p + 4] = Text(c.name)
     /\ q = p + 4 + Padded(Bytes(c.name) + 1)
  \/ /\ c.op = "end"
     /\ p \in DOMAIN struct /\ struct[p] = Token(END_NODE)
     /\ q = p + 4
  \/ /\ c.op = "prop"
     /\ p \in DOMAIN struct /\ struct[p] = Token(PROP)
     /\ p + 4 \in DOMAIN struct /\ struct[p + 4] = Word(c.value.len)
     /\ \E off \in DOMAIN strtab :
          /\ p + 8 \in DOMAIN struct /\ struct[p + 8] = Word(off)
          /\ strtab[off] = Text(c.name)
     /\ c.value.len # 0 => p + 12 \in DOMAIN struct /\ struct[p + 12] = c.value
     /\ q = p + 12 + Padded(c.value.len)

Chain(calls, at, n) ==
  /\ at \in [1 .. n -> Nat] /\ at[1] = 0
  /\ \A i \in 1 .. n - 1 : Written(calls[i], at[i], at[i + 1])

\* The reader stands before call i.
ReadUpTo(calls, i) ==
  /\ depth = Level(calls, i)
  /\ lines = Beginning(Lines(calls), Rank(calls, i - 1))

Writing(calls) == \E at : Chain(calls, at, next) /\ at[next] = structLen

Reading(calls) ==
  \E at, i :
    /\ Chain(calls, at, Len(calls) + 1)
    /\ at[Len(calls) + 1] \in DOMAIN struct /\ struct[at[Len(calls) + 1]] = Token(END)
    /\ i \in 1 .. Len(calls) + 1 /\ pos = Base + at[i]
    /\ ReadUpTo(calls, i)

Progress(calls) ==
  /\ next \in 1 .. Len(calls) + 1
  /\ pos \in Nat
  /\ mode \in {"building", "raised", "reading", "done"}
  /\ mode \in {"building", "raised"} => ReadUpTo(calls, 1)
  /\ mode = "building" => Writing(calls)
  /\ mode = "reading" => Reading(calls)
  /\ mode = "done" => ReadUpTo(calls, Len(calls) + 1)

TreeInv == Inputs /\ Progress(Calls(options))

\* What the blocks hold they keep.
Kept ==
  /\ \A p \in DOMAIN struct : p \in DOMAIN struct' /\ struct'[p] = struct[p]
  /\ \A p \in DOMAIN strtab : p \in DOMAIN strtab' /\ strtab'[p] = strtab[p]

\* A call stays written.
LEMMA WrittenStays ==
  ASSUME Kept, NEW c, NEW p, NEW q, Written(c, p, q)
  PROVE  Written(c, p, q)'
<1>1. CASE c.op = "prop"
  <2>1. PICK off \in DOMAIN strtab : p + 8 \in DOMAIN struct /\ struct[p + 8] = Word(off)
                                     /\ strtab[off] = Text(c.name)
    BY <1>1 DEF Written
  <2>2. off \in DOMAIN strtab' /\ strtab'[off] = Text(c.name)
        /\ p + 8 \in DOMAIN struct' /\ struct'[p + 8] = Word(off)
    BY <2>1 DEF Kept
  <2>3. /\ p \in DOMAIN struct' /\ struct'[p] = Token(PROP)
        /\ p + 4 \in DOMAIN struct' /\ struct'[p + 4] = Word(c.value.len)
        /\ c.value.len # 0 => p + 12 \in DOMAIN struct' /\ struct'[p + 12] = c.value
        /\ q = p + 12 + Padded(c.value.len)
    BY <1>1 DEF Written, Kept
  <2> QED
    BY <1>1, <2>2, <2>3 DEF Written
<1>2. CASE c.op = "begin"
  BY <1>2 DEF Written, Kept
<1>3. CASE c.op = "end"
  BY <1>3 DEF Written, Kept
<1> QED
  BY <1>1, <1>2, <1>3 DEF Written

\* So does a chain of them.
LEMMA ChainStays ==
  ASSUME Kept, NEW calls, NEW at, NEW n, Chain(calls, at, n)
  PROVE  Chain(calls, at, n)'
<1>1. ASSUME NEW i \in 1 .. n - 1 PROVE Written(calls[i], at[i], at[i + 1])'
  BY WrittenStays DEF Chain
<1> QED
  BY <1>1 DEF Chain

\* The builder method of a call.
Method(c) ==
  \/ c.op = "begin" /\ BeginNode(c.name)
  \/ c.op = "end" /\ EndNode
  \/ c.op = "prop" /\ Prop(c.name, c.value)

\* begin_node, end_node and prop write their call at the end of the block.
LEMMA MethodWrites ==
  ASSUME DtbInv, DtbInv', NEW c, GoodCall(c), Method(c),
         NEW p, p = structLen, NEW q, q = structLen'
  PROVE  Kept /\ Written(c, p, q)' /\ q \in Nat
<1>1. /\ p \in Nat /\ q \in Nat
      /\ p \notin DOMAIN struct /\ p + 4 \notin DOMAIN struct
      /\ p + 8 \notin DOMAIN struct /\ p + 12 \notin DOMAIN struct
  BY DEF DtbInv, LayoutInv
<1>2. p + 4 # p /\ p + 8 # p /\ p + 12 # p /\ p + 8 # p + 4 /\ p + 12 # p + 4 /\ p + 12 # p + 8
  BY <1>1
<1>3. CASE c.op = "begin" /\ BeginNode(c.name)
  <2>1. /\ DOMAIN struct' = DOMAIN struct \cup {p, p + 4}
        /\ struct'[p] = Token(BEGIN_NODE) /\ struct'[p + 4] = Text(c.name)
        /\ \A r \in DOMAIN struct : struct'[r] = struct[r]
    BY <1>1, <1>2, <1>3 DEF BeginNode, With
  <2>2. strtab' = strtab /\ q = p + 4 + Padded(Bytes(c.name) + 1)
    BY <1>3 DEF BeginNode
  <2> QED
    BY <1>1, <1>3, <2>1, <2>2 DEF Kept, Written
<1>4. CASE c.op = "end" /\ EndNode
  <2>1. /\ DOMAIN struct' = DOMAIN struct \cup {p}
        /\ struct'[p] = Token(END_NODE)
        /\ \A r \in DOMAIN struct : struct'[r] = struct[r]
    BY <1>1, <1>4 DEF EndNode, With
  <2>2. strtab' = strtab /\ q = p + 4
    BY <1>4 DEF EndNode
  <2> QED
    BY <1>1, <1>4, <2>1, <2>2 DEF Kept, Written
<1>5. CASE c.op = "prop" /\ Prop(c.name, c.value)
  <2> PICK name : name = c.name
    OBVIOUS
  <2> PICK value : value = c.value
    OBVIOUS
  <2> PICK off : off = StrOff(name)
    OBVIOUS
  <2>1. name \in Texts /\ value.len \in Nat /\ AddString(name)
    BY <1>5 DEF GoodCall, Prop
  <2>2. name \in DOMAIN strings' /\ strings'[name] = off
    BY <2>1 DEF AddString, With, StrOff
  <2>3. off \in DOMAIN strtab' /\ strtab'[off] = Text(name)
    BY <2>2 DEF DtbInv, StringsInv, StringTableSound
  <2>4. strtabLen \notin DOMAIN strtab
    BY DEF DtbInv, StringsInv
  <2>5. \A r \in DOMAIN strtab : r \in DOMAIN strtab' /\ strtab'[r] = strtab[r]
    BY <2>1, <2>4 DEF AddString, With
  <2>6. /\ DOMAIN PropHead(name, value) = DOMAIN struct \cup {p, p + 4, p + 8}
        /\ PropHead(name, value)[p] = Token(PROP)
        /\ PropHead(name, value)[p + 4] = Word(value.len)
        /\ PropHead(name, value)[p + 8] = Word(off)
        /\ \A r \in DOMAIN struct : PropHead(name, value)[r] = struct[r]
    BY <1>1, <1>2 DEF PropHead, With
  <2>7. /\ p \in DOMAIN struct' /\ struct'[p] = Token(PROP)
        /\ p + 4 \in DOMAIN struct' /\ struct'[p + 4] = Word(value.len)
        /\ p + 8 \in DOMAIN struct' /\ struct'[p + 8] = Word(off)
        /\ value.len # 0 => p + 12 \in DOMAIN struct' /\ struct'[p + 12] = value
        /\ \A r \in DOMAIN struct : r \in DOMAIN struct' /\ struct'[r] = struct[r]
    <3>1. CASE value.len = 0
      <4>1. struct' = PropHead(name, value)
        BY <1>5, <3>1 DEF Prop
      <4> QED
        BY <2>6, <3>1, <4>1
    <3>2. CASE value.len # 0
      <4>1. struct' = With(PropHead(name, value), p + 12, value)
        BY <1>5, <3>2 DEF Prop
      <4>2. /\ DOMAIN struct' = DOMAIN PropHead(name, value) \cup {p + 12}
            /\ struct'[p + 12] = value
            /\ \A r \in DOMAIN PropHead(name, value) :
                  r # p + 12 => struct'[r] = PropHead(name, value)[r]
        BY <4>1 DEF With
      <4> QED
        BY <1>1, <1>2, <2>6, <4>2
    <3> QED
      BY <3>1, <3>2
  <2>8. q = p + 12 + Padded(value.len)
    BY <1>5 DEF Prop
  <2> QED
    BY <1>1, <1>5, <2>3, <2>5, <2>7, <2>8 DEF Kept, Written
<1> QED
  BY <1>3, <1>4, <1>5 DEF Method

\* A call of the builder makes the chain longer by one.
LEMMA CallExtends ==
  ASSUME DtbInv, DtbInv', NEW calls, GoodCalls(calls), NEW i \in 1 .. Len(calls),
         next = i, next' = i + 1, Writing(calls), Method(calls[i])
  PROVE  Writing(calls)'
<1>1. i \in Nat \ {0}
  BY ToldFinite DEF GoodCalls, Nested
<1>2. PICK at : Chain(calls, at, i) /\ at[i] = structLen
  BY DEF Writing
<1> PICK q : q = structLen'
  OBVIOUS
<1> PICK p : p = structLen
  OBVIOUS
<1>3. Kept /\ Written(calls[i], p, q)' /\ q \in Nat
  BY MethodWrites DEF GoodCalls
<1> DEFINE new == [k \in 1 .. i + 1 |-> IF k = i + 1 THEN q ELSE at[k]]
<1>4. Chain(calls, at, i)'
  BY <1>2, <1>3, ChainStays
<1>5. at \in [1 .. i -> Nat] /\ at[1] = 0 /\ (\A k \in 1 .. i - 1 : Written(calls[k], at[k], at[k + 1])')
  BY <1>4 DEF Chain
<1>6. new \in [1 .. i + 1 -> Nat] /\ new[1] = 0 /\ new[i + 1] = q /\ \A k \in 1 .. i : new[k] = at[k]
  BY <1>1, <1>3, <1>5
<1> HIDE DEF new
<1>7. ASSUME NEW k \in 1 .. (i + 1) - 1 PROVE Written(calls[k], new[k], new[k + 1])'
  <2>1. CASE k = i
    <3>1. new[k] = p /\ new[k + 1] = q
      BY <1>1, <1>2, <1>6, <2>1
    <3> QED
      BY <1>3, <2>1, <3>1
  <2>2. CASE k # i
    <3>1. k \in 1 .. i - 1 /\ k \in 1 .. i /\ k + 1 \in 1 .. i
      BY <1>1, <2>2
    <3>2. new[k] = at[k] /\ new[k + 1] = at[k + 1]
      BY <1>6, <3>1
    <3> QED
      BY <1>5, <3>1, <3>2
  <2> QED
    BY <2>1, <2>2
<1>8. Chain(calls, new, i + 1)'
  BY <1>6, <1>7 DEF Chain
<1> QED
  BY <1>6, <1>8 DEF Writing

\* build ends the chain with its last token, and dump_dtb starts at its head.
LEMMA BuildEnds ==
  ASSUME DtbInv, DtbInv', NEW calls, GoodCalls(calls),
         next = Len(calls) + 1, Writing(calls), ReadUpTo(calls, 1), Build
  PROVE  Reading(calls)'
<1> PICK n \in Nat : n = Len(calls) + 1
  BY ToldFinite DEF GoodCalls, Nested
<1>1. PICK at : Chain(calls, at, n) /\ at[n] = structLen
  BY DEF Writing
<1> PICK p : p = structLen
  OBVIOUS
<1>2. p \in Nat /\ p \notin DOMAIN struct
  BY DEF DtbInv, LayoutInv
<1>3. /\ p \in DOMAIN struct' /\ struct'[p] = Token(END)
      /\ \A r \in DOMAIN struct : r \in DOMAIN struct' /\ struct'[r] = struct[r]
      /\ strtab' = strtab
  BY <1>2 DEF Build, With
<1>4. Chain(calls, at, n)'
  BY <1>1, <1>3, ChainStays DEF Kept
<1>5. pos' = Base + at[1] /\ depth' = depth /\ lines' = lines
  <2>1. pos' = Base
    BY DEF Build, Header, Base
  <2>2. at[1] = 0 /\ Base + 0 = Base
    BY <1>1 DEF Chain, Base, HdrSize, RsvSize
  <2>3. depth' = depth /\ lines' = lines
    BY DEF Build
  <2> QED
    BY <2>1, <2>2, <2>3
<1>6. ReadUpTo(calls, 1)'
  BY <1>5 DEF ReadUpTo
<1>7. 1 \in 1 .. n
  BY ToldFinite DEF GoodCalls, Nested
<1> QED
  BY <1>1, <1>3, <1>4, <1>5, <1>6, <1>7 DEF Reading

\* A turn of the reader's loop goes from one call to the next.
Turn(calls, at, i) ==
  /\ pos' = Base + at[i + 1] /\ mode' = mode
  /\ depth' = depth + LevelAfter(calls[i])
  /\ lines' = IF calls[i].op = "end" THEN lines ELSE Append(lines, LineOf(calls, i))

\* Then it has read one call more.
LEMMA TurnReads ==
  ASSUME NEW calls, GoodCalls(calls), NEW at, Chain(calls, at, Len(calls) + 1),
         at[Len(calls) + 1] \in DOMAIN struct, struct[at[Len(calls) + 1]] = Token(END),
         NEW i \in 1 .. Len(calls), ReadUpTo(calls, i), Turn(calls, at, i),
         UNCHANGED <<struct, strtab>>
  PROVE  Reading(calls)'
<1>1. /\ IsCalls(calls) /\ Len(calls) \in Nat /\ i \in Nat \ {0} /\ (i + 1) - 1 = i /\ (i - 1) + 1 = i
      /\ DOMAIN calls = 1 .. Len(calls)
  BY ToldFinite DEF GoodCalls, Nested
<1>2. Kept
  BY DEF Kept
<1>3. Chain(calls, at, Len(calls) + 1)'
  BY <1>2, ChainStays
<1>4. depth' = Level(calls, i + 1)
  BY <1>1, LevelStep DEF ReadUpTo, Turn
<1>5. i \in Told(calls) <=> calls[i].op # "end"
  BY <1>1 DEF Told
<1> PICK n \in Nat : n = Rank(calls, i - 1)
  BY <1>1, RankStep
<1>6. Rank(calls, i) = n + (IF i \in Told(calls) THEN 1 ELSE 0)
  BY <1>1, RankStep
<1>7. lines' = Beginning(Lines(calls), Rank(calls, i))
  <2>1. CASE i \in Told(calls)
    <3>1. LineOf(calls, i) = Lines(calls)[n + 1]
      BY <1>1, <1>6, <2>1, LineFound
    <3>2. lines' = Append(Beginning(Lines(calls), n), Lines(calls)[n + 1])
      BY <1>5, <2>1, <3>1 DEF Turn, ReadUpTo
    <3> QED
      BY <1>6, <2>1, <3>2, OneMore
  <2>2. CASE i \notin Told(calls)
    BY <1>5, <1>6, <2>2 DEF Turn, ReadUpTo
  <2> QED
    BY <2>1, <2>2
<1>8. ReadUpTo(calls, i + 1)'
  BY <1>1, <1>4, <1>7 DEF ReadUpTo
<1>9. i + 1 \in 1 .. Len(calls) + 1
  BY <1>1
<1>10. pos' = Base + at[i + 1]
  BY DEF Turn
<1> QED
  BY <1>3, <1>8, <1>9, <1>10 DEF Reading

\* Place b + p of the file is place p of the block at b, and what follows the
\* header of an item is aligned.
PlacesAt(b, p) ==
  /\ (b + p) + 4 = b + (p + 4) /\ (b + p) + 8 = b + (p + 8) /\ (b + p) + 12 = b + (p + 12)
  /\ (b + p) + 4 \in Nat /\ ((b + p) + 4) % 4 = 0
  /\ (b + p) + 12 \in Nat /\ ((b + p) + 12) % 4 = 0

\* Sums of places.
LEMMA Places ==
  ASSUME NEW b \in Nat, NEW p \in Nat, (b + p) % 4 = 0
  PROVE  PlacesAt(b, p)
  BY DEF PlacesAt

PlacesPast(b, p, m) ==
  /\ (b + (p + 4)) + m = b + (p + 4 + m)
  /\ (b + (p + 12)) + m = b + (p + 12 + m)

\* Sums of places and lengths.
LEMMA Past ==
  ASSUME NEW b \in Nat, NEW p \in Nat, NEW m \in Nat
  PROVE  PlacesPast(b, p, m)
  BY DEF PlacesPast

\* What the reader finds at a token it is at.
LEMMA AtToken ==
  ASSUME DtbInv, NEW p, p \in DOMAIN struct, NEW n, struct[p] = Token(n),
         mode = "reading", pos = Base + p
  PROVE  /\ p \in Nat /\ p % 4 = 0 /\ pos \in Nat /\ pos % 4 = 0 /\ Base \in Nat
         /\ PlacesAt(Base, p)
         /\ InBlock
         /\ Data(pos).kind = "token" /\ At(pos) = n
<1>1. struct[p].kind = "token" /\ struct[p].nums[1] = n
  BY DEF Token, Item
<1>2. p \in Nat /\ p < structLen /\ p % 4 = 0 /\ structLen \in Nat
  BY <1>1 DEF DtbInv, LayoutInv, Tokens, Well
<1>3. Base \in Nat /\ Base % 4 = 0
  BY DEF Base, HdrSize, RsvSize
<1>4. pos \in Nat /\ pos % 4 = 0 /\ PlacesAt(Base, p)
  BY <1>2, <1>3, AlignedSum, Places
<1>5. InBlock
  <2>1. header.offStruct + header.sizeStruct = Base + structLen
    BY DEF DtbInv, ReaderInv
  <2>2. Base + p < Base + structLen
    BY <1>2, <1>3
  <2> QED
    BY <2>1, <2>2 DEF InBlock
<1>6. Data(pos) = struct[p]
  BY BlocksFound DEF DtbInv
<1> QED
  BY <1>1, <1>2, <1>3, <1>4, <1>5, <1>6 DEF At

\* The reader prints the line of the call whose token it is at.
LEMMA TokenTurns ==
  ASSUME DtbInv, mode = "reading", ReadToken,
         NEW calls, GoodCalls(calls), NEW at, NEW i \in 1 .. Len(calls),
         pos = Base + at[i], Written(calls[i], at[i], at[i + 1]), ReadUpTo(calls, i)
  PROVE  Turn(calls, at, i)
<1> PICK c : c = calls[i]
  OBVIOUS
<1> PICK p : p = at[i]
  OBVIOUS
<1> PICK q : q = at[i + 1]
  OBVIOUS
<1>1. GoodCall(c) /\ Written(c, p, q) /\ depth = Level(calls, i)
  BY DEF GoodCalls, ReadUpTo
<1>2. CASE c.op = "begin"
  <2>1. /\ p \in DOMAIN struct /\ struct[p] = Token(BEGIN_NODE)
        /\ p + 4 \in DOMAIN struct /\ struct[p + 4] = Text(c.name)
        /\ q = p + 4 + Padded(Bytes(c.name) + 1)
    BY <1>1, <1>2 DEF Written
  <2>2. /\ p \in Nat /\ pos \in Nat /\ pos % 4 = 0 /\ Base \in Nat /\ InBlock
        /\ PlacesAt(Base, p)
        /\ Data(pos).kind = "token" /\ At(pos) = BEGIN_NODE
    BY <2>1, AtToken
  <2>3. pos + 4 = Base + (p + 4) /\ pos + 4 \in Nat /\ (pos + 4) % 4 = 0
    <3>1. pos = Base + p
      OBVIOUS
    <3> QED
      BY <2>2, <3>1, Zenon DEF PlacesAt
  <2>4. Data(pos + 4) = Text(c.name)
    BY <2>1, <2>3, BlocksFound DEF DtbInv
  <2>5. c.name \in Texts
    BY <1>1, <1>2 DEF GoodCall
  <2>6. Data(pos + 4).kind = "text" /\ Data(pos + 4).texts[1] = c.name
        /\ Data(pos + 4).len = Bytes(c.name) + 1 /\ Bytes(c.name) + 1 \in Nat
    BY <2>4, <2>5, BytesAssumption DEF Text, Item
  <2>7. ReadBegin
    <3>1. Readable(pos)
      BY <2>2, <2>6 DEF Readable, BEGIN_NODE, PROP
    <3> QED
      BY <2>2, <3>1 DEF ReadToken, BEGIN_NODE, END_NODE, PROP, END
  <2>8. pos' = RoundUp((pos + 4) + (Bytes(c.name) + 1))
    BY <2>6, <2>7 DEF ReadBegin
  <2>9. pos' = Base + q
    <3> PICK len \in Nat : len = Bytes(c.name) + 1
      BY <2>6
    <3>1. pos' = (pos + 4) + Padded(len) /\ Padded(len) \in Nat
      BY <2>3, <2>8, RoundingAgrees, PaddedFacts
    <3>2. q = p + 4 + Padded(len)
      BY <2>1
    <3>3. PlacesPast(Base, p, Padded(len))
      BY <2>2, <3>1, Past
    <3> QED
      BY <2>3, <3>1, <3>2, <3>3, Zenon DEF PlacesPast
  <2>10. depth' = depth + 1 /\ lines' = Append(lines, NodeLine(depth, c.name)) /\ mode' = mode
    BY <2>6, <2>7 DEF ReadBegin
  <2> QED
    BY <1>1, <1>2, <2>9, <2>10 DEF Turn, LevelAfter, LineOf
<1>3. CASE c.op = "end"
  <2>1. p \in DOMAIN struct /\ struct[p] = Token(END_NODE) /\ q = p + 4
    BY <1>1, <1>3 DEF Written
  <2>2. /\ p \in Nat /\ pos \in Nat /\ Base \in Nat /\ InBlock
        /\ Data(pos).kind = "token" /\ At(pos) = END_NODE
    BY <2>1, AtToken
  <2>3. ReadEnd
    BY <2>2 DEF ReadToken, Readable, BEGIN_NODE, END_NODE, PROP, END
  <2>4. pos' = Base + q
    <3>1. pos' = pos + 4 /\ pos = Base + p
      BY <2>3 DEF ReadEnd
    <3>2. p \in Nat /\ Base \in Nat /\ q = p + 4
      BY <2>1, <2>2
    <3> QED
      BY <3>1, <3>2
  <2>5. depth' = depth + (-1)
    <3>1. depth \in Int
      <4>1. i \in Nat \ {0}
        BY ToldFinite DEF GoodCalls, Nested
      <4> QED
        BY <1>1, <4>1, LevelStep
    <3> QED
      BY <2>3, <3>1 DEF ReadEnd
  <2> QED
    BY <1>3, <2>3, <2>4, <2>5 DEF Turn, LevelAfter, ReadEnd
<1>4. CASE c.op = "prop"
  <2> PICK n : n = c.value.len
    OBVIOUS
  <2>1. /\ c.name \in Texts /\ n \in Nat /\ c.value.kind = "value"
        /\ n = 0 => c.value = Value(0, <<>>, <<>>)
    BY <1>1, <1>4 DEF GoodCall, Value, Item
  <2>2. /\ p \in DOMAIN struct /\ struct[p] = Token(PROP)
        /\ p + 4 \in DOMAIN struct /\ struct[p + 4] = Word(n)
        /\ n # 0 => p + 12 \in DOMAIN struct /\ struct[p + 12] = c.value
        /\ q = p + 12 + Padded(n)
    BY <1>1, <1>4 DEF Written
  <2>3. PICK off \in DOMAIN strtab :
          p + 8 \in DOMAIN struct /\ struct[p + 8] = Word(off) /\ strtab[off] = Text(c.name)
    BY <1>1, <1>4 DEF Written
  <2>4. /\ p \in Nat /\ pos \in Nat /\ pos % 4 = 0 /\ Base \in Nat /\ InBlock
        /\ PlacesAt(Base, p)
        /\ Data(pos).kind = "token" /\ At(pos) = PROP
    BY <2>2, AtToken
  <2>5. /\ pos + 4 = Base + (p + 4) /\ pos + 8 = Base + (p + 8) /\ pos + 12 = Base + (p + 12)
        /\ pos + 12 \in Nat /\ (pos + 12) % 4 = 0
    <3>1. pos = Base + p
      OBVIOUS
    <3> QED
      BY <2>4, <3>1, Zenon DEF PlacesAt
  <2>6. Data(pos + 4) = Word(n) /\ Data(pos + 8) = Word(off)
    BY <2>2, <2>3, <2>5, BlocksFound DEF DtbInv
  <2>7. /\ IsWord(pos + 4) /\ IsWord(pos + 8)
        /\ At(pos + 4) = n /\ At(pos + 8) = off
    BY <2>6 DEF IsWord, At, Word, Item
  <2>8. NameOf(pos) = Text(c.name)
    <3>1. header.offStrings = Base + structLen
      BY DEF DtbInv, ReaderInv
    <3> QED
      BY <2>3, <2>7, <3>1, BlocksFound DEF NameOf, DtbInv
  <2>9. ValueOf(pos) = c.value
    <3>1. CASE n = 0
      BY <2>1, <2>7, <3>1 DEF ValueOf
    <3>2. CASE n # 0
      <4>1. Data(pos + 12) = c.value
        BY <2>2, <2>5, <3>2, BlocksFound DEF DtbInv
      <4> QED
        BY <2>7, <3>2, <4>1 DEF ValueOf
    <3> QED
      BY <3>1, <3>2
  <2>10. NameOf(pos).kind = "text" /\ NameOf(pos).texts[1] = c.name
    BY <2>8 DEF Text, Item
  <2>11. ReadProp
    <3>1. ValueOf(pos).kind = "value" /\ ValueOf(pos).len = At(pos + 4)
      BY <2>1, <2>7, <2>9
    <3>2. At(pos) # BEGIN_NODE
      BY <2>4 DEF BEGIN_NODE, PROP
    <3>3. Readable(pos)
      BY <2>4, <2>7, <2>10, <3>1, <3>2 DEF Readable
    <3> QED
      BY <2>4, <3>3 DEF ReadToken, BEGIN_NODE, END_NODE, PROP, END
  <2>12. pos' = RoundUp((pos + 12) + n)
    BY <2>7, <2>11 DEF ReadProp
  <2>13. pos' = Base + q
    <3>1. pos' = (pos + 12) + Padded(n) /\ Padded(n) \in Nat
      BY <2>1, <2>5, <2>12, RoundingAgrees, PaddedFacts
    <3>2. PlacesPast(Base, p, Padded(n))
      BY <2>4, <3>1, Past
    <3> QED
      BY <2>2, <2>5, <3>1, <3>2, Zenon DEF PlacesPast
  <2>14. depth' = depth /\ lines' = Append(lines, PropLine(depth, c.name, c.value)) /\ mode' = mode
    BY <2>9, <2>10, <2>11 DEF ReadProp
  <2>15. depth' = depth + 0
    <3>1. depth \in Int
      <4>1. i \in Nat \ {0}
        BY ToldFinite DEF GoodCalls, Nested
      <4> QED
        BY <1>1, <4>1, LevelStep
    <3> QED
      BY <2>14, <3>1
  <2> QED
    BY <1>1, <1>4, <2>13, <2>14, <2>15 DEF Turn, LevelAfter, LineOf
<1> QED
  BY <1>1, <1>2, <1>3, <1>4 DEF Written

\* A turn of the reader's loop, at a call or at the last token.
LEMMA DumpReads ==
  ASSUME DtbInv, NEW calls, GoodCalls(calls), Reading(calls), Dump
  PROVE  \/ mode' = "reading" /\ Reading(calls)'
         \/ mode' = "done" /\ ReadUpTo(calls, Len(calls) + 1)'
<1>1. PICK at, i :
        /\ Chain(calls, at, Len(calls) + 1)
        /\ at[Len(calls) + 1] \in DOMAIN struct /\ struct[at[Len(calls) + 1]] = Token(END)
        /\ i \in 1 .. Len(calls) + 1 /\ pos = Base + at[i]
        /\ ReadUpTo(calls, i)
  BY DEF Reading
<1>2. mode = "reading" /\ ReadToken /\ UNCHANGED <<struct, strtab>>
  BY DEF Dump, builderVars
<1>3. Len(calls) \in Nat
  BY ToldFinite DEF GoodCalls, Nested
<1>4. CASE i = Len(calls) + 1
  <2>1. InBlock /\ Data(pos).kind = "token" /\ At(pos) = END
    BY <1>1, <1>2, <1>4, AtToken
  <2>2. Stop("done")
    BY <1>2, <2>1 DEF ReadToken, Readable, BEGIN_NODE, END_NODE, PROP, END
  <2> QED
    BY <1>1, <1>4, <2>2 DEF Stop, readerVars, ReadUpTo
<1>5. CASE i # Len(calls) + 1
  <2>1. i \in 1 .. Len(calls)
    BY <1>1, <1>3, <1>5
  <2>2. Written(calls[i], at[i], at[i + 1])
    <3>1. i \in 1 .. (Len(calls) + 1) - 1
      BY <1>3, <2>1
    <3> QED
      BY <1>1, <3>1 DEF Chain
  <2>3. Turn(calls, at, i)
    BY <1>1, <1>2, <2>1, <2>2, TokenTurns
  <2>4. Reading(calls)'
    BY <1>1, <1>2, <2>1, <2>3, TurnReads
  <2> QED
    BY <1>2, <2>3, <2>4 DEF Turn
<1> QED
  BY <1>4, <1>5

\* The calls of build_minimal_dtb are good, whatever the options.
LEMMA InputsGood ==
  ASSUME NEW o \in CommandLines
  PROVE  GoodCalls(Calls(o))
<1> PICK calls : calls = Calls(o)
  OBVIOUS
<1> HIDE DEF Calls
<1>1. Nested(calls)
  BY CallsNested
<1>2. DOMAIN calls = 1 .. Len(calls)
  BY <1>1, ToldFinite DEF Nested
<1>3. ASSUME NEW i \in 1 .. Len(calls) PROVE GoodCall(calls[i])
  <2>1. i \in DOMAIN calls
    BY <1>2
  <2>2. LET c == Calls(o)[i] IN
          /\ c.op \in {"begin", "prop"} => c.name \in Texts
          /\ c.op = "prop" => /\ c.value = Value(c.value.len, c.value.nums, c.value.texts)
                              /\ c.value.len \in Nat
                              /\ c.value.len = 0 => c.value = Value(0, <<>>, <<>>)
    BY <2>1, TextsAssumption
  <2> QED
    BY <2>2 DEF GoodCall
<1> QED
  BY <1>1, <1>3 DEF GoodCalls

\* At first nothing is written, read or printed.
LEMMA InitProgress ==
  ASSUME Init
  PROVE  TreeInv
<1> PICK calls : calls = Calls(options)
  OBVIOUS
<1> HIDE DEF Calls
<1>1. options \in CommandLines
  BY DEF Init
<1>2. IsCalls(calls) /\ Len(calls) \in Nat
  BY <1>1, InputsGood, ToldFinite DEF GoodCalls, Nested
<1>3. /\ next = 1 /\ mode = "building" /\ pos = 0 /\ depth = 0 /\ lines = <<>> /\ structLen = 0
  BY DEF Init, DtbInit
<1>4. Writing(calls)
  <2> DEFINE at == [i \in 1 .. 1 |-> 0]
  <2>1. at \in [1 .. 1 -> Nat] /\ at[1] = 0
    OBVIOUS
  <2> HIDE DEF at
  <2>2. 1 .. 1 - 1 = {}
    OBVIOUS
  <2>3. Chain(calls, at, 1)
    BY <2>1, <2>2 DEF Chain
  <2> QED
    BY <1>3, <2>1, <2>3 DEF Writing
<1>5. ReadUpTo(calls, 1)
  <2>1. Rank(calls, 1 - 1) = 0
    BY <1>2, RankFirst
  <2>2. Beginning(Lines(calls), 0) = <<>>
    BY DEF Beginning
  <2>3. depth = Level(calls, 1)
    BY <1>3, LevelFirst
  <2> QED
    BY <1>3, <2>1, <2>2, <2>3 DEF ReadUpTo
<1>6. 1 \in 1 .. Len(calls) + 1
  BY <1>2
<1> QED
  BY <1>1, <1>3, <1>4, <1>5, <1>6 DEF TreeInv, Inputs, Progress

\* Every step keeps the two programs on the way.
LEMMA StepProgress ==
  ASSUME DtbInv, DtbInv', TreeInv, [Next]_vars
  PROVE  TreeInv'
<1> PICK calls : calls = Calls(options)
  OBVIOUS
<1> HIDE DEF Calls
<1>1. options \in CommandLines /\ options' = options
  BY DEF TreeInv, Inputs, Next, Call, WriteBlob, vars
<1>2. GoodCalls(calls) /\ Calls(options') = calls
  BY <1>1, InputsGood
<1>3. Len(calls) \in Nat /\ DOMAIN calls = 1 .. Len(calls)
  BY <1>2, ToldFinite DEF GoodCalls, Nested
<1>4. Progress(calls)
  BY DEF TreeInv
<1>5. SUFFICES Progress(calls)'
  <2>1. Calls(options)' = calls
    BY <1>2
  <2> QED
    BY <1>1, <2>1 DEF TreeInv, Inputs
<1>6. CASE Call
  <2>1. next \in 1 .. Len(calls) /\ next' = next + 1 /\ mode = "building"
    BY <1>3, <1>6 DEF Call
  <2> PICK i \in 1 .. Len(calls) : i = next
    BY <2>1
  <2>2. next' \in 1 .. Len(calls) + 1
    BY <1>3, <2>1
  <2>3. CASE Raise
    <3>1. mode' = "raised" /\ pos' = pos /\ depth' = depth /\ lines' = lines
      BY <2>3 DEF Raise, readerVars
    <3>2. ReadUpTo(calls, 1)'
      BY <1>4, <2>1, <3>1 DEF Progress, ReadUpTo
    <3> QED
      BY <1>4, <2>2, <3>1, <3>2 DEF Progress
  <2>4. CASE Method(calls[i]) /\ UNCHANGED <<header, mode, readerVars>>
    <3>1. mode' = "building" /\ pos' = pos /\ depth' = depth /\ lines' = lines
      BY <2>1, <2>4 DEF readerVars
    <3>2. ReadUpTo(calls, 1)'
      BY <1>4, <2>1, <3>1 DEF Progress, ReadUpTo
    <3>3. Writing(calls)'
      BY <1>2, <1>4, <2>1, <2>4, CallExtends DEF Progress
    <3> QED
      BY <1>4, <2>2, <3>1, <3>2, <3>3 DEF Progress
  <2>5. Raise \/ (Method(calls[i]) /\ UNCHANGED <<header, mode, readerVars>>)
    BY <1>6 DEF Call, Method
  <2> QED
    BY <2>3, <2>4, <2>5
<1>7. CASE WriteBlob
  <2>1. /\ mode = "building" /\ Build /\ next' = next /\ next \notin 1 .. Len(calls)
        /\ next \in 1 .. Len(calls) + 1
    BY <1>3, <1>4, <1>7 DEF WriteBlob, Build, Progress
  <2>2. next = Len(calls) + 1
    BY <1>3, <2>1
  <2>3. Writing(calls) /\ ReadUpTo(calls, 1)
    BY <1>4, <2>1 DEF Progress
  <2>4. Reading(calls)'
    BY <1>2, <2>1, <2>2, <2>3, BuildEnds
  <2>5. mode' = "reading" /\ pos' \in Nat
    BY <2>1 DEF Build, Header, HdrSize, RsvSize
  <2> QED
    BY <2>1, <2>4, <2>5 DEF Progress
<1>8. CASE Dump /\ UNCHANGED <<options, next>>
  <2>1. mode = "reading" /\ Reading(calls) /\ next' = next
    BY <1>4, <1>8 DEF Dump, Progress
  <2>2. CASE mode' = "reading" /\ Reading(calls)'
    <3>1. pos' \in Nat
      BY <2>2 DEF DtbInv, ReaderInv
    <3> QED
      BY <1>4, <2>1, <2>2, <3>1 DEF Progress
  <2>3. CASE mode' = "done" /\ ReadUpTo(calls, Len(calls) + 1)'
    <3>1. pos' \in Nat
      BY <1>4, <1>8, <2>3 DEF Dump, ReadToken, Stop, readerVars, ReadBegin, ReadEnd, ReadProp, SkipWord, Progress
    <3> QED
      BY <1>4, <2>1, <2>3, <3>1 DEF Progress
  <2>4. \/ mode' = "reading" /\ Reading(calls)'
        \/ mode' = "done" /\ ReadUpTo(calls, Len(calls) + 1)'
    BY <1>2, <1>8, <2>1, DumpReads
  <2> QED
    BY <2>2, <2>3, <2>4
<1>9. CASE UNCHANGED vars
  <2>1. /\ struct' = struct /\ structLen' = structLen /\ strtab' = strtab
        /\ mode' = mode /\ pos' = pos /\ depth' = depth /\ lines' = lines /\ next' = next
    BY <1>9 DEF vars, dtbVars, builderVars, readerVars
  <2>2. \A c, p, q : Written(c, p, q)' <=> Written(c, p, q)
    BY <2>1 DEF Written
  <2>3. \A at, n : Chain(calls, at, n)' <=> Chain(calls, at, n)
    BY <2>2 DEF Chain
  <2>4. \A i : ReadUpTo(calls, i)' <=> ReadUpTo(calls, i)
    BY <2>1 DEF ReadUpTo
  <2>5. Writing(calls)' <=> Writing(calls)
    BY <2>1, <2>3 DEF Writing
  <2>6. Reading(calls)' <=> Reading(calls)
    BY <2>1, <2>3, <2>4 DEF Reading
  <2> QED
    BY <1>4, <2>1, <2>4, <2>5, <2>6 DEF Progress
<1> QED
  BY <1>6, <1>7, <1>8, <1>9 DEF Next

\* The calls of the builder and the turns of the reader keep in step.
THEOREM TreeInvariance == Spec => [](DtbInv /\ TreeInv)
<1>1. Init => TreeInv
  BY InitProgress
<1>2. DtbInv /\ DtbInv' /\ TreeInv /\ [Next]_vars => TreeInv'
  BY StepProgress
<1>3. Spec => []DtbInv
  BY TreeIsAnyTree, Invariance, PTL
<1> QED
  BY <1>1, <1>2, <1>3, PTL DEF Spec

\* The dump is line for line what build_minimal_dtb described, whatever the
\* lengths of the texts, and whole with every node closed if it ends.
THEOREM ReadBackHolds == Spec => []ReadBack
<1>1. DtbInv /\ TreeInv => ReadBack
  <2> SUFFICES ASSUME DtbInv, TreeInv PROVE ReadBack
    OBVIOUS
  <2> PICK calls : calls = Calls(options)
    OBVIOUS
  <2> HIDE DEF Calls
  <2>1. options \in CommandLines /\ Progress(calls)
    BY DEF TreeInv, Inputs
  <2>2. GoodCalls(calls) /\ Nested(calls) /\ IsCalls(calls) /\ Len(calls) \in Nat
    BY <2>1, InputsGood, ToldFinite DEF GoodCalls, Nested
  <2>3. Listing[options] = Lines(calls)
    BY <2>1 DEF Listing
  <2>4. PICK i \in 1 .. Len(calls) + 1 : ReadUpTo(calls, i) /\ (mode = "done" => i = Len(calls) + 1)
    <3>1. 1 \in 1 .. Len(calls) + 1 /\ Len(calls) + 1 \in 1 .. Len(calls) + 1
      BY <2>2
    <3>2. CASE mode \in {"building", "raised"}
      BY <2>1, <3>1, <3>2 DEF Progress
    <3>3. CASE mode = "reading"
      BY <2>1, <3>3 DEF Progress, Reading
    <3>4. CASE mode = "done"
      BY <2>1, <3>1, <3>4 DEF Progress
    <3> QED
      BY <2>1, <3>2, <3>3, <3>4 DEF Progress
  <2> PICK n : n = Rank(calls, i - 1)
    OBVIOUS
  <2>5. n \in 0 .. Cardinality(Told(calls))
    <3>1. CASE i = Len(calls) + 1
      <4>1. i - 1 = Len(calls)
        BY <2>2, <3>1
      <4> QED
        BY <2>2, <4>1, RankLast, ToldFinite
    <3>2. CASE i # Len(calls) + 1
      <4>1. i \in 1 .. Len(calls)
        BY <2>2, <3>2
      <4>2. n \in Nat /\ n <= Cardinality(Told(calls)) /\ Cardinality(Told(calls)) \in Nat
        BY <2>2, <4>1, RankStep, ToldFinite
      <4> QED
        BY <4>2
    <3> QED
      BY <3>1, <3>2
  <2>6. lines = Beginning(Lines(calls), n)
    BY <2>4 DEF ReadUpTo
  <2>7. IsPrefix(lines, Listing[options]) /\ Len(lines) = n
        /\ Len(Listing[options]) = Cardinality(Told(calls))
    BY <2>2, <2>3, <2>5, <2>6, IsBeginning
  <2>8. ASSUME mode = "done" PROVE Len(lines) = Len(Listing[options]) /\ depth = 0
    <3>1. i = Len(calls) + 1 /\ i - 1 = Len(calls)
      BY <2>2, <2>4, <2>8
    <3>2. n = Cardinality(Told(calls))
      BY <2>2, <3>1, RankLast
    <3>3. depth = 0
      BY <2>2, <2>4, <3>1, NestedLevels DEF ReadUpTo
    <3> QED
      BY <2>7, <3>2, <3>3
  <2>9. NeverGarbled
    BY DEF DtbInv, ReaderInv, NeverGarbled
  <2> QED
    BY <2>7, <2>8, <2>9 DEF ReadBack
<1> QED
  BY <1>1, TreeInvariance, PTL

\* Types: among them that the reader never closes a node it has not opened.
THEOREM TypesHold == Spec => []TypeOK
<1>1. DtbInv /\ TreeInv => TypeOK
  <2> SUFFICES ASSUME DtbInv, TreeInv PROVE TypeOK
    OBVIOUS
  <2> PICK calls : calls = Calls(options)
    OBVIOUS
  <2> HIDE DEF Calls
  <2>1. options \in CommandLines /\ Progress(calls)
    BY DEF TreeInv, Inputs
  <2>2. Nested(calls) /\ Len(calls) \in Nat
    BY <2>1, InputsGood, ToldFinite DEF GoodCalls, Nested
  <2>3. PICK i \in 1 .. Len(calls) + 1 : ReadUpTo(calls, i)
    <3>1. 1 \in 1 .. Len(calls) + 1 /\ Len(calls) + 1 \in 1 .. Len(calls) + 1
      BY <2>2
    <3> QED
      BY <2>1, <3>1 DEF Progress, Reading
  <2>4. depth \in Nat
    BY <2>2, <2>3, NestedLevels DEF ReadUpTo
  <2>5. structLen \in Nat /\ DOMAIN struct \subseteq Nat
    BY DEF DtbInv, LayoutInv
  <2>6. /\ strtabLen \in Nat /\ DOMAIN strtab \subseteq Nat
        /\ DOMAIN strings \subseteq Texts /\ \A n \in DOMAIN strings : strings[n] \in Nat
    BY DEF DtbInv, StringsInv
  <2> QED
    BY <2>1, <2>4, <2>5, <2>6 DEF TypeOK, Progress
<1> QED
  BY <1>1, TreeInvariance, PTL

-----------------------------------------------------------------------------
\* Phandles.  Which properties a sequence of calls sets, and in which node, is
\* found part by part; the lines of the dump are those of the calls.

Cells(nums) == Value(4 * Len(nums), nums, <<>>)
Named(s, name) == {i \in 1 .. Len(s) : s[i].op \notin {"begin", "end"} /\ s[i].name = name}

\* The phandles are those of H, one each, and what is referred to is 2 or 3.
Phandles(s, H) == \A i \in Named(s, "phandle") : \E p \in H : s[i].value = Cells(<<p>>)
Apart(s) == \A i, j \in Named(s, "phandle") : s[i].value = s[j].value => i = j
PlicRefs(s) == \A i \in Named(s, "interrupt-parent") : s[i].value = Cells(<<3>>)
HartRefs(s) ==
  \A i \in Named(s, "interrupts-extended") : \E a, b \in Nat : s[i].value = Cells(<<2, a, 2, b>>)
Census(s, H) == Nested(s) /\ Phandles(s, H) /\ Apart(s) /\ PlicRefs(s) /\ HartRefs(s)

IsOf(u, s, t, name, i) ==
  \/ i \in Named(s, name) /\ u[i] = s[i]
  \/ \E k \in Named(t, name) : i = Len(s) + k /\ u[i] = t[k]

\* Every property of a sequence is one of a part of it.
LEMMA NamedJoin ==
  ASSUME NEW s, NEW t, IsCalls(s), IsCalls(t), NEW name, NEW i \in Named(s \o t, name)
  PROVE  IsOf(s \o t, s, t, name, i)
<1> PICK u : u = s \o t
  OBVIOUS
<1>1. IsJoin(u, s, t)
  BY Joined
<1>2. i \in 1 .. Len(s) + Len(t) /\ Len(s) \in Nat /\ Len(t) \in Nat
  BY <1>1 DEF IsJoin, Named
<1>3. CASE i \in 1 .. Len(s)
  BY <1>1, <1>3 DEF IsJoin, Named, IsOf
<1>4. CASE i \notin 1 .. Len(s)
  <2> PICK k : k = i - Len(s)
    OBVIOUS
  <2>1. k \in 1 .. Len(t) /\ i = Len(s) + k
    BY <1>2, <1>4
  <2>2. u[i] = t[k]
    BY <1>1, <2>1 DEF IsJoin
  <2>3. k \in Named(t, name)
    BY <2>1, <2>2 DEF Named
  <2> QED
    BY <2>1, <2>2, <2>3 DEF IsOf
<1> QED
  BY <1>3, <1>4

\* One phandle is not another.
LEMMA CellsDiffer ==
  ASSUME NEW p, NEW q, Cells(<<p>>) = Cells(<<q>>)
  PROVE  p = q
<1>1. Cells(<<p>>).nums = <<p>> /\ Cells(<<q>>).nums = <<q>>
  BY DEF Cells, Value, Item
<1>2. <<p>> = <<q>>
  BY <1>1
<1> QED
  BY <1>2

\* Two parts with phandles of their own.
LEMMA CensusJoin ==
  ASSUME NEW s, NEW t, NEW G, NEW H, Census(s, G), Census(t, H), G \cap H = {}
  PROVE  Census(s \o t, G \cup H)
<1> PICK u : u = s \o t
  OBVIOUS
<1>1. IsCalls(s) /\ IsCalls(t) /\ Nested(u)
  BY NestedJoin DEF Census, Nested
<1>2. ASSUME NEW name, NEW i \in Named(u, name)
      PROVE  IsOf(u, s, t, name, i)
  BY <1>1, NamedJoin
<1>3. ASSUME NEW i \in Named(u, "phandle")
      PROVE  \E p \in G \cup H : u[i].value = Cells(<<p>>)
  <2>1. IsOf(u, s, t, "phandle", i)
    BY <1>2
  <2>2. CASE i \in Named(s, "phandle") /\ u[i] = s[i]
    <3>1. PICK p \in G : s[i].value = Cells(<<p>>)
      BY <2>2 DEF Census, Phandles
    <3> QED
      BY <2>2, <3>1
  <2>3. CASE \E k \in Named(t, "phandle") : i = Len(s) + k /\ u[i] = t[k]
    <3>1. PICK k \in Named(t, "phandle") : u[i] = t[k]
      BY <2>3
    <3>2. PICK p \in H : t[k].value = Cells(<<p>>)
      BY DEF Census, Phandles
    <3> QED
      BY <3>1, <3>2
  <2> QED
    BY <2>1, <2>2, <2>3 DEF IsOf
<1>4. ASSUME NEW i \in Named(u, "phandle"), NEW j \in Named(u, "phandle"), u[i].value = u[j].value
      PROVE  i = j
  <2>1. \/ i \in Named(s, "phandle") /\ u[i] = s[i]
        \/ \E k \in Named(t, "phandle") : i = Len(s) + k /\ u[i] = t[k]
    BY <1>2 DEF IsOf
  <2>2. \/ j \in Named(s, "phandle") /\ u[j] = s[j]
        \/ \E k \in Named(t, "phandle") : j = Len(s) + k /\ u[j] = t[k]
    BY <1>2 DEF IsOf
  <2>3. ASSUME NEW k \in Named(s, "phandle"), NEW m \in Named(t, "phandle"), s[k].value = t[m].value
        PROVE  FALSE
    <3>1. PICK p \in G : s[k].value = Cells(<<p>>)
      BY DEF Census, Phandles
    <3>2. PICK q \in H : t[m].value = Cells(<<q>>)
      BY DEF Census, Phandles
    <3>3. p = q
      BY <2>3, <3>1, <3>2, CellsDiffer
    <3> QED
      BY <3>3
  <2>4. CASE i \in Named(s, "phandle") /\ u[i] = s[i]
    <3>1. CASE j \in Named(s, "phandle") /\ u[j] = s[j]
      BY <1>4, <2>4, <3>1 DEF Census, Apart
    <3>2. CASE \E k \in Named(t, "phandle") : j = Len(s) + k /\ u[j] = t[k]
      BY <1>4, <2>3, <2>4, <3>2
    <3> QED
      BY <2>2, <3>1, <3>2
  <2>5. CASE \E k \in Named(t, "phandle") : i = Len(s) + k /\ u[i] = t[k]
    <3>1. CASE j \in Named(s, "phandle") /\ u[j] = s[j]
      BY <1>4, <2>3, <2>5, <3>1
    <3>2. CASE \E k \in Named(t, "phandle") : j = Len(s) + k /\ u[j] = t[k]
      BY <1>4, <2>5, <3>2 DEF Census, Apart
    <3> QED
      BY <2>2, <3>1, <3>2
  <2> QED
    BY <2>1, <2>4, <2>5
<1>5. ASSUME NEW i \in Named(u, "interrupt-parent") PROVE u[i].value = Cells(<<3>>)
  <2>1. IsOf(u, s, t, "interrupt-parent", i)
    BY <1>2
  <2> QED
    BY <2>1 DEF Census, PlicRefs, IsOf
<1>6. ASSUME NEW i \in Named(u, "interrupts-extended")
      PROVE  \E a, b \in Nat : u[i].value = Cells(<<2, a, 2, b>>)
  <2>1. IsOf(u, s, t, "interrupts-extended", i)
    BY <1>2
  <2>2. CASE i \in Named(s, "interrupts-extended") /\ u[i] = s[i]
    <3>1. PICK a, b \in Nat : s[i].value = Cells(<<2, a, 2, b>>)
      BY <2>2 DEF Census, HartRefs
    <3> QED
      BY <2>2, <3>1
  <2>3. CASE \E k \in Named(t, "interrupts-extended") : i = Len(s) + k /\ u[i] = t[k]
    <3>1. PICK k \in Named(t, "interrupts-extended") : u[i] = t[k]
      BY <2>3
    <3>2. PICK a, b \in Nat : t[k].value = Cells(<<2, a, 2, b>>)
      BY DEF Census, HartRefs
    <3> QED
      BY <3>1, <3>2
  <2> QED
    BY <2>1, <2>2, <2>3 DEF IsOf
<1> QED
  <2>1. Phandles(u, G \cup H)
    BY <1>3 DEF Phandles
  <2>2. Apart(u)
    BY <1>4 DEF Apart
  <2>3. PlicRefs(u)
    BY <1>5 DEF PlicRefs
  <2>4. HartRefs(u)
    BY <1>6 DEF HartRefs
  <2> QED
    BY <1>1, <2>1, <2>2, <2>3, <2>4 DEF Census

\* Not a phandle, and if a reference to one then a right one.
Harmless(c) ==
  /\ c.op # "begin" /\ c.op # "end" /\ c.name # "phandle"
  /\ c.name = "interrupt-parent" => c.value = Cells(<<3>>)
  /\ c.name = "interrupts-extended" => \E a, b \in Nat : c.value = Cells(<<2, a, 2, b>>)

\* A single call with no phandle.
LEMMA CensusOne ==
  ASSUME NEW c, Harmless(c)
  PROVE  Census(<<c>>, {})
<1> USE DEF Harmless
<1>1. Nested(<<c>>)
  BY NestedOne DEF LevelAfter
<1>2. Len(<<c>>) = 1 /\ <<c>>[1] = c
  OBVIOUS
<1>3. Named(<<c>>, "phandle") = {}
  BY <1>2 DEF Named
<1>4. \A name : \A i \in Named(<<c>>, name) : <<c>>[i] = c /\ c.name = name
  BY <1>2 DEF Named
<1> QED
  BY <1>1, <1>3, <1>4 DEF Census, Phandles, Apart, PlicRefs, HartRefs

\* A property that is none of these.
LEMMA CensusSet ==
  ASSUME NEW name, NEW value, name \notin {"phandle", "interrupt-parent", "interrupts-extended"}
  PROVE  Census(Set(name, value), {})
<1> PICK c : c = [op |-> "prop", name |-> name, value |-> value]
  OBVIOUS
<1>1. c.op = "prop" /\ c.name = name
  OBVIOUS
<1>2. Census(<<c>>, {})
  BY <1>1, CensusOne DEF Harmless
<1> QED
  BY <1>2 DEF Set

\* The phandle of a node.
LEMMA CensusPhandle ==
  ASSUME NEW p
  PROVE  Census(U32("phandle", <<p>>), {p})
<1> PICK c : c = [op |-> "prop", name |-> "phandle", value |-> Cells(<<p>>)]
  OBVIOUS
<1>1. c.op = "prop" /\ c.name = "phandle" /\ c.value = Cells(<<p>>)
  OBVIOUS
<1>2. Nested(<<c>>)
  BY <1>1, NestedOne DEF LevelAfter
<1>3. Len(<<c>>) = 1 /\ <<c>>[1] = c
  OBVIOUS
<1>4. \A name : \A i \in Named(<<c>>, name) : i = 1 /\ <<c>>[i] = c /\ c.name = name
  BY <1>3 DEF Named
<1>5. Census(<<c>>, {p})
  BY <1>1, <1>2, <1>4 DEF Census, Phandles, Apart, PlicRefs, HartRefs
<1> QED
  BY <1>5 DEF U32, Set, Cells

\* A reference to the interrupt controller of the platform,
LEMMA CensusParent ==
  Census(U32("interrupt-parent", <<3>>), {})
<1> PICK c : c = [op |-> "prop", name |-> "interrupt-parent", value |-> Cells(<<3>>)]
  OBVIOUS
<1>1. c.op = "prop" /\ c.name = "interrupt-parent" /\ c.value = Cells(<<3>>)
  OBVIOUS
<1>2. Census(<<c>>, {})
  BY <1>1, CensusOne DEF Harmless
<1> QED
  BY <1>2 DEF U32, Set, Cells

\* and two to that of the hart.
LEMMA CensusExtended ==
  ASSUME NEW a \in Nat, NEW b \in Nat
  PROVE  Census(U32("interrupts-extended", <<2, a, 2, b>>), {})
<1> PICK c : c = [op |-> "prop", name |-> "interrupts-extended", value |-> Cells(<<2, a, 2, b>>)]
  OBVIOUS
<1>1. c.op = "prop" /\ c.name = "interrupts-extended" /\ c.value = Cells(<<2, a, 2, b>>)
  OBVIOUS
<1>2. Census(<<c>>, {})
  BY <1>1, CensusOne DEF Harmless
<1> QED
  BY <1>2 DEF U32, Set, Cells

\* A node has the properties of its body.
LEMMA CensusNode ==
  ASSUME NEW name, NEW body, NEW H, Census(body, H)
  PROVE  Census(Node(name, body), H)
<1> PICK u : u = Node(name, body)
  OBVIOUS
<1>1. Nested(u) /\ IsCalls(body) /\ IsNode(u, name, body)
  BY NestedNode, NodeIs DEF Census, Nested
<1>2. Len(body) \in Nat /\ u[1].op = "begin" /\ u[Len(body) + 2].op = "end"
  <2>1. Len(body) \in Nat /\ u[1] = Begin(name) /\ u[Len(body) + 2] = Finish
    BY <1>1 DEF IsNode
  <2>2. Begin(name).op = "begin" /\ Finish.op = "end"
    BY DEF Begin, Finish
  <2> QED
    BY <2>1, <2>2
<1>3. ASSUME NEW n, NEW i \in Named(u, n)
      PROVE  i - 1 \in Named(body, n) /\ u[i] = body[i - 1] /\ i \in Nat
  <2>1. i \in 1 .. Len(body) + 2 /\ u[i].op \notin {"begin", "end"} /\ u[i].name = n
    BY <1>1 DEF IsNode, Named
  <2>2. i # 1 /\ i # Len(body) + 2
    BY <1>2, <2>1
  <2>3. i - 1 \in 1 .. Len(body) /\ i = 1 + (i - 1)
    BY <1>2, <2>1, <2>2
  <2>4. u[i] = body[i - 1]
    BY <1>1, <2>3 DEF IsNode
  <2> QED
    BY <2>1, <2>3, <2>4 DEF Named
<1>4. ASSUME NEW i \in Named(u, "phandle") PROVE \E p \in H : u[i].value = Cells(<<p>>)
  <2>1. i - 1 \in Named(body, "phandle") /\ u[i] = body[i - 1]
    BY <1>3
  <2> QED
    BY <2>1 DEF Census, Phandles
<1>5. ASSUME NEW i \in Named(u, "phandle"), NEW j \in Named(u, "phandle"), u[i].value = u[j].value
      PROVE  i = j
  <2>1. /\ i - 1 \in Named(body, "phandle") /\ u[i] = body[i - 1] /\ i \in Nat
        /\ j - 1 \in Named(body, "phandle") /\ u[j] = body[j - 1] /\ j \in Nat
    BY <1>3
  <2>2. i - 1 = j - 1
    BY <1>5, <2>1 DEF Census, Apart
  <2> QED
    BY <2>1, <2>2
<1>6. ASSUME NEW i \in Named(u, "interrupt-parent") PROVE u[i].value = Cells(<<3>>)
  <2>1. i - 1 \in Named(body, "interrupt-parent") /\ u[i] = body[i - 1]
    BY <1>3
  <2> QED
    BY <2>1 DEF Census, PlicRefs
<1>7. ASSUME NEW i \in Named(u, "interrupts-extended")
      PROVE  \E a, b \in Nat : u[i].value = Cells(<<2, a, 2, b>>)
  <2>1. i - 1 \in Named(body, "interrupts-extended") /\ u[i] = body[i - 1]
    BY <1>3
  <2> QED
    BY <2>1 DEF Census, HartRefs
<1> QED
  <2>1. Phandles(u, H)
    BY <1>4 DEF Phandles
  <2>2. Apart(u)
    BY <1>5 DEF Apart
  <2>3. PlicRefs(u)
    BY <1>6 DEF PlicRefs
  <2>4. HartRefs(u)
    BY <1>7 DEF HartRefs
  <2> QED
    BY <1>1, <2>1, <2>2, <2>3, <2>4 DEF Census

-----------------------------------------------------------------------------
\* In which node a property is.

SameLevels(u, s, t) ==
  /\ \A i \in 1 .. Len(s) : Level(u, i) = Level(s, i)
  /\ \A i \in 1 .. Len(t) : Level(u, Len(s) + i) = Level(t, i)

\* Parts put together keep their levels.
LEMMA LevelJoin ==
  ASSUME NEW s, NEW t, Nested(s), Nested(t)
  PROVE  SameLevels(s \o t, s, t)
<1>1. IsJoin(s \o t, s, t) /\ IsCalls(s) /\ IsCalls(t)
  BY Joined DEF Nested
<1>2. PICK d, e : Depths(s, d) /\ Depths(t, e)
  BY DEF Nested
<1>3. PICK m \in Nat : m = Len(s)
  BY <1>1 DEF IsJoin
<1>4. PICK n \in Nat : n = Len(t)
  BY <1>1 DEF IsJoin
<1> PICK f : f = JoinedDepths(d, m, e, n)
  OBVIOUS
<1>5. Depths(s \o t, f) /\ IsCalls(s \o t) /\ Len(s \o t) = m + n
  BY <1>1, <1>2, <1>3, <1>4, DepthsJoin DEF IsJoin
<1>6. \A i \in 0 .. m + n : Level(s \o t, i + 1) = f[i]
  BY <1>5, DepthsAreLevels
<1>7. \A i \in 0 .. m : Level(s, i + 1) = d[i]
  BY <1>1, <1>2, <1>3, DepthsAreLevels
<1>8. \A i \in 0 .. n : Level(t, i + 1) = e[i]
  BY <1>1, <1>2, <1>4, DepthsAreLevels
<1>9. d[m] = 0 /\ e[0] = 0
  BY <1>2, <1>3 DEF Depths
<1>10. ASSUME NEW i \in 1 .. m PROVE Level(s \o t, i) = Level(s, i)
  <2>1. i - 1 \in 0 .. m + n /\ i - 1 \in 0 .. m /\ i - 1 <= m /\ (i - 1) + 1 = i
    OBVIOUS
  <2>2. f[i - 1] = d[i - 1]
    BY <2>1 DEF JoinedDepths
  <2>3. Level(s \o t, (i - 1) + 1) = f[i - 1] /\ Level(s, (i - 1) + 1) = d[i - 1]
    BY <1>6, <1>7, <2>1, Zenon
  <2> QED
    BY <2>1, <2>2, <2>3
<1>11. ASSUME NEW i \in 1 .. n PROVE Level(s \o t, m + i) = Level(t, i)
  <2> PICK k : k = (m + i) - 1
    OBVIOUS
  <2>1. k \in 0 .. m + n /\ k + 1 = m + i /\ i - 1 \in 0 .. n /\ (i - 1) + 1 = i /\ k - m = i - 1
    OBVIOUS
  <2>2. f[k] = e[i - 1]
    <3>1. CASE i = 1
      <4>1. k <= m /\ k = m
        BY <3>1
      <4> QED
        BY <1>9, <2>1, <3>1, <4>1 DEF JoinedDepths
    <3>2. CASE i # 1
      <4>1. ~(k <= m)
        BY <3>2
      <4> QED
        BY <2>1, <4>1 DEF JoinedDepths
    <3> QED
      BY <3>1, <3>2
  <2>3. Level(s \o t, k + 1) = f[k] /\ Level(t, (i - 1) + 1) = e[i - 1]
    BY <1>6, <1>8, <2>1, Zenon
  <2> QED
    BY <2>1, <2>2, <2>3
<1> QED
  BY <1>3, <1>4, <1>10, <1>11 DEF SameLevels

NodeLevels(u, body) ==
  /\ Level(u, 1) = 0
  /\ \A i \in 1 .. Len(body) : Level(u, 1 + i) = Level(body, i) + 1

\* A node's body is one level deeper than the node.
LEMMA LevelNode ==
  ASSUME NEW name, NEW body, Nested(body)
  PROVE  NodeLevels(Node(name, body), body)
<1> PICK u : u = Node(name, body)
  OBVIOUS
<1>1. IsCalls(body) /\ IsNode(u, name, body)
  BY NodeIs DEF Nested
<1>2. PICK d : Depths(body, d)
  BY DEF Nested
<1>3. PICK n \in Nat : n = Len(body)
  BY <1>1 DEF IsNode
<1> PICK f : f = NodeDepths(d, n)
  OBVIOUS
<1>4. Depths(u, f) /\ IsCalls(u) /\ Len(u) = n + 2
  BY <1>1, <1>2, <1>3, DepthsNode DEF IsNode
<1>5. \A i \in 0 .. n + 2 : Level(u, i + 1) = f[i]
  BY <1>4, DepthsAreLevels
<1>6. \A i \in 0 .. n : Level(body, i + 1) = d[i]
  BY <1>1, <1>2, <1>3, DepthsAreLevels
<1>7. ASSUME NEW i \in 1 .. n PROVE Level(u, 1 + i) = Level(body, i) + 1
  <2>1. i \in 0 .. n + 2 /\ i \in 1 .. n + 1 /\ i - 1 \in 0 .. n /\ (i - 1) + 1 = i /\ i + 1 = 1 + i
    OBVIOUS
  <2>2. f[i] = d[i - 1] + 1
    BY <2>1 DEF NodeDepths
  <2>3. Level(u, i + 1) = f[i] /\ Level(body, (i - 1) + 1) = d[i - 1]
    BY <1>5, <1>6, <2>1, Zenon
  <2> QED
    BY <2>1, <2>2, <2>3
<1> QED
  BY <1>3, <1>7, LevelFirst DEF NodeLevels

\* Call i is a property, or a node, of the node that call b opens.
Child(s, b, i) ==
  /\ b \in 1 .. Len(s) /\ i \in 1 .. Len(s) /\ b < i
  /\ s[b].op = "begin"
  /\ Level(s, i) = Level(s, b) + 1
  /\ \A k \in b + 1 .. i : Level(s, k) > Level(s, b)

\* A node in the first of two parts.
LEMMA ChildLeft ==
  ASSUME NEW s, NEW t, Nested(s), Nested(t), NEW b, NEW i, Child(s, b, i)
  PROVE  Child(s \o t, b, i)
<1> PICK u : u = s \o t
  OBVIOUS
<1>1. IsJoin(u, s, t) /\ SameLevels(u, s, t)
  BY Joined, LevelJoin DEF Nested
<1>2. PICK m \in Nat : m = Len(s)
  BY <1>1 DEF IsJoin
<1>3. PICK n \in Nat : n = Len(t)
  BY <1>1 DEF IsJoin
<1>4. /\ b \in 1 .. m /\ i \in 1 .. m /\ b < i /\ s[b].op = "begin"
      /\ Level(s, i) = Level(s, b) + 1
      /\ \A k \in b + 1 .. i : Level(s, k) > Level(s, b)
  BY <1>2 DEF Child
<1>5. /\ Len(u) = m + n
      /\ \A k \in 1 .. m : u[k] = s[k] /\ Level(u, k) = Level(s, k)
  BY <1>1, <1>2, <1>3 DEF IsJoin, SameLevels
<1>6. b \in 1 .. m + n /\ i \in 1 .. m + n /\ \A k \in b + 1 .. i : k \in 1 .. m
  BY <1>4
<1>7. \A k \in b + 1 .. i : Level(u, k) > Level(u, b)
  BY <1>4, <1>5, <1>6
<1> QED
  BY <1>4, <1>5, <1>6, <1>7 DEF Child

\* A node in the second.
LEMMA ChildRight ==
  ASSUME NEW s, NEW t, Nested(s), Nested(t), NEW b, NEW i, Child(t, b, i)
  PROVE  Child(s \o t, Len(s) + b, Len(s) + i)
<1> PICK u : u = s \o t
  OBVIOUS
<1>1. IsJoin(u, s, t) /\ SameLevels(u, s, t)
  BY Joined, LevelJoin DEF Nested
<1>2. PICK m \in Nat : m = Len(s)
  BY <1>1 DEF IsJoin
<1>3. PICK n \in Nat : n = Len(t)
  BY <1>1 DEF IsJoin
<1>4. /\ b \in 1 .. n /\ i \in 1 .. n /\ b < i /\ t[b].op = "begin"
      /\ Level(t, i) = Level(t, b) + 1
      /\ \A k \in b + 1 .. i : Level(t, k) > Level(t, b)
  BY <1>3 DEF Child
<1>5. /\ Len(u) = m + n
      /\ \A k \in 1 .. n : u[m + k] = t[k] /\ Level(u, m + k) = Level(t, k)
  BY <1>1, <1>2, <1>3 DEF IsJoin, SameLevels
<1>6. m + b \in 1 .. m + n /\ m + i \in 1 .. m + n /\ m + b < m + i
  BY <1>4
<1>7. ASSUME NEW k \in (m + b) + 1 .. m + i PROVE Level(u, k) > Level(u, m + b)
  <2> PICK j : j = k - m
    OBVIOUS
  <2>1. j \in b + 1 .. i /\ j \in 1 .. n /\ k = m + j
    BY <1>4
  <2> QED
    BY <1>4, <1>5, <2>1
<1>8. u[m + b].op = "begin" /\ Level(u, m + i) = Level(u, m + b) + 1
  BY <1>4, <1>5
<1> QED
  BY <1>2, <1>5, <1>6, <1>7, <1>8 DEF Child

\* A node within a node.
LEMMA ChildInside ==
  ASSUME NEW name, NEW body, Nested(body), NEW b, NEW i, Child(body, b, i)
  PROVE  Child(Node(name, body), 1 + b, 1 + i)
<1> PICK u : u = Node(name, body)
  OBVIOUS
<1>1. IsNode(u, name, body) /\ NodeLevels(u, body)
  BY NodeIs, LevelNode DEF Nested
<1>2. PICK n \in Nat : n = Len(body)
  BY <1>1 DEF IsNode
<1>3. /\ b \in 1 .. n /\ i \in 1 .. n /\ b < i /\ body[b].op = "begin"
      /\ Level(body, i) = Level(body, b) + 1
      /\ \A k \in b + 1 .. i : Level(body, k) > Level(body, b)
  BY <1>2 DEF Child
<1>4. /\ Len(u) = n + 2
      /\ \A k \in 1 .. n : u[1 + k] = body[k] /\ Level(u, 1 + k) = Level(body, k) + 1
  BY <1>1, <1>2 DEF IsNode, NodeLevels
<1>5. \A k \in 1 .. n : Level(body, k) \in Int
  BY LevelStep
<1>6. 1 + b \in 1 .. n + 2 /\ 1 + i \in 1 .. n + 2 /\ 1 + b < 1 + i
  BY <1>3
<1>7. ASSUME NEW k \in (1 + b) + 1 .. 1 + i PROVE Level(u, k) > Level(u, 1 + b)
  <2> PICK j : j = k - 1
    OBVIOUS
  <2>1. j \in b + 1 .. i /\ j \in 1 .. n /\ k = 1 + j
    BY <1>3
  <2>2. Level(body, j) > Level(body, b) /\ Level(body, j) \in Int /\ Level(body, b) \in Int
    BY <1>3, <1>5, <2>1
  <2>3. Level(u, k) = Level(body, j) + 1 /\ Level(u, 1 + b) = Level(body, b) + 1
    BY <1>3, <1>4, <2>1
  <2> QED
    BY <2>2, <2>3
<1>8. u[1 + b].op = "begin" /\ Level(u, 1 + i) = Level(u, 1 + b) + 1
  BY <1>3, <1>4
<1> QED
  BY <1>4, <1>6, <1>7, <1>8 DEF Child

\* A property of the node itself.
LEMMA ChildOf ==
  ASSUME NEW name, NEW body, Nested(body), NEW i \in 1 .. Len(body), Level(body, i) = 0
  PROVE  Child(Node(name, body), 1, 1 + i)
<1> PICK u : u = Node(name, body)
  OBVIOUS
<1>1. IsNode(u, name, body) /\ NodeLevels(u, body)
  BY NodeIs, LevelNode DEF Nested
<1>2. PICK n \in Nat : n = Len(body)
  BY <1>1 DEF IsNode
<1>3. /\ Len(u) = n + 2 /\ u[1].op = "begin" /\ Level(u, 1) = 0
      /\ \A k \in 1 .. n : Level(u, 1 + k) = Level(body, k) + 1
  BY <1>1, <1>2 DEF IsNode, NodeLevels, Begin
<1>4. \A k \in 1 .. n : Level(body, k) \in Nat
  BY <1>2, NestedLevels
<1>5. ASSUME NEW k \in 1 + 1 .. 1 + i PROVE Level(u, k) > 0
  <2> PICK j : j = k - 1
    OBVIOUS
  <2>1. j \in 1 .. n /\ k = 1 + j
    BY <1>2
  <2> QED
    BY <1>3, <1>4, <2>1
<1>6. 1 \in 1 .. n + 2 /\ 1 + i \in 1 .. n + 2 /\ 1 < 1 + i /\ Level(u, 1 + i) = 0 + 1
  BY <1>2, <1>3
<1> QED
  BY <1>3, <1>5, <1>6 DEF Child

-----------------------------------------------------------------------------
\* Which node gives a phandle, and that it is an interrupt controller.

\* A property of the node that has s for its body.
Top(s, name, v) == \E i \in Named(s, name) : s[i].value = v /\ Level(s, i) = 0
Controller(s, p) == Top(s, "phandle", Cells(<<p>>)) /\ \E v : Top(s, "interrupt-controller", v)

\* Somewhere in s is an interrupt controller of that phandle.
Provided(s, p) ==
  \E b, i, f :
    /\ Child(s, b, i) /\ i \in Named(s, "phandle") /\ s[i].value = Cells(<<p>>)
    /\ Child(s, b, f) /\ f \in Named(s, "interrupt-controller")

\* The property that is set.
LEMMA TopSet ==
  ASSUME NEW name, NEW value
  PROVE  Top(Set(name, value), name, value)
<1> PICK c : c = [op |-> "prop", name |-> name, value |-> value]
  OBVIOUS
<1>1. c.op = "prop" /\ c.name = name /\ c.value = value
  OBVIOUS
<1>2. Len(<<c>>) = 1 /\ <<c>>[1] = c
  OBVIOUS
<1>3. 1 \in Named(<<c>>, name)
  BY <1>1, <1>2 DEF Named
<1>4. Level(<<c>>, 1) = 0
  BY LevelFirst
<1>5. Top(<<c>>, name, value)
  BY <1>1, <1>2, <1>3, <1>4 DEF Top
<1> QED
  BY <1>5 DEF Set

\* A property of the first of two parts,
LEMMA TopLeft ==
  ASSUME NEW s, NEW t, Nested(s), Nested(t), NEW name, NEW v, Top(s, name, v)
  PROVE  Top(s \o t, name, v)
<1> PICK u : u = s \o t
  OBVIOUS
<1>1. IsJoin(u, s, t) /\ SameLevels(u, s, t)
  BY Joined, LevelJoin DEF Nested
<1>2. PICK i \in Named(s, name) : s[i].value = v /\ Level(s, i) = 0
  BY DEF Top
<1>3. i \in 1 .. Len(s) /\ s[i].op \notin {"begin", "end"} /\ s[i].name = name
  BY DEF Named
<1>4. u[i] = s[i] /\ Level(u, i) = 0 /\ i \in 1 .. Len(u)
  BY <1>1, <1>2, <1>3 DEF IsJoin, SameLevels
<1>5. i \in Named(u, name)
  BY <1>3, <1>4 DEF Named
<1> QED
  BY <1>2, <1>4, <1>5 DEF Top

\* and of the second.
LEMMA TopRight ==
  ASSUME NEW s, NEW t, Nested(s), Nested(t), NEW name, NEW v, Top(t, name, v)
  PROVE  Top(s \o t, name, v)
<1> PICK u : u = s \o t
  OBVIOUS
<1>1. IsJoin(u, s, t) /\ SameLevels(u, s, t)
  BY Joined, LevelJoin DEF Nested
<1>2. PICK k \in Named(t, name) : t[k].value = v /\ Level(t, k) = 0
  BY DEF Top
<1>3. k \in 1 .. Len(t) /\ t[k].op \notin {"begin", "end"} /\ t[k].name = name
  BY DEF Named
<1> PICK i : i = Len(s) + k
  OBVIOUS
<1>4. u[i] = t[k] /\ Level(u, i) = 0
  BY <1>1, <1>2, <1>3 DEF IsJoin, SameLevels
<1>5. i \in 1 .. Len(u)
  <2>1. Len(s) \in Nat /\ Len(t) \in Nat /\ Len(u) = Len(s) + Len(t)
    BY <1>1 DEF IsJoin
  <2> QED
    BY <1>3, <2>1
<1>6. i \in Named(u, name)
  BY <1>3, <1>4, <1>5 DEF Named
<1> QED
  BY <1>2, <1>4, <1>6 DEF Top

\* The property of a body is one of its node.
LEMMA TopInside ==
  ASSUME NEW name, NEW body, Nested(body), NEW n, NEW v, Top(body, n, v)
  PROVE  \E i \in Named(Node(name, body), n) :
           Node(name, body)[i].value = v /\ Child(Node(name, body), 1, i)
<1> PICK u : u = Node(name, body)
  OBVIOUS
<1>1. IsNode(u, name, body)
  BY NodeIs DEF Nested
<1>2. PICK k \in Named(body, n) : body[k].value = v /\ Level(body, k) = 0
  BY DEF Top
<1>3. k \in 1 .. Len(body) /\ body[k].op \notin {"begin", "end"} /\ body[k].name = n
  BY DEF Named
<1>4. u[1 + k] = body[k] /\ 1 + k \in 1 .. Len(u)
  <2>1. Len(body) \in Nat /\ Len(u) = Len(body) + 2
    BY <1>1 DEF IsNode
  <2>2. 1 + k \in 1 .. Len(u)
    BY <1>3, <2>1
  <2> QED
    BY <1>1, <1>3, <2>2 DEF IsNode
<1>5. 1 + k \in Named(u, n)
  BY <1>3, <1>4 DEF Named
<1>6. Child(u, 1, 1 + k)
  BY <1>2, <1>3, ChildOf
<1> QED
  BY <1>2, <1>4, <1>5, <1>6

\* A node with a phandle that says it is an interrupt controller.
LEMMA ProvidedNode ==
  ASSUME NEW name, NEW body, Nested(body), NEW p, Controller(body, p)
  PROVE  Provided(Node(name, body), p)
<1> PICK u : u = Node(name, body)
  OBVIOUS
<1>1. PICK i \in Named(u, "phandle") : u[i].value = Cells(<<p>>) /\ Child(u, 1, i)
  <2>1. Top(body, "phandle", Cells(<<p>>))
    BY DEF Controller
  <2> QED
    BY <2>1, TopInside
<1>2. PICK f \in Named(u, "interrupt-controller") : Child(u, 1, f)
  <2>1. PICK v : Top(body, "interrupt-controller", v)
    BY DEF Controller
  <2> QED
    BY <2>1, TopInside
<1> QED
  BY <1>1, <1>2 DEF Provided

\* One in the first of two parts,
LEMMA ProvidedLeft ==
  ASSUME NEW s, NEW t, Nested(s), Nested(t), NEW p, Provided(s, p)
  PROVE  Provided(s \o t, p)
<1> PICK u : u = s \o t
  OBVIOUS
<1>1. IsJoin(u, s, t)
  BY Joined DEF Nested
<1>2. PICK b, i, f :
        /\ Child(s, b, i) /\ i \in Named(s, "phandle") /\ s[i].value = Cells(<<p>>)
        /\ Child(s, b, f) /\ f \in Named(s, "interrupt-controller")
  BY DEF Provided
<1>3. Child(u, b, i) /\ Child(u, b, f)
  BY <1>2, ChildLeft
<1>4. ASSUME NEW name, NEW k \in Named(s, name) PROVE k \in Named(u, name) /\ u[k] = s[k]
  <2>1. k \in 1 .. Len(s) /\ s[k].op \notin {"begin", "end"} /\ s[k].name = name
    BY DEF Named
  <2>2. u[k] = s[k] /\ k \in 1 .. Len(u)
    BY <1>1, <2>1 DEF IsJoin
  <2> QED
    BY <2>1, <2>2 DEF Named
<1>5. i \in Named(u, "phandle") /\ u[i].value = Cells(<<p>>) /\ f \in Named(u, "interrupt-controller")
  BY <1>2, <1>4
<1> QED
  BY <1>3, <1>5 DEF Provided

\* in the second,
LEMMA ProvidedRight ==
  ASSUME NEW s, NEW t, Nested(s), Nested(t), NEW p, Provided(t, p)
  PROVE  Provided(s \o t, p)
<1> PICK u : u = s \o t
  OBVIOUS
<1>1. IsJoin(u, s, t)
  BY Joined DEF Nested
<1>2. PICK b, i, f :
        /\ Child(t, b, i) /\ i \in Named(t, "phandle") /\ t[i].value = Cells(<<p>>)
        /\ Child(t, b, f) /\ f \in Named(t, "interrupt-controller")
  BY DEF Provided
<1>3. Child(u, Len(s) + b, Len(s) + i) /\ Child(u, Len(s) + b, Len(s) + f)
  BY <1>2, ChildRight
<1>4. ASSUME NEW name, NEW k \in Named(t, name)
      PROVE  Len(s) + k \in Named(u, name) /\ u[Len(s) + k] = t[k]
  <2>1. k \in 1 .. Len(t) /\ t[k].op \notin {"begin", "end"} /\ t[k].name = name
    BY DEF Named
  <2>2. Len(s) \in Nat /\ Len(t) \in Nat /\ Len(u) = Len(s) + Len(t)
    BY <1>1 DEF IsJoin
  <2>3. Len(s) + k \in 1 .. Len(u)
    BY <2>1, <2>2
  <2>4. u[Len(s) + k] = t[k]
    BY <1>1, <2>1 DEF IsJoin
  <2> QED
    BY <2>1, <2>3, <2>4 DEF Named
<1>5. /\ Len(s) + i \in Named(u, "phandle") /\ u[Len(s) + i].value = Cells(<<p>>)
      /\ Len(s) + f \in Named(u, "interrupt-controller")
  BY <1>2, <1>4
<1> QED
  BY <1>3, <1>5 DEF Provided

\* or in a node.
LEMMA ProvidedInside ==
  ASSUME NEW name, NEW body, Nested(body), NEW p, Provided(body, p)
  PROVE  Provided(Node(name, body), p)
<1> PICK u : u = Node(name, body)
  OBVIOUS
<1>1. IsNode(u, name, body)
  BY NodeIs DEF Nested
<1>2. PICK b, i, f :
        /\ Child(body, b, i) /\ i \in Named(body, "phandle") /\ body[i].value = Cells(<<p>>)
        /\ Child(body, b, f) /\ f \in Named(body, "interrupt-controller")
  BY DEF Provided
<1>3. Child(u, 1 + b, 1 + i) /\ Child(u, 1 + b, 1 + f)
  BY <1>2, ChildInside
<1>4. ASSUME NEW n, NEW k \in Named(body, n)
      PROVE  1 + k \in Named(u, n) /\ u[1 + k] = body[k]
  <2>1. k \in 1 .. Len(body) /\ body[k].op \notin {"begin", "end"} /\ body[k].name = n
    BY DEF Named
  <2>2. Len(body) \in Nat /\ Len(u) = Len(body) + 2
    BY <1>1 DEF IsNode
  <2>3. 1 + k \in 1 .. Len(u)
    BY <2>1, <2>2
  <2>4. u[1 + k] = body[k]
    BY <1>1, <2>1 DEF IsNode
  <2> QED
    BY <2>1, <2>3, <2>4 DEF Named
<1>5. /\ 1 + i \in Named(u, "phandle") /\ u[1 + i].value = Cells(<<p>>)
      /\ 1 + f \in Named(u, "interrupt-controller")
  BY <1>2, <1>4
<1> QED
  BY <1>3, <1>5 DEF Provided

\* With neither phandles nor wrong references.
Plain(s) == Census(s, {})

\* Such a part adds nothing.
LEMMA CensusPlain ==
  ASSUME NEW s, NEW t, NEW H
  PROVE  /\ Census(s, H) /\ Plain(t) => Census(s \o t, H)
         /\ Plain(s) /\ Census(t, H) => Census(s \o t, H)
         /\ Plain(s) /\ Plain(t) => Plain(s \o t)
<1>1. H \cup {} = H /\ {} \cup H = H /\ {} \cup {} = {} /\ H \cap {} = {} /\ {} \cap H = {} /\ {} \cap {} = {}
  OBVIOUS
<1>2. ASSUME NEW G, NEW F, Census(s, G), Census(t, F), G \cap F = {} PROVE Census(s \o t, G \cup F)
  BY <1>2, CensusJoin
<1>3. Census(s, H) /\ Census(t, {}) => Census(s \o t, H \cup {})
  BY <1>1, <1>2, Zenon
<1>4. Census(s, {}) /\ Census(t, H) => Census(s \o t, {} \cup H)
  BY <1>1, <1>2, Zenon
<1>5. Census(s, {}) /\ Census(t, {}) => Census(s \o t, {} \cup {})
  BY <1>1, <1>2, Zenon
<1> QED
  BY <1>1, <1>3, <1>4, <1>5 DEF Plain

\* No calls, or the exception.
LEMMA PlainOthers == Plain(<<>>) /\ Plain(<<Fail>>)
<1>1. Census(<<>>, {})
  <2>1. Len(<<>>) = 0 /\ \A name : Named(<<>>, name) = {}
    BY DEF Named
  <2> QED
    BY <2>1, NestedNone DEF Census, Phandles, Apart, PlicRefs, HartRefs
<1>2. Census(<<Fail>>, {})
  <2>1. Fail.op = "raise" /\ Fail.name = ""
    BY DEF Fail
  <2> QED
    BY <2>1, CensusOne DEF Harmless
<1> QED
  BY <1>1, <1>2 DEF Plain

IsOther(name) == name \notin {"phandle", "interrupt-parent", "interrupts-extended"}

\* Properties of each kind, of another name.
LEMMA PlainProps ==
  ASSUME NEW name, NEW data, IsOther(name)
  PROVE  /\ Plain(U32(name, data)) /\ Plain(U64(name, data))
         /\ Plain(StrList(name, data)) /\ Plain(Str(name, data))
         /\ Plain(Flag(name)) /\ Plain(Reg2(name, data))
<1>1. \A v : Plain(Set(name, v))
  BY CensusSet DEF Plain, IsOther
<1> QED
  BY <1>1 DEF U32, U64, StrList, Str, Flag, Reg2

\* A number of the command line that fits, or the exception.
LEMMA PlainPacked ==
  ASSUME NEW n, NEW max, NEW calls, Plain(calls)
  PROVE  Plain(Packed(n, max, calls))
  BY PlainOthers DEF Packed

\* A node with no phandle in it.
LEMMA PlainNode ==
  ASSUME NEW name, NEW body, Plain(body)
  PROVE  Plain(Node(name, body))
  BY CensusNode DEF Plain

CpuProps ==
  U32("phandle", <<1>>) \o Str("device_type", "cpu") \o U32("reg", <<0>>) \o Str("status", "okay")
  \o Str("compatible", "riscv") \o Str("riscv,isa", "rv64imafdcsu_zicsr_zifencei")
  \o Str("mmu-type", "riscv,sv39")
IntcProps ==
  U32("#interrupt-cells", <<1>>) \o Flag("interrupt-controller")
  \o Str("compatible", "riscv,cpu-intc") \o U32("phandle", <<2>>)
IntcNode == Node("interrupt-controller", IntcProps)
CpusProps(o) ==
  U32("#address-cells", <<1>>) \o U32("#size-cells", <<0>>)
  \o Packed(o.timebase, Max32, U32("timebase-frequency", <<o.timebase>>))

\* The phandles of the hart and of its interrupt controller.
LEMMA CpuCensus ==
  ASSUME NEW o
  PROVE  Census(CpusNode(o), {1, 2}) /\ Provided(CpusNode(o), 2)
<1>1. Census(CpuProps, {1})
  <2>1. Census(U32("phandle", <<1>>), {1})
    BY CensusPhandle
  <2>2. /\ IsOther("device_type") /\ IsOther("reg") /\ IsOther("status")
        /\ IsOther("compatible") /\ IsOther("riscv,isa") /\ IsOther("mmu-type")
    BY Zenon DEF IsOther
  <2>3. /\ Plain(Str("device_type", "cpu")) /\ Plain(U32("reg", <<0>>)) /\ Plain(Str("status", "okay"))
        /\ Plain(Str("compatible", "riscv")) /\ Plain(Str("riscv,isa", "rv64imafdcsu_zicsr_zifencei"))
        /\ Plain(Str("mmu-type", "riscv,sv39"))
    BY <2>2, PlainProps, Zenon
  <2> QED
    BY <2>1, <2>3, CensusPlain, Zenon DEF CpuProps
<1>2. Census(IntcProps, {2})
  <2>1. Census(U32("phandle", <<2>>), {2})
    BY CensusPhandle
  <2>2. IsOther("#interrupt-cells") /\ IsOther("interrupt-controller") /\ IsOther("compatible")
    BY Zenon DEF IsOther
  <2>3. /\ Plain(U32("#interrupt-cells", <<1>>)) /\ Plain(Flag("interrupt-controller"))
        /\ Plain(Str("compatible", "riscv,cpu-intc"))
    BY <2>2, PlainProps, Zenon
  <2>4. Plain(U32("#interrupt-cells", <<1>>) \o Flag("interrupt-controller") \o Str("compatible", "riscv,cpu-intc"))
    BY <2>3, CensusPlain, Zenon
  <2> QED
    BY <2>1, <2>4, CensusPlain, Zenon DEF IntcProps
<1>3. Controller(IntcProps, 2)
  <2>1. /\ Nested(U32("#interrupt-cells", <<1>>)) /\ Nested(Flag("interrupt-controller"))
        /\ Nested(Str("compatible", "riscv,cpu-intc")) /\ Nested(U32("phandle", <<2>>))
    BY NestedProps
  <2>2. Top(U32("phandle", <<2>>), "phandle", Cells(<<2>>))
    BY TopSet DEF U32, Cells
  <2>3. Top(Flag("interrupt-controller"), "interrupt-controller", Value(0, <<>>, <<>>))
    BY TopSet DEF Flag
  <2>4. Nested(U32("#interrupt-cells", <<1>>) \o Flag("interrupt-controller"))
    BY <2>1, NestedJoin
  <2>5. Nested(U32("#interrupt-cells", <<1>>) \o Flag("interrupt-controller") \o Str("compatible", "riscv,cpu-intc"))
    BY <2>1, <2>4, NestedJoin, Zenon
  <2>6. Top(IntcProps, "phandle", Cells(<<2>>))
    BY <2>1, <2>2, <2>5, TopRight, Zenon DEF IntcProps
  <2>7. Top(U32("#interrupt-cells", <<1>>) \o Flag("interrupt-controller"),
            "interrupt-controller", Value(0, <<>>, <<>>))
    BY <2>1, <2>3, TopRight
  <2>8. Top(U32("#interrupt-cells", <<1>>) \o Flag("interrupt-controller") \o Str("compatible", "riscv,cpu-intc"),
            "interrupt-controller", Value(0, <<>>, <<>>))
    BY <2>1, <2>4, <2>7, TopLeft, Zenon
  <2>9. Top(IntcProps, "interrupt-controller", Value(0, <<>>, <<>>))
    BY <2>1, <2>5, <2>8, TopLeft, Zenon DEF IntcProps
  <2> QED
    BY <2>6, <2>9 DEF Controller
<1>4. Nested(CpuProps) /\ Nested(IntcProps)
  BY <1>1, <1>2 DEF Census
<1>5. Census(IntcNode, {2}) /\ Provided(IntcNode, 2) /\ Nested(IntcNode)
  <2>1. Census(IntcNode, {2})
    BY <1>2, CensusNode DEF IntcNode
  <2>2. Provided(IntcNode, 2)
    BY <1>3, <1>4, ProvidedNode DEF IntcNode
  <2> QED
    BY <2>1, <2>2 DEF Census
<1>6. Census(CpuProps \o IntcNode, {1, 2}) /\ Provided(CpuProps \o IntcNode, 2)
  <2>1. {1} \cap {2} = {} /\ {1} \cup {2} = {1, 2}
    OBVIOUS
  <2>2. Census(CpuProps \o IntcNode, {1} \cup {2})
    BY <1>1, <1>5, <2>1, CensusJoin
  <2>3. Provided(CpuProps \o IntcNode, 2)
    BY <1>4, <1>5, ProvidedRight
  <2> QED
    BY <2>1, <2>2, <2>3
<1>7. CpuNode = Node("cpu@0", CpuProps \o IntcNode)
  BY Zenon DEF CpuNode, CpuProps, IntcProps, IntcNode
<1>8. Census(CpuNode, {1, 2}) /\ Provided(CpuNode, 2) /\ Nested(CpuNode)
  <2>1. Nested(CpuProps \o IntcNode)
    BY <1>6 DEF Census
  <2>2. Census(CpuNode, {1, 2})
    BY <1>6, <1>7, CensusNode
  <2>3. Provided(CpuNode, 2)
    BY <1>6, <1>7, <2>1, ProvidedInside
  <2> QED
    BY <2>2, <2>3 DEF Census
<1>9. Plain(CpusProps(o))
  <2>1. IsOther("#address-cells") /\ IsOther("#size-cells") /\ IsOther("timebase-frequency")
    BY DEF IsOther
  <2>2. /\ Plain(U32("#address-cells", <<1>>)) /\ Plain(U32("#size-cells", <<0>>))
        /\ Plain(Packed(o.timebase, Max32, U32("timebase-frequency", <<o.timebase>>)))
    BY <2>1, PlainProps, PlainPacked
  <2> QED
    BY <2>2, CensusPlain DEF CpusProps
<1>10. CpusNode(o) = Node("cpus", CpusProps(o) \o CpuNode)
  BY DEF CpusNode, CpusProps
<1>11. Census(CpusProps(o) \o CpuNode, {1, 2}) /\ Provided(CpusProps(o) \o CpuNode, 2)
  <2>1. Nested(CpusProps(o))
    BY <1>9 DEF Plain, Census
  <2> QED
    BY <1>8, <1>9, <2>1, ProvidedRight, CensusPlain
<1>12. Nested(CpusProps(o) \o CpuNode)
  BY <1>11 DEF Census
<1> QED
  BY <1>10, <1>11, <1>12, CensusNode, ProvidedInside

PlicLeft ==
  U32("phandle", <<3>>) \o U32("riscv,ndev", <<95>>) \o Reg2("reg", "plic")
  \o U32("interrupts-extended", <<2, 11, 2, 9>>)
PlicRight == StrList("compatible", <<"sifive,plic-1.0.0", "riscv,plic0">>)
PlicProps ==
  PlicLeft \o Flag("interrupt-controller") \o PlicRight
  \o U32("#address-cells", <<0>>) \o U32("#interrupt-cells", <<1>>)

\* The phandle of the interrupt controller of the platform.
LEMMA PlicCensus == Census(PlicNode, {3}) /\ Provided(PlicNode, 3)
<1>1. Top(PlicLeft, "phandle", Cells(<<3>>)) /\ Census(PlicLeft, {3})
  <2>1. /\ Nested(U32("phandle", <<3>>)) /\ Nested(U32("riscv,ndev", <<95>>))
        /\ Nested(Reg2("reg", "plic")) /\ Nested(U32("interrupts-extended", <<2, 11, 2, 9>>))
    BY NestedProps, Zenon
  <2>2. Top(U32("phandle", <<3>>), "phandle", Cells(<<3>>)) /\ Census(U32("phandle", <<3>>), {3})
    BY TopSet, CensusPhandle DEF U32, Cells
  <2>3. Plain(U32("riscv,ndev", <<95>>)) /\ Plain(Reg2("reg", "plic"))
    <3>1. IsOther("riscv,ndev") /\ IsOther("reg")
      BY Zenon DEF IsOther
    <3> QED
      BY <3>1, PlainProps, Zenon
  <2>4. Plain(U32("interrupts-extended", <<2, 11, 2, 9>>))
    BY CensusExtended DEF Plain
  <2>5. Census(PlicLeft, {3})
    <3>1. Census(U32("phandle", <<3>>) \o U32("riscv,ndev", <<95>>), {3})
      <4>1. Census(U32("phandle", <<3>>), {3}) /\ Plain(U32("riscv,ndev", <<95>>))
        BY <2>2, <2>3, Zenon
      <4> QED
        BY <4>1, CensusPlain, Zenon
    <3>2. Census(U32("phandle", <<3>>) \o U32("riscv,ndev", <<95>>) \o Reg2("reg", "plic"), {3})
      BY <2>3, <3>1, CensusPlain, Zenon
    <3> QED
      BY <2>4, <3>2, CensusPlain, Zenon DEF PlicLeft
  <2>6. /\ Top(U32("phandle", <<3>>) \o U32("riscv,ndev", <<95>>), "phandle", Cells(<<3>>))
        /\ Nested(U32("phandle", <<3>>) \o U32("riscv,ndev", <<95>>))
    BY <2>1, <2>2, TopLeft, NestedJoin, Zenon
  <2>7. /\ Top(U32("phandle", <<3>>) \o U32("riscv,ndev", <<95>>) \o Reg2("reg", "plic"), "phandle", Cells(<<3>>))
        /\ Nested(U32("phandle", <<3>>) \o U32("riscv,ndev", <<95>>) \o Reg2("reg", "plic"))
    BY <2>1, <2>6, TopLeft, NestedJoin, Zenon
  <2>8. Top(PlicLeft, "phandle", Cells(<<3>>))
    BY <2>1, <2>7, TopLeft, Zenon DEF PlicLeft
  <2> QED
    BY <2>5, <2>8
<1>2. /\ IsOther("interrupt-controller") /\ IsOther("compatible")
      /\ IsOther("#address-cells") /\ IsOther("#interrupt-cells")
  BY Zenon DEF IsOther
<1>3. /\ Plain(Flag("interrupt-controller")) /\ Plain(PlicRight)
      /\ Plain(U32("#address-cells", <<0>>)) /\ Plain(U32("#interrupt-cells", <<1>>))
  BY <1>2, PlainProps, Zenon DEF PlicRight
<1>4. /\ Nested(PlicLeft) /\ Nested(Flag("interrupt-controller")) /\ Nested(PlicRight)
      /\ Nested(U32("#address-cells", <<0>>)) /\ Nested(U32("#interrupt-cells", <<1>>))
  BY <1>1, <1>3 DEF Census, Plain
<1> PICK v : v = Value(0, <<>>, <<>>)
  OBVIOUS
<1>5. /\ Top(PlicLeft \o Flag("interrupt-controller"), "phandle", Cells(<<3>>))
      /\ Top(PlicLeft \o Flag("interrupt-controller"), "interrupt-controller", v)
      /\ Census(PlicLeft \o Flag("interrupt-controller"), {3})
  <2>1. Top(Flag("interrupt-controller"), "interrupt-controller", v)
    BY TopSet DEF Flag
  <2> QED
    BY <1>1, <1>3, <1>4, <2>1, TopLeft, TopRight, CensusPlain
<1>6. ASSUME NEW p, NEW s, NEW t, Census(s, {p}), Plain(t),
             Top(s, "phandle", Cells(<<p>>)), Top(s, "interrupt-controller", v)
      PROVE  /\ Census(s \o t, {p})
             /\ Top(s \o t, "phandle", Cells(<<p>>)) /\ Top(s \o t, "interrupt-controller", v)
  <2>1. Nested(s) /\ Nested(t)
    BY <1>6 DEF Census, Plain
  <2> QED
    BY <1>6, <2>1, TopLeft, CensusPlain
<1>7. /\ Census(PlicProps, {3})
      /\ Top(PlicProps, "phandle", Cells(<<3>>)) /\ Top(PlicProps, "interrupt-controller", v)
  <2> PICK s : s = PlicLeft \o Flag("interrupt-controller") \o PlicRight
    OBVIOUS
  <2>1. /\ Census(s, {3})
        /\ Top(s, "phandle", Cells(<<3>>)) /\ Top(s, "interrupt-controller", v)
    BY <1>3, <1>5, <1>6
  <2> PICK t : t = s \o U32("#address-cells", <<0>>)
    OBVIOUS
  <2>2. /\ Census(t, {3})
        /\ Top(t, "phandle", Cells(<<3>>)) /\ Top(t, "interrupt-controller", v)
    BY <1>3, <1>6, <2>1
  <2>3. PlicProps = t \o U32("#interrupt-cells", <<1>>)
    BY DEF PlicProps
  <2> QED
    BY <1>3, <1>6, <2>2, <2>3
<1>8. PlicNode = Node("plic@c000000", PlicProps)
  BY Zenon DEF PlicNode, PlicProps, PlicLeft, PlicRight
<1>9. Controller(PlicProps, 3) /\ Nested(PlicProps)
  BY <1>7 DEF Controller, Census
<1> QED
  BY <1>7, <1>8, <1>9, CensusNode, ProvidedNode

\* The nodes without phandles.
LEMMA OthersPlain ==
  ASSUME NEW o
  PROVE  Plain(ChosenNode(o)) /\ Plain(SerialNode) /\ Plain(ClintNode) /\ Plain(VirtioNode(o))
<1>1. \A s, t : Plain(s) /\ Plain(t) => Plain(s \o t)
  BY CensusPlain
<1>2. /\ IsOther("stdout-path") /\ IsOther("bootargs") /\ IsOther("interrupts")
      /\ IsOther("clock-frequency") /\ IsOther("reg") /\ IsOther("compatible")
  BY Zenon DEF IsOther
<1>3. Plain(InitrdProps(o))
  <2> IsOther("linux,initrd-start") /\ IsOther("linux,initrd-end")
    BY Zenon DEF IsOther
  <2>1. /\ Plain(Packed(o.initrdStart, Max64, U64("linux,initrd-start", <<o.initrdStart>>)))
        /\ Plain(Packed(o.initrdEnd, Max64, U64("linux,initrd-end", <<o.initrdEnd>>)))
    BY PlainProps, PlainPacked, Zenon
  <2> QED
    BY <1>1, <2>1, PlainOthers, Zenon DEF InitrdProps
<1>4. Plain(ChosenNode(o))
  <2>1. /\ Plain(Str("stdout-path", "/soc/serial@10000000")) /\ Plain(Str("bootargs", o.bootargs))
    BY <1>2, PlainProps, Zenon
  <2>2. Plain(IF o.bootargs = "" THEN <<>> ELSE Str("bootargs", o.bootargs))
    BY <2>1, PlainOthers, Zenon
  <2> QED
    BY <1>1, <1>3, <2>1, <2>2, PlainNode, Zenon DEF ChosenNode
<1>5. Plain(SerialNode)
  <2>1. /\ Plain(U32("interrupts", <<10>>)) /\ Plain(U32("clock-frequency", <<3686400>>))
        /\ Plain(Reg2("reg", "uart")) /\ Plain(Str("compatible", "ns16550a"))
    BY <1>2, PlainProps
  <2>2. Plain(U32("interrupt-parent", <<3>>))
    BY CensusParent DEF Plain
  <2> QED
    BY <1>1, <2>1, <2>2, PlainNode DEF SerialNode
<1>6. Plain(ClintNode)
  <2>1. /\ Plain(Reg2("reg", "clint")) /\ Plain(StrList("compatible", <<"sifive,clint0", "riscv,clint0">>))
    BY <1>2, PlainProps, Zenon
  <2>2. Plain(U32("interrupts-extended", <<2, 3, 2, 7>>))
    BY CensusExtended DEF Plain
  <2> QED
    BY <1>1, <2>1, <2>2, PlainNode, Zenon DEF ClintNode
<1>7. Plain(VirtioNode(o))
  <2>1. /\ Plain(Packed(o.base, Max32, Reg2("reg", "virtio")))
        /\ Plain(Packed(o.irq, Max32, U32("interrupts", <<o.irq>>)))
        /\ Plain(Str("compatible", "virtio,mmio"))
    BY <1>2, PlainProps, PlainPacked, Zenon
  <2>2. Plain(U32("interrupt-parent", <<3>>))
    BY CensusParent DEF Plain
  <2> QED
    BY <1>1, <2>1, <2>2, PlainNode, PlainOthers, Zenon DEF VirtioNode
<1> QED
  BY <1>4, <1>5, <1>6, <1>7

SocProps ==
  U32("#address-cells", <<2>>) \o U32("#size-cells", <<2>>)
  \o Str("compatible", "simple-bus") \o Flag("ranges") \o SerialNode \o ClintNode
SocNode(o) == Node("soc", SocProps \o PlicNode \o VirtioNode(o))
RootProps ==
  U32("#address-cells", <<2>>) \o U32("#size-cells", <<2>>)
  \o Str("compatible", "riscv-virtio") \o Str("model", "riscv-virtio,qemu")
  \o Node("memory@80000000", Str("device_type", "memory") \o Reg2("reg", "ram"))

\* The phandles of the tree, whatever the options.
LEMMA CallsCensus ==
  ASSUME NEW o
  PROVE  Census(Calls(o), {1, 2, 3}) /\ Provided(Calls(o), 2) /\ Provided(Calls(o), 3)
<1>1. \A s, t : Plain(s) /\ Plain(t) => Plain(s \o t)
  BY CensusPlain
<1>2. /\ IsOther("#address-cells") /\ IsOther("#size-cells") /\ IsOther("compatible")
      /\ IsOther("ranges") /\ IsOther("model") /\ IsOther("device_type") /\ IsOther("reg")
  BY Zenon DEF IsOther
<1>3. /\ Plain(U32("#address-cells", <<2>>)) /\ Plain(U32("#size-cells", <<2>>))
      /\ Plain(Str("compatible", "simple-bus")) /\ Plain(Flag("ranges"))
      /\ Plain(Str("compatible", "riscv-virtio")) /\ Plain(Str("model", "riscv-virtio,qemu"))
      /\ Plain(Str("device_type", "memory")) /\ Plain(Reg2("reg", "ram"))
  BY <1>2, PlainProps, Zenon
<1>4. Plain(RootProps)
  <2>1. Plain(Node("memory@80000000", Str("device_type", "memory") \o Reg2("reg", "ram")))
    BY <1>1, <1>3, PlainNode, Zenon
  <2> QED
    BY <1>1, <1>3, <2>1, Zenon DEF RootProps
<1>5. Plain(SocProps)
  <2>1. Plain(U32("#address-cells", <<2>>) \o U32("#size-cells", <<2>>)
              \o Str("compatible", "simple-bus") \o Flag("ranges"))
    BY <1>1, <1>3, Zenon
  <2> QED
    BY <1>1, <2>1, OthersPlain, Zenon DEF SocProps
<1>6. Census(SocNode(o), {3}) /\ Provided(SocNode(o), 3)
  <2>1. Nested(SocProps) /\ Nested(PlicNode) /\ Nested(VirtioNode(o))
    BY <1>5, PlicCensus, OthersPlain DEF Plain, Census
  <2> PICK s : s = SocProps \o PlicNode
    OBVIOUS
  <2>2. Census(s, {3}) /\ Provided(s, 3)
    BY <1>5, <2>1, PlicCensus, CensusPlain, ProvidedRight
  <2>3. Nested(s)
    BY <2>2 DEF Census
  <2>4. Census(s \o VirtioNode(o), {3}) /\ Provided(s \o VirtioNode(o), 3)
    BY <2>1, <2>2, <2>3, OthersPlain, CensusPlain, ProvidedLeft
  <2>5. Nested(s \o VirtioNode(o))
    BY <2>4 DEF Census
  <2> QED
    BY <2>4, <2>5, CensusNode, ProvidedInside DEF SocNode
<1> PICK s : s = RootProps \o CpusNode(o) \o ChosenNode(o)
  OBVIOUS
<1>7. Census(s, {1, 2}) /\ Provided(s, 2)
  <2>1. Nested(RootProps) /\ Nested(CpusNode(o)) /\ Nested(ChosenNode(o))
    BY <1>4, CpuCensus, OthersPlain DEF Plain, Census
  <2> PICK t : t = RootProps \o CpusNode(o)
    OBVIOUS
  <2>2. Census(t, {1, 2}) /\ Provided(t, 2)
    BY <1>4, <2>1, CpuCensus, CensusPlain, ProvidedRight
  <2>3. Nested(t)
    BY <2>2 DEF Census
  <2> QED
    BY <2>1, <2>2, <2>3, OthersPlain, CensusPlain, ProvidedLeft
<1> PICK u : u = s \o SocNode(o)
  OBVIOUS
<1>8. Census(u, {1, 2, 3}) /\ Provided(u, 2) /\ Provided(u, 3)
  <2>1. Nested(s) /\ Nested(SocNode(o))
    BY <1>6, <1>7 DEF Census
  <2>2. {1, 2} \cap {3} = {} /\ {1, 2} \cup {3} = {1, 2, 3}
    OBVIOUS
  <2>3. Census(u, {1, 2} \cup {3})
    BY <1>6, <1>7, <2>2, CensusJoin
  <2>4. Census(u, {1, 2, 3})
    BY <2>2, <2>3
  <2> QED
    BY <1>6, <1>7, <2>1, <2>4, ProvidedLeft, ProvidedRight
<1>9. Calls(o) = Node("", u)
  BY Zenon DEF Calls, RootProps, SocProps, SocNode
<1>10. Nested(u)
  BY <1>8 DEF Census
<1> QED
  BY <1>8, <1>9, <1>10, CensusNode, ProvidedInside

-----------------------------------------------------------------------------
\* The lines of the dump, which are those of the calls.

\* Every line is of a call.
LEMMA RankMeets ==
  ASSUME NEW calls, IsCalls(calls), NEW k \in 1 .. Cardinality(Told(calls))
  PROVE  \E i \in Told(calls) : Rank(calls, i) = k
<1> DEFINE S == {i \in 1 .. Len(calls) : Rank(calls, i) >= k}
<1>1. Len(calls) \in Nat /\ Cardinality(Told(calls)) \in Nat
  BY ToldFinite
<1>2. Rank(calls, Len(calls)) >= k /\ Rank(calls, 0) = 0
  BY <1>1, RankLast, RankFirst
<1>3. Len(calls) # 0
  BY <1>2
<1>4. Len(calls) \in S /\ S \in SUBSET Nat
  BY <1>1, <1>2, <1>3
<1>5. PICK i \in S : \A j \in S : i <= j
  BY <1>4, LeastOf
<1>6. i \in 1 .. Len(calls) /\ Rank(calls, i) >= k
  OBVIOUS
<1>7. /\ Rank(calls, i - 1) \in Nat
      /\ Rank(calls, i) = Rank(calls, i - 1) + (IF i \in Told(calls) THEN 1 ELSE 0)
  BY <1>6, RankStep
<1>8. Rank(calls, i - 1) < k
  <2>1. CASE i = 1
    <3>1. i - 1 = 0
      BY <2>1
    <3> QED
      BY <1>2, <3>1
  <2>2. CASE i # 1
    <3>1. i - 1 \in 1 .. Len(calls) /\ ~(i <= i - 1)
      BY <1>1, <1>6, <2>2
    <3>2. ~(Rank(calls, i - 1) >= k)
      BY <1>5, <3>1
    <3> QED
      BY <1>7, <3>2
  <2> QED
    BY <2>1, <2>2
<1>9. i \in Told(calls) /\ Rank(calls, i) = k
  <2> HIDE DEF S
  <2>1. CASE i \in Told(calls)
    BY <1>6, <1>7, <1>8, <2>1
  <2>2. CASE i \notin Told(calls)
    BY <1>6, <1>7, <1>8, <2>2
  <2> QED
    BY <2>1, <2>2
<1> QED
  BY <1>9

\* The dump has ended.
Whole(calls) ==
  /\ Nested(calls)
  /\ DOMAIN lines = 1 .. Cardinality(Told(calls))
  /\ \A k \in DOMAIN lines : lines[k] = Lines(calls)[k]

\* What a line says of its call.
Says(calls, i, k) ==
  /\ k \in DOMAIN lines /\ lines[k].depth = Level(calls, i)
  /\ lines[k].node <=> calls[i].op = "begin"
  /\ lines[k].name = calls[i].name
  /\ calls[i].op # "begin" => lines[k].shown = Shown(calls[i].name, calls[i].value)

\* A call's line says it.
LEMMA LineSays ==
  ASSUME NEW calls, Whole(calls), NEW i \in Told(calls)
  PROVE  Says(calls, i, Rank(calls, i))
<1> PICK k : k = Rank(calls, i)
  OBVIOUS
<1>1. k \in DOMAIN lines /\ lines[k] = LineOf(calls, i)
  BY LineFound DEF Whole, Nested
<1>2. CASE calls[i].op = "begin"
  <2>1. lines[k] = NodeLine(Level(calls, i), calls[i].name)
    BY <1>1, <1>2 DEF LineOf
  <2>2. \A d, n : /\ NodeLine(d, n).depth = d /\ NodeLine(d, n).name = n
                  /\ NodeLine(d, n).node = TRUE
    BY Zenon DEF NodeLine
  <2> QED
    BY <1>1, <1>2, <2>1, <2>2 DEF Says
<1>3. CASE calls[i].op # "begin"
  <2>1. lines[k] = PropLine(Level(calls, i), calls[i].name, calls[i].value)
    BY <1>1, <1>3 DEF LineOf
  <2> QED
    BY <1>1, <1>3, <2>1 DEF PropLine, Says
<1> QED
  BY <1>2, <1>3

\* The lines of a name are of the properties of that name.
LEMMA HasIsNamed ==
  ASSUME NEW calls, Whole(calls), NEW name
  PROVE  /\ \A k \in Has(name) : \E i \in Named(calls, name) :
              i \in Told(calls) /\ k = Rank(calls, i) /\ Says(calls, i, k)
         /\ \A i \in Named(calls, name) :
              i \in Told(calls) /\ Rank(calls, i) \in Has(name) /\ Says(calls, i, Rank(calls, i))
<1>1. IsCalls(calls) /\ DOMAIN lines = 1 .. Cardinality(Told(calls))
  BY DEF Whole, Nested
<1>2. DOMAIN calls = 1 .. Len(calls)
  BY <1>1, ToldFinite
<1>3. ASSUME NEW k \in Has(name)
      PROVE  \E i \in Named(calls, name) : i \in Told(calls) /\ k = Rank(calls, i) /\ Says(calls, i, k)
  <2>1. k \in DOMAIN lines /\ ~lines[k].node /\ lines[k].name = name
    BY DEF Has, Properties
  <2>2. PICK i \in Told(calls) : Rank(calls, i) = k
    BY <1>1, <2>1, RankMeets
  <2>3. Says(calls, i, k)
    BY <2>2, LineSays
  <2>4. calls[i].op # "begin" /\ calls[i].name = name /\ calls[i].op # "end" /\ i \in 1 .. Len(calls)
    BY <1>2, <2>1, <2>3 DEF Says, Told
  <2>5. i \in Named(calls, name)
    BY <2>4 DEF Named
  <2> QED
    BY <2>2, <2>3, <2>5
<1>4. ASSUME NEW i \in Named(calls, name)
      PROVE  i \in Told(calls) /\ Rank(calls, i) \in Has(name) /\ Says(calls, i, Rank(calls, i))
  <2>1. i \in 1 .. Len(calls) /\ calls[i].op # "begin" /\ calls[i].op # "end" /\ calls[i].name = name
    BY DEF Named
  <2>2. i \in Told(calls)
    BY <1>2, <2>1 DEF Told
  <2>3. Says(calls, i, Rank(calls, i))
    BY <2>2, LineSays
  <2> QED
    BY <2>1, <2>2, <2>3 DEF Says, Has, Properties
<1> QED
  BY <1>3, <1>4

\* The node of a property, as the dump shows it.
LEMMA OwnerFound ==
  ASSUME NEW calls, Whole(calls), NEW b, NEW i, Child(calls, b, i), calls[i].op # "end"
  PROVE  Owner(Rank(calls, i)) = Rank(calls, b)
<1>1. IsCalls(calls) /\ Nested(calls)
  BY DEF Whole, Nested
<1>2. /\ Len(calls) \in Nat /\ DOMAIN calls = 1 .. Len(calls)
      /\ Told(calls) \subseteq 1 .. Len(calls) /\ Cardinality(Told(calls)) \in Nat
  BY <1>1, ToldFinite
<1>3. /\ b \in 1 .. Len(calls) /\ i \in 1 .. Len(calls) /\ b < i /\ calls[b].op = "begin"
      /\ Level(calls, i) = Level(calls, b) + 1
      /\ \A k \in b + 1 .. i : Level(calls, k) > Level(calls, b)
  BY DEF Child
<1>4. b \in Told(calls) /\ i \in Told(calls)
  BY <1>2, <1>3 DEF Told
<1> PICK p : p = Rank(calls, b)
  OBVIOUS
<1> PICK r : r = Rank(calls, i)
  OBVIOUS
<1>5. p < r /\ p \in 1 .. Cardinality(Told(calls)) /\ r \in 1 .. Cardinality(Told(calls))
  BY <1>1, <1>3, <1>4, RankOrder, LineFound
<1>6. Says(calls, b, p) /\ Says(calls, i, r)
  BY <1>4, LineSays
<1> PICK d \in Nat : d = Level(calls, b)
  <2>1. b \in 1 .. Len(calls) + 1
    BY <1>2, <1>3
  <2> QED
    BY <1>1, <2>1, NestedLevels
<1>7. lines[p].node /\ lines[p].depth = d /\ lines[r].depth = d + 1
  BY <1>3, <1>6 DEF Says
<1>8. ASSUME NEW k \in p + 1 .. r - 1, lines[k].node PROVE lines[k].depth \in Int /\ lines[k].depth >= d + 1
  <2>1. k \in 1 .. Cardinality(Told(calls))
    BY <1>2, <1>5
  <2>2. PICK c \in Told(calls) : Rank(calls, c) = k
    BY <1>1, <2>1, RankMeets
  <2>3. c \in 1 .. Len(calls)
    BY <1>2
  <2>4. b < c /\ c < i
    <3>1. ASSUME c < b PROVE FALSE
      <4>1. k < p
        BY <1>1, <1>4, <2>2, <3>1, RankOrder
      <4> QED
        BY <1>5, <4>1
    <3>2. ASSUME i < c PROVE FALSE
      <4>1. r < k
        BY <1>1, <1>4, <2>2, <3>2, RankOrder
      <4> QED
        BY <1>5, <4>1
    <3>3. c # b /\ c # i
      BY <1>5, <2>2
    <3> QED
      BY <1>3, <2>3, <3>1, <3>2, <3>3
  <2>5. Level(calls, c) > d
    <3>1. c \in b + 1 .. i
      BY <1>3, <2>3, <2>4
    <3> QED
      BY <1>3, <3>1
  <2>6. Level(calls, c) \in Int
    BY <2>3, LevelStep
  <2>7. lines[k].depth = Level(calls, c)
    BY <2>2, LineSays DEF Says
  <2> QED
    BY <2>5, <2>6, <2>7
<1> DEFINE IsOwner(j) == /\ lines[j].node /\ lines[j].depth = lines[r].depth - 1
                         /\ \A k \in j + 1 .. r - 1 : lines[k].node => lines[k].depth >= lines[r].depth
<1>9. p \in 1 .. r - 1 /\ IsOwner(p)
  <2>1. lines[r].depth - 1 = d
    BY <1>7
  <2>2. \A k \in p + 1 .. r - 1 : lines[k].node => lines[k].depth >= lines[r].depth
    BY <1>7, <1>8
  <2>3. p \in 1 .. r - 1
    BY <1>2, <1>5
  <2> QED
    BY <1>7, <2>1, <2>2, <2>3
<1>10. ASSUME NEW j \in 1 .. r - 1, IsOwner(j) PROVE j = p
  <2>1. lines[j].node /\ lines[j].depth = d
    BY <1>7, <1>10
  <2>2. ASSUME p < j PROVE FALSE
    <3>1. j \in p + 1 .. r - 1
      BY <1>5, <2>2
    <3>2. lines[j].depth >= d + 1
      BY <1>8, <2>1, <3>1
    <3> QED
      BY <2>1, <3>2
  <2>3. ASSUME j < p PROVE FALSE
    <3>1. p \in j + 1 .. r - 1
      BY <1>5, <2>3
    <3>2. lines[p].depth >= lines[r].depth
      BY <1>7, <1>10, <3>1
    <3> QED
      BY <1>7, <3>2
  <2> QED
    BY <1>5, <2>2, <2>3
<1> HIDE DEF IsOwner
<1>11. (CHOOSE j \in 1 .. r - 1 : IsOwner(j)) = p
  BY <1>9, <1>10
<1>12. Owner(r) = CHOOSE j \in 1 .. r - 1 : IsOwner(j)
  BY DEF Owner, IsOwner
<1> QED
  BY <1>11, <1>12

\* A short value is shown number for number.
LEMMA ShownCells ==
  ASSUME NEW name, NEW nums, 4 * Len(nums) \in 1 .. 32
  PROVE  Shown(name, Cells(nums)).nums = nums
<1>1. Cells(nums).len = 4 * Len(nums) /\ Cells(nums).nums = nums
  BY DEF Cells, Value, Item
<1>2. PICK c : c = Cells(nums)
  OBVIOUS
<1>3. c.len \in 1 .. 32 /\ c.nums = nums
  BY <1>1, <1>2
<1>4. Shown(name, c).nums = c.nums
  BY <1>3 DEF Shown
<1> QED
  BY <1>2, <1>3, <1>4

\* Lines of phandles and of references to them.
LEMMA ShownPhandles ==
  ASSUME NEW name
  PROVE  /\ \A p : Shown(name, Cells(<<p>>)).nums = <<p>>
         /\ \A a, b : LET nums == Shown(name, Cells(<<2, a, 2, b>>)).nums
                      IN nums[1] = 2 /\ nums[3] = 2
<1>1. ASSUME NEW p PROVE Shown(name, Cells(<<p>>)).nums = <<p>>
  <2>1. 4 * Len(<<p>>) \in 1 .. 32
    OBVIOUS
  <2> QED
    BY <2>1, ShownCells
<1>2. ASSUME NEW a, NEW b
      PROVE  /\ Shown(name, Cells(<<2, a, 2, b>>)).nums[1] = 2
             /\ Shown(name, Cells(<<2, a, 2, b>>)).nums[3] = 2
  <2>1. 4 * Len(<<2, a, 2, b>>) \in 1 .. 32
    OBVIOUS
  <2>2. Shown(name, Cells(<<2, a, 2, b>>)).nums = <<2, a, 2, b>>
    BY <2>1, ShownCells
  <2>3. <<2, a, 2, b>>[1] = 2 /\ <<2, a, 2, b>>[3] = 2
    OBVIOUS
  <2> QED
    BY <2>2, <2>3
<1> QED
  BY <1>1, <1>2

\* No two lines show the same phandle.
LEMMA PhandlesDiffer ==
  ASSUME NEW calls, Whole(calls), NEW H, Census(calls, H),
         NEW k \in Has("phandle"), NEW m \in Has("phandle"), lines[k].shown = lines[m].shown
  PROVE  k = m
<1>1. PICK i \in Named(calls, "phandle") : k = Rank(calls, i) /\ Says(calls, i, k)
  BY HasIsNamed
<1>2. PICK j \in Named(calls, "phandle") : m = Rank(calls, j) /\ Says(calls, j, m)
  BY HasIsNamed
<1>3. ASSUME NEW l \in Named(calls, "phandle"), NEW n, Says(calls, l, n)
      PROVE  \E p : calls[l].value = Cells(<<p>>) /\ lines[n].shown.nums = <<p>>
  <2>1. calls[l].op # "begin" /\ calls[l].name = "phandle"
    BY DEF Named
  <2>2. PICK p \in H : calls[l].value = Cells(<<p>>)
    BY DEF Census, Phandles
  <2>3. lines[n].shown = Shown("phandle", Cells(<<p>>))
    BY <1>3, <2>1, <2>2 DEF Says
  <2> QED
    BY <2>2, <2>3, ShownPhandles
<1>4. PICK p : calls[i].value = Cells(<<p>>) /\ lines[k].shown.nums = <<p>>
  <2>1. Says(calls, i, k)
    BY <1>1
  <2> QED
    BY <1>3, <2>1
<1>5. PICK q : calls[j].value = Cells(<<q>>) /\ lines[m].shown.nums = <<q>>
  <2>1. Says(calls, j, m)
    BY <1>2
  <2> QED
    BY <1>3, <2>1
<1>6. <<p>> = <<q>>
  BY <1>4, <1>5
<1>7. calls[i].value = calls[j].value
  BY <1>4, <1>5, <1>6
<1>8. i = j
  BY <1>7 DEF Census, Apart
<1> QED
  BY <1>1, <1>2, <1>8

\* The references are to the two interrupt controllers.
LEMMA ReferredTo ==
  ASSUME NEW calls, Whole(calls), NEW H, Census(calls, H)
  PROVE  Referred \subseteq {2, 3}
<1>1. ASSUME NEW k \in Has("interrupt-parent") PROVE lines[k].shown.nums[1] = 3
  <2>1. PICK i \in Named(calls, "interrupt-parent") : Says(calls, i, k)
    BY HasIsNamed
  <2>2. /\ calls[i].op # "begin" /\ calls[i].name = "interrupt-parent"
        /\ calls[i].value = Cells(<<3>>)
    BY DEF Named, Census, PlicRefs
  <2>3. lines[k].shown = Shown("interrupt-parent", Cells(<<3>>))
    BY <2>1, <2>2 DEF Says
  <2>4. lines[k].shown.nums = <<3>>
    BY <2>3, ShownPhandles
  <2> QED
    BY <2>4
<1>2. ASSUME NEW k \in Has("interrupts-extended")
      PROVE  lines[k].shown.nums[1] = 2 /\ lines[k].shown.nums[3] = 2
  <2>1. PICK i \in Named(calls, "interrupts-extended") : Says(calls, i, k)
    BY HasIsNamed
  <2>2. calls[i].op # "begin" /\ calls[i].name = "interrupts-extended"
    BY DEF Named
  <2>3. PICK a, b \in Nat : calls[i].value = Cells(<<2, a, 2, b>>)
    BY DEF Census, HartRefs
  <2>4. lines[k].shown = Shown("interrupts-extended", Cells(<<2, a, 2, b>>))
    BY <2>1, <2>2, <2>3 DEF Says
  <2> QED
    BY <2>4, ShownPhandles
<1>3. ASSUME NEW p \in Referred PROVE p \in {2, 3}
  <2>1. CASE \E k \in Has("interrupt-parent") : p = lines[k].shown.nums[1]
    BY <1>1, <2>1
  <2>2. CASE \E k \in Has("interrupts-extended") : p \in {lines[k].shown.nums[1], lines[k].shown.nums[3]}
    BY <1>2, <2>2
  <2> QED
    BY <2>1, <2>2 DEF Referred
<1> QED
  BY <1>3

\* An interrupt controller of the calls is one of the dump.
LEMMA ControllerShown ==
  ASSUME NEW calls, Whole(calls), NEW p, Provided(calls, p)
  PROVE  \E i \in Has("phandle") :
           /\ lines[i].shown.nums = <<p>>
           /\ \E f \in Has("interrupt-controller") : Owner(f) = Owner(i)
<1>1. PICK b, i, f :
        /\ Child(calls, b, i) /\ i \in Named(calls, "phandle") /\ calls[i].value = Cells(<<p>>)
        /\ Child(calls, b, f) /\ f \in Named(calls, "interrupt-controller")
  BY DEF Provided
<1>2. /\ calls[i].op # "begin" /\ calls[i].op # "end" /\ calls[i].name = "phandle"
      /\ calls[f].op # "end"
  BY <1>1 DEF Named
<1>3. /\ Rank(calls, i) \in Has("phandle") /\ Says(calls, i, Rank(calls, i))
      /\ Rank(calls, f) \in Has("interrupt-controller")
  BY <1>1, HasIsNamed
<1>4. lines[Rank(calls, i)].shown = Shown("phandle", Cells(<<p>>))
  BY <1>1, <1>2, <1>3 DEF Says
<1>5. lines[Rank(calls, i)].shown.nums = <<p>>
  BY <1>4, ShownPhandles
<1>6. Owner(Rank(calls, i)) = Rank(calls, b) /\ Owner(Rank(calls, f)) = Rank(calls, b)
  BY <1>1, <1>2, OwnerFound
<1> QED
  BY <1>3, <1>5, <1>6

\* In every whole dump a phandle is of one node only, and each reference to one
\* leads to an interrupt controller, whatever the options.
THEOREM ReferencesHold == Spec => []ReferencesResolve
<1>1. TreeInv => ReferencesResolve
  <2> SUFFICES ASSUME TreeInv, mode = "done" PROVE ReferencesResolve
    BY DEF ReferencesResolve
  <2> PICK calls : calls = Calls(options)
    OBVIOUS
  <2> HIDE DEF Calls
  <2>1. options \in CommandLines /\ Progress(calls)
    BY DEF TreeInv, Inputs
  <2>2. Nested(calls) /\ IsCalls(calls) /\ Len(calls) \in Nat
    BY <2>1, InputsGood, ToldFinite DEF GoodCalls, Nested
  <2>3. lines = Beginning(Lines(calls), Cardinality(Told(calls)))
    <3>1. ReadUpTo(calls, Len(calls) + 1) /\ (Len(calls) + 1) - 1 = Len(calls)
      BY <2>1, <2>2 DEF Progress
    <3> QED
      BY <2>2, <3>1, RankLast DEF ReadUpTo
  <2>4. Whole(calls)
    BY <2>2, <2>3 DEF Beginning, Whole
  <2>5. Census(calls, {1, 2, 3}) /\ Provided(calls, 2) /\ Provided(calls, 3)
    BY CallsCensus
  <2>6. \A i, j \in Has("phandle") : lines[i].shown = lines[j].shown => i = j
    BY <2>4, <2>5, PhandlesDiffer
  <2>7. ASSUME NEW p \in Referred
        PROVE  \E i \in Has("phandle") :
                 /\ lines[i].shown.nums = <<p>>
                 /\ \E f \in Has("interrupt-controller") : Owner(f) = Owner(i)
    <3>1. p = 2 \/ p = 3
      BY <2>4, <2>5, ReferredTo
    <3>2. Provided(calls, p)
      BY <2>5, <3>1
    <3> QED
      BY <2>4, <3>2, ControllerShown
  <2> QED
    BY <2>6, <2>7 DEF ReferencesResolve
<1> QED
  BY <1>1, TreeInvariance, PTL

=============================================================================
