--------------------------------- MODULE Dtb ---------------------------------
(***************************************************************************)
(* The device tree blob: DTBBuilder, which writes one, and dump_dtb, which *)
(* reads it back.                                                          *)
(*                                                                         *)
(* A block of the blob is a function from offsets to the item that starts  *)
(* there: a token, another 32-bit word, a NUL-terminated text, or the      *)
(* value of a property.  Every offset without an item is the inside of an item or     *)
(* padding.  The reader finds something only at the very offset where it   *)
(* was put, which is what the alignments of the two programs must ensure;  *)
(* the digits of words and the characters of texts are abstracted.         *)
(***************************************************************************)
EXTENDS Integers, Sequences

CONSTANTS
  Texts,     \* the names and values in use
  Bytes(_)   \* length of a text when encoded, without its NUL

ASSUME BytesAssumption == \A t \in Texts : Bytes(t) \in Nat

BEGIN_NODE == 1
END_NODE == 2
PROP == 3
END == 9

HdrSize == 40
RsvSize == 16

VARIABLES
  struct,     \* _struct: the items of the structure block
  structLen,  \* len(_struct)
  strings,    \* _strings: the offset given to each property name
  strtab,     \* _strtab: the texts of the string block
  strtabLen,  \* len(_strtab)
  header,     \* the header, once build has made it
  mode,       \* "building", "raised", "reading", "done" or "garbled"
  pos, depth, \* of the reader
  lines       \* what it has printed

builderVars == <<struct, structLen, strings, strtab, strtabLen>>
readerVars == <<pos, depth, lines>>
dtbVars == <<builderVars, header, mode, readerVars>>

Item(kind, len, nums, texts) == [kind |-> kind, len |-> len, nums |-> nums, texts |-> texts]
Token(n) == Item("token", 4, <<n>>, <<>>)
Word(n) == Item("word", 4, <<n>>, <<>>)
Text(t) == Item("text", Bytes(t) + 1, <<>>, <<t>>)
Value(len, nums, texts) == Item("value", len, nums, texts)
Nothing == Item("nothing", 0, <<>>, <<>>)

With(f, at, x) == [p \in DOMAIN f \cup {at} |-> IF p = at THEN x ELSE f[p]]

Padded(n) == n + ((-n) % 4)

RoundUp_Down(n) == n - (n % 4)
RoundUp(n) == ((n + 3) \div 4) * 4

-----------------------------------------------------------------------------
\* DTBBuilder.  One operator per method; the callers decide their order.

BeginNode(name) ==
  /\ struct' = With(With(struct, structLen, Token(BEGIN_NODE)), structLen + 4, Text(name))
  /\ structLen' = structLen + 4 + Padded(Bytes(name) + 1)
  /\ UNCHANGED <<strings, strtab, strtabLen>>

EndNode ==
  /\ struct' = With(struct, structLen, Token(END_NODE))
  /\ structLen' = structLen + 4
  /\ UNCHANGED <<strings, strtab, strtabLen>>

\* _str_off: a name met before keeps its offset.
StrOff(name) == IF name \in DOMAIN strings THEN strings[name] ELSE strtabLen

AddString_NoNul(name) ==
  IF name \in DOMAIN strings
    THEN UNCHANGED <<strings, strtab, strtabLen>>
    ELSE /\ strings' = With(strings, name, strtabLen)
         /\ strtab' = With(strtab, strtabLen, Text(name))
         /\ strtabLen' = strtabLen + Bytes(name)

AddString(name) ==
  IF name \in DOMAIN strings
    THEN UNCHANGED <<strings, strtab, strtabLen>>
    ELSE /\ strings' = With(strings, name, strtabLen)
         /\ strtab' = With(strtab, strtabLen, Text(name))
         /\ strtabLen' = strtabLen + Bytes(name) + 1

PropHead(name, value) ==
  With(With(With(struct, structLen, Token(PROP)),
            structLen + 4, Word(value.len)),
       structLen + 8, Word(StrOff(name)))

Prop(name, value) ==
  /\ struct' = IF value.len = 0 THEN PropHead(name, value)
                                ELSE With(PropHead(name, value), structLen + 12, value)
  /\ structLen' = structLen + 12 + Padded(value.len)
  /\ AddString(name)

\* build: the final token, then the offsets and sizes of the header.
Header(len) ==
  LET offStruct == HdrSize + RsvSize
      offStrings == offStruct + len
  IN [total |-> RoundUp(offStrings + strtabLen),
      offStruct |-> offStruct, offStrings |-> offStrings,
      sizeStruct |-> len, sizeStrings |-> strtabLen]

\* ... and dump_dtb up to its loop.
Build ==
  /\ mode = "building"
  /\ struct' = With(struct, structLen, Token(END))
  /\ structLen' = structLen + 4
  /\ header' = Header(structLen + 4)
  /\ mode' = "reading"
  /\ pos' = header'.offStruct
  /\ UNCHANGED <<strings, strtab, strtabLen, depth, lines>>

-----------------------------------------------------------------------------
\* dump_dtb.  The blob is header, reservation map, structure block, string
\* block and padding, in this order whatever the header says.

Data(p) ==
  LET s == p - (HdrSize + RsvSize)
      t == s - structLen
  IN IF s \in DOMAIN struct THEN struct[s]
     ELSE IF t \in DOMAIN strtab THEN strtab[t] ELSE Nothing

IsWord(p) == Data(p).kind = "word"
At(p) == Data(p).nums[1]

\* Which properties are printed as text, as a bare name, as a number, in
\* hexadecimal, or by their length only.
TextProps == {"compatible", "status", "device_type", "stdout-path", "bootargs",
              "riscv,isa", "clock-names", "label"}
Shown(name, value) ==
  IF name \in TextProps \/ value.len \in 1 .. 32
    THEN [form |-> IF name \in TextProps THEN "text" ELSE IF value.len <= 8 THEN "number" ELSE "hex",
          nums |-> value.nums, texts |-> value.texts]
    ELSE [form |-> IF value.len = 0 THEN "flag" ELSE "count", nums |-> <<value.len>>, texts |-> <<>>]

NodeLine(d, name) == [depth |-> d, name |-> name, shown |-> Shown("", Value(0, <<>>, <<>>)), node |-> TRUE]
PropLine(d, name, value) == [depth |-> d, name |-> name, shown |-> Shown(name, value), node |-> FALSE]

InBlock == pos < header.offStruct + header.sizeStruct

NameOf(p) == Data(header.offStrings + At(p + 8))
ValueOf(p) == IF At(p + 4) = 0 THEN Value(0, <<>>, <<>>) ELSE Data(p + 12)

\* A token stands at p, and what the reader takes for its name, its length or
\* its value is one.
Readable(p) ==
  /\ Data(p).kind = "token"
  /\ At(p) = BEGIN_NODE => Data(p + 4).kind = "text"
  /\ At(p) = PROP => /\ IsWord(p + 4) /\ IsWord(p + 8)
                     /\ NameOf(p).kind = "text"
                     /\ ValueOf(p).kind = "value" /\ ValueOf(p).len = At(p + 4)

ReadBegin_SameDepth ==
  LET name == Data(pos + 4) IN
  /\ lines' = Append(lines, NodeLine(depth, name.texts[1]))
  /\ pos' = RoundUp(pos + 4 + name.len)
  /\ UNCHANGED <<depth, mode>>

ReadBegin ==
  LET name == Data(pos + 4) IN
  /\ lines' = Append(lines, NodeLine(depth, name.texts[1]))
  /\ depth' = depth + 1
  /\ pos' = RoundUp(pos + 4 + name.len)
  /\ UNCHANGED mode

ReadEnd ==
  /\ depth' = depth - 1
  /\ pos' = pos + 4
  /\ UNCHANGED <<lines, mode>>

ReadProp ==
  /\ lines' = Append(lines, PropLine(depth, NameOf(pos).texts[1], ValueOf(pos)))
  /\ pos' = RoundUp(pos + 12 + At(pos + 4))
  /\ UNCHANGED <<depth, mode>>

\* FDT_NOP, and any word the chain of elifs does not name.
SkipWord ==
  /\ pos' = pos + 4
  /\ UNCHANGED <<depth, lines, mode>>

Stop(how) ==
  /\ mode' = how
  /\ UNCHANGED readerVars

\* One turn of the loop.  Where there is no token the reader prints garbage or
\* fails in a search.
ReadToken ==
  IF ~InBlock THEN Stop("done")
  ELSE IF ~Readable(pos) THEN Stop("garbled")
  ELSE CASE At(pos) = BEGIN_NODE -> ReadBegin
         [] At(pos) = END_NODE   -> ReadEnd
         [] At(pos) = PROP       -> ReadProp
         [] At(pos) = END        -> Stop("done")
         [] OTHER                -> SkipWord

Dump ==
  /\ mode = "reading"
  /\ ReadToken
  /\ UNCHANGED <<builderVars, header>>

DtbInit ==
  /\ struct = <<>> /\ structLen = 0
  /\ strings = <<>> /\ strtab = <<>> /\ strtabLen = 0
  /\ header = [total |-> 0, offStruct |-> 0, offStrings |-> 0, sizeStruct |-> 0, sizeStrings |-> 0]
  /\ mode = "building"
  /\ pos = 0 /\ depth = 0 /\ lines = <<>>

\* A program that makes any calls whatever, one after another.
Describe ==
  /\ mode = "building"
  /\ \/ EndNode
     \/ \E name \in Texts :
          \/ BeginNode(name)
          \/ \E len \in Nat, nums \in Seq(Nat), texts \in Seq(Texts) : Prop(name, Value(len, nums, texts))
  /\ UNCHANGED <<header, mode, readerVars>>

Raise ==
  /\ mode = "building" /\ mode' = "raised"
  /\ UNCHANGED <<builderVars, header, readerVars>>

AnyTree == DtbInit /\ [][Describe \/ Raise \/ Build \/ Dump]_dtbVars

-----------------------------------------------------------------------------

\* The string block as _str_off builds it: an offset given to a name, which
\* earlier properties already hold, keeps pointing at that name for good, and
\* no two names share a byte of the block.
StringTableSound ==
  \A n \in DOMAIN strings :
    /\ strings[n] \in DOMAIN strtab /\ strtab[strings[n]] = Text(n)
    /\ strings[n] + Bytes(n) < strtabLen
    /\ \A m \in DOMAIN strings : strings[n] < strings[m] => strings[n] + Bytes(n) < strings[m]

\* Wherever the reader stands it finds a token, and a text and a value of the
\* announced length where the token has them: the padding of the writer and
\* the rounding of the reader agree although they are of different things.
NeverGarbled == mode # "garbled"

=============================================================================
