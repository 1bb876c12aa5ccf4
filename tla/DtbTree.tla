------------------------------- MODULE DtbTree -------------------------------
(***************************************************************************)
(* tools/build_minimal_dtb.py: the tree it describes, as the sequence of   *)
(* calls build_minimal_dtb makes on a DTBBuilder for the options of the    *)
(* command line, followed by tools/dump_dtb.py on the blob it wrote.       *)
(***************************************************************************)
EXTENDS Dtb, FiniteSets, SequencesExt

CONSTANTS
  CommandLines,  \* of build_minimal_dtb.py
  Off,           \* an option that is not given
  Max32, Max64   \* the largest numbers struct.pack has room for as I and as Q

ASSUME OptionAssumption ==
  /\ Off \notin Int /\ Max32 \in Nat /\ Max64 \in Nat
  /\ \A o \in CommandLines :
       /\ o.bootargs \in Texts /\ {o.irq, o.timebase} \subseteq Int
       /\ {o.initrdStart, o.initrdEnd, o.base} \subseteq Int \cup {Off}

VARIABLES
  options,   \* the parsed command line
  next       \* the call made next

vars == <<dtbVars, options, next>>

Begin(name) == [op |-> "begin", name |-> name, value |-> Nothing]
Finish == [op |-> "end", name |-> "", value |-> Nothing]
Fail == [op |-> "raise", name |-> "", value |-> Nothing]
Set(name, value) == <<[op |-> "prop", name |-> name, value |-> value]>>

U32(name, nums) == Set(name, Value(4 * Len(nums), nums, <<>>))
U64(name, nums) == Set(name, Value(8 * Len(nums), nums, <<>>))
StrList(name, texts) ==
  Set(name, Value(FoldLeft(LAMBDA n, t : n + Bytes(t) + 1, 0, texts), <<>>, texts))
Str(name, text) == StrList(name, <<text>>)
Flag(name) == Set(name, Value(0, <<>>, <<>>))
\* Addresses and sizes are named by the device; the high words are 0.
Reg2(name, device) == Set(name, Value(16, <<>>, <<device>>))

\* struct.pack raises on a number of the command line that does not fit.
Packed(n, max, calls) == IF n \in 0 .. max THEN calls ELSE <<Fail>>

Node(name, body) == <<Begin(name)>> \o body \o <<Finish>>

CpuNode ==
  Node("cpu@0",
    U32("phandle", <<1>>) \o Str("device_type", "cpu") \o U32("reg", <<0>>) \o Str("status", "okay")
    \o Str("compatible", "riscv") \o Str("riscv,isa", "rv64imafdcsu_zicsr_zifencei")
    \o Str("mmu-type", "riscv,sv39")
    \o Node("interrupt-controller",
         U32("#interrupt-cells", <<1>>) \o Flag("interrupt-controller")
         \o Str("compatible", "riscv,cpu-intc") \o U32("phandle", <<2>>)))

CpusNode(o) ==
  Node("cpus", U32("#address-cells", <<1>>) \o U32("#size-cells", <<0>>)
               \o Packed(o.timebase, Max32, U32("timebase-frequency", <<o.timebase>>)) \o CpuNode)

\* Both ends of the initrd or none, and a range that is not empty.
BadRange_Empty(o) ==
  /\ {o.initrdStart, o.initrdEnd} # {Off}
  /\ Off \in {o.initrdStart, o.initrdEnd}
BadRange(o) ==
  /\ {o.initrdStart, o.initrdEnd} # {Off}
  /\ \/ Off \in {o.initrdStart, o.initrdEnd}
     \/ o.initrdEnd <= o.initrdStart

InitrdProps(o) ==
  IF {o.initrdStart, o.initrdEnd} = {Off} THEN <<>>
  ELSE IF BadRange(o) THEN <<Fail>>
  ELSE Packed(o.initrdStart, Max64, U64("linux,initrd-start", <<o.initrdStart>>))
       \o Packed(o.initrdEnd, Max64, U64("linux,initrd-end", <<o.initrdEnd>>))

ChosenNode(o) ==
  Node("chosen",
    Str("stdout-path", "/soc/serial@10000000")
    \o (IF o.bootargs = "" THEN <<>> ELSE Str("bootargs", o.bootargs))
    \o InitrdProps(o))

SerialNode ==
  Node("serial@10000000",
    U32("interrupts", <<10>>) \o U32("interrupt-parent", <<3>>) \o U32("clock-frequency", <<3686400>>)
    \o Reg2("reg", "uart") \o Str("compatible", "ns16550a"))

ClintNode ==
  Node("clint@2000000",
    U32("interrupts-extended", <<2, 3, 2, 7>>) \o Reg2("reg", "clint")
    \o StrList("compatible", <<"sifive,clint0", "riscv,clint0">>))

PlicNode_OtherPhandle ==
  Node("plic@c000000",
    U32("phandle", <<1>>) \o U32("riscv,ndev", <<95>>) \o Reg2("reg", "plic")
    \o U32("interrupts-extended", <<2, 11, 2, 9>>) \o Flag("interrupt-controller")
    \o StrList("compatible", <<"sifive,plic-1.0.0", "riscv,plic0">>)
    \o U32("#address-cells", <<0>>) \o U32("#interrupt-cells", <<1>>))

PlicNode ==
  Node("plic@c000000",
    U32("phandle", <<3>>) \o U32("riscv,ndev", <<95>>) \o Reg2("reg", "plic")
    \o U32("interrupts-extended", <<2, 11, 2, 9>>) \o Flag("interrupt-controller")
    \o StrList("compatible", <<"sifive,plic-1.0.0", "riscv,plic0">>)
    \o U32("#address-cells", <<0>>) \o U32("#interrupt-cells", <<1>>))

VirtioNode(o) ==
  IF o.base = Off THEN <<>>
  ELSE Node("virtio_mmio@10001000",
         Packed(o.base, Max32, Reg2("reg", "virtio")) \o U32("interrupt-parent", <<3>>)
         \o Packed(o.irq, Max32, U32("interrupts", <<o.irq>>)) \o Str("compatible", "virtio,mmio"))

\* All the calls of build_minimal_dtb but the last, build.
Calls(o) ==
  Node("",
    U32("#address-cells", <<2>>) \o U32("#size-cells", <<2>>)
    \o Str("compatible", "riscv-virtio") \o Str("model", "riscv-virtio,qemu")
    \o Node("memory@80000000", Str("device_type", "memory") \o Reg2("reg", "ram"))
    \o CpusNode(o) \o ChosenNode(o)
    \o Node("soc",
         U32("#address-cells", <<2>>) \o U32("#size-cells", <<2>>)
         \o Str("compatible", "simple-bus") \o Flag("ranges")
         \o SerialNode \o ClintNode \o PlicNode \o VirtioNode(o)))

\* Texts holds all the names and values of the tree; a value of no bytes is of none.
ASSUME TextsAssumption ==
  \A o \in CommandLines : \A i \in DOMAIN Calls(o) :
    LET c == Calls(o)[i] IN
    /\ c.op \in {"begin", "prop"} => c.name \in Texts
    /\ c.op = "prop" => /\ c.value = Value(c.value.len, c.value.nums, c.value.texts)
                        /\ c.value.len \in Nat /\ c.value.nums \in Seq(Nat)
                        /\ c.value.texts \in Seq(Texts)
                        /\ c.value.len = 0 => c.value = Value(0, <<>>, <<>>)

\* A call, or the exception that leaves the file empty.
Call ==
  /\ mode = "building" /\ next \in DOMAIN Calls(options)
  /\ LET c == Calls(options)[next] IN
     \/ c.op = "raise" /\ Raise
     \/ /\ \/ c.op = "begin" /\ BeginNode(c.name)
           \/ c.op = "end" /\ EndNode
           \/ c.op = "prop" /\ Prop(c.name, c.value)
        /\ UNCHANGED <<header, mode, readerVars>>
  /\ next' = next + 1
  /\ UNCHANGED options

WriteBlob ==
  /\ next \notin DOMAIN Calls(options)
  /\ Build
  /\ UNCHANGED <<options, next>>

Init ==
  /\ DtbInit
  /\ options \in CommandLines
  /\ next = 1

Next ==
  \/ Call
  \/ WriteBlob
  \/ Dump /\ UNCHANGED <<options, next>>

\* The two programs run to their ends.
Spec == Init /\ [][Next]_vars /\ WF_vars(Next)

-----------------------------------------------------------------------------

TypeOK ==
  /\ structLen \in Nat /\ strtabLen \in Nat /\ pos \in Nat /\ depth \in Nat
  /\ DOMAIN struct \subseteq Nat /\ DOMAIN strtab \subseteq Nat
  /\ DOMAIN strings \subseteq Texts /\ \A n \in DOMAIN strings : strings[n] \in Nat
  /\ mode \in {"building", "raised", "reading", "done", "garbled"}
  /\ next \in 1 .. Len(Calls(options)) + 1

\* What the calls mean, with no bytes: one line for each node and property, at
\* the depth of the nodes open there.
Told(calls) == {i \in DOMAIN calls : calls[i].op # "end"}
Rank(calls, i) == Cardinality({j \in Told(calls) : j <= i})
Before(calls, i, op) == Cardinality({j \in 1 .. i - 1 : calls[j].op = op})
Level(calls, i) == Before(calls, i, "begin") - Before(calls, i, "end")
LineOf(calls, i) ==
  LET c == calls[i]
      level == Level(calls, i)
  IN IF c.op = "begin" THEN NodeLine(level, c.name) ELSE PropLine(level, c.name, c.value)
Lines(calls) ==
  LET rank == [i \in Told(calls) |-> Rank(calls, i)]
      line == [i \in Told(calls) |-> LineOf(calls, i)]
  IN [k \in 1 .. Cardinality(Told(calls)) |-> line[CHOOSE i \in Told(calls) : rank[i] = k]]
Listing == [o \in CommandLines |-> Lines(Calls(o))]

\* The dump of a written blob is, line for line, the tree the builder was told
\* to describe: no padding, offset or length of the writer and the reader, for
\* any length of bootargs, makes a token, a name or a value lost or misread, and
\* a dump that ends has come to the last line with every node closed.
ReadBack ==
  /\ NeverGarbled
  /\ IsPrefix(lines, Listing[options])
  /\ mode = "done" => Len(lines) = Len(Listing[options]) /\ depth = 0

\* What Linux needs of the tree: a phandle belongs to one node only, and what
\* interrupt-parent and interrupts-extended name is an interrupt controller.
Properties == {i \in DOMAIN lines : ~lines[i].node}
Owner(i) == CHOOSE j \in 1 .. i - 1 :
              /\ lines[j].node /\ lines[j].depth = lines[i].depth - 1
              /\ \A k \in j + 1 .. i - 1 : lines[k].node => lines[k].depth >= lines[i].depth
Has(name) == {i \in Properties : lines[i].name = name}
Referred == {lines[i].shown.nums[1] : i \in Has("interrupt-parent")}
              \cup UNION {{lines[i].shown.nums[1], lines[i].shown.nums[3]} : i \in Has("interrupts-extended")}
ReferencesResolve ==
  mode = "done" =>
    /\ \A i, j \in Has("phandle") : lines[i].shown = lines[j].shown => i = j
    /\ \A p \in Referred : \E i \in Has("phandle") :
         /\ lines[i].shown.nums = <<p>>
         /\ \E f \in Has("interrupt-controller") : Owner(f) = Owner(i)

\* Every command line ends in an exception, if its initrd range is not one or a
\* number of it has no room in its cells (that of an absent device may be any),
\* or in a whole dump with every node closed.
Completes ==
  <>(IF /\ \/ options.initrdStart = Off /\ options.initrdEnd = Off
           \/ /\ Off \notin {options.initrdStart, options.initrdEnd}
              /\ 0 <= options.initrdStart /\ options.initrdStart < options.initrdEnd
              /\ options.initrdEnd <= Max64
        /\ options.timebase \in 0 .. Max32
        /\ options.base # Off => {options.base, options.irq} \subseteq 0 .. Max32
       THEN mode = "done" /\ lines = Listing[options] /\ depth = 0
       ELSE mode = "raised")

=============================================================================
