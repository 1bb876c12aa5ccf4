------------------------------ MODULE MCDtbTree ------------------------------
(***************************************************************************)
(* Kernel command lines of every length modulo the word size, with an      *)
(* empty one; an initrd range given whole, by one end, empty, reversed,    *)
(* negative or too far; with the block device and without; and each number *)
(* of the command line past what its cells hold.                           *)
(***************************************************************************)
EXTENDS DtbTree

StringBytes(t) == Len(t)
Widest32 == 10000000
Widest64 == 20000000
Default == [bootargs |-> "", initrdStart |-> Off, initrdEnd |-> Off, base |-> Off, irq |-> 1,
            timebase |-> Widest32]
WithDisk == [Default EXCEPT !.base = 4096]
WithInitrd(o, from, to) == [o EXCEPT !.initrdStart = from, !.initrdEnd = to]
MCBootArgs == {"", "quiet", "rw,lpj", "console", "rdinit=/"}
Points == {4096, 8192, Off}
MCCommandLines ==
  {WithInitrd([o EXCEPT !.bootargs = b], s, e) :
     o \in {Default, WithDisk}, b \in MCBootArgs, s \in Points, e \in Points}
    \cup {WithInitrd(Default, 4096, Widest64), WithInitrd(Default, 4096, Widest64 + 1),
           WithInitrd(WithDisk, -1, 8192),
           [Default EXCEPT !.timebase = Widest32 + 1], [Default EXCEPT !.irq = Widest32 + 1],
           [WithDisk EXCEPT !.irq = Widest32 + 1], [WithDisk EXCEPT !.irq = -1],
           [WithDisk EXCEPT !.base = Widest32 + 1]}
MCTexts ==
  UNION {{c.name} \cup Range(c.value.texts) :
           c \in Range(Calls(WithInitrd(WithDisk, 4096, 8192)))}
    \cup MCBootArgs \cup {"bootargs"}
=============================================================================
