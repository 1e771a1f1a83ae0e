---------------------------- MODULE MCKernelBoot ----------------------------
(***************************************************************************)
(* A small machine for KernelBoot: four-entry tables, the kernel image on  *)
(* pages 12 to 14 so that a domain's pages share tables with its gateway,  *)
(* twenty frames of RAM with a gap.                                        *)
(***************************************************************************)
EXTENDS KernelBoot

MCUsable == (4..11) \cup (15..31) \cup (34..39)
MCReserved == {32, 33} \cup (52..57)
MCHarts == {{2}, {2, 3, 4}}

\* Loader mappings: text, rodata, data and bss; two stack pages over a guard.
MCLive == [va \in {12, 13, 14, 129, 130, 132} |->
             CASE va = 12 -> [at |-> 52, flags |-> {}]
               [] va = 13 -> [at |-> 53, flags |-> {"NX"}]
               [] va = 14 -> [at |-> 54, flags |-> {"NX", "W"}]
               [] va = 129 -> [at |-> 55, flags |-> {"NX", "W"}]
               [] va = 130 -> [at |-> 56, flags |-> {"NX", "W"}]
               [] va = 132 -> [at |-> 57, flags |-> {"NX", "W"}]]

\* Two pages across a table's end, a large leaf beside them, two over them, one
\* larger still past the gateway, and a backing that is not aligned.
MCGrants == {<<Extent(3, 0, 2), 20, 2, ReadWrite>>, <<Extent(4, 1, 1), 16, 4, ReadExecute>>,
             <<Extent(0, 1, 2), 24, 8, Read>>, <<Extent(16, 2, 1), 16, 16, ReadWrite>>,
             <<Extent(8, 1, 1), 18, 4, ReadWrite>>}
MCCuts == {4, 16}
MCWindows == {<<44, 1>>, <<44, 6>>}
MCDomainPages == 0..23

\* Eight pages of leaf counts, two megabyte-class windows.
MCCountPages == 0..7
MCFiles == {"a", "b"}
MCWindowFrame == [f \in MCFiles |-> IF f = "a" THEN 16 ELSE 20]
MCWindowStarts == {4, 8}

\* Registers of 256 values and frames of 16 bytes. A BAR the hardware does not
\* implement takes no bit.
Reg(grain, flags) == [grain |-> grain, flags |-> flags]
Nothing == Reg(256, 0)

\* Narrow, prefetchable over a port range, wide in device memory, wide over RAM,
\* wide and larger than a word, a wide one in the last slot, a page shared with
\* a neighbour, none at all.
BarSets == {<<<<32, 0, 0>>, <<Reg(32, 0), Nothing, Nothing>>>>,
            <<<<9, 72, 0>>, <<Reg(4, 1), Reg(64, 8), Nothing>>>>,
            <<<<196, 2, 0>>, <<Reg(64, 4), Reg(1, 0), Nothing>>>>,
            <<<<4, 1, 0>>, <<Reg(64, 4), Reg(1, 0), Nothing>>>>,
            <<<<4, 4, 0>>, <<Reg(256, 4), Reg(2, 0), Nothing>>>>,
            <<<<0, 0, 68>>, <<Nothing, Nothing, Reg(64, 4)>>>>,
            <<<<16, 0, 0>>, <<Reg(16, 0), Nothing, Nothing>>>>,
            <<<<0, 0, 0>>, <<Nothing, Nothing, Nothing>>>>}
Device == <<<<196, 2, 0>>, <<Reg(64, 4), Reg(1, 0), Nothing>>>>

Cap(id, next) == [id |-> id, next |-> next]
List(a, b, c) == [at \in 2..4 |-> CASE at = 2 -> a [] at = 3 -> b [] at = 4 -> c]

\* MSI alone, last of a full list, after MSI-X, MSI-X alone, a cycle without and
\* with what is asked for, a pointer into the header.
CapSets == {List(Cap("MSI", 0), Cap("", 0), Cap("", 0)), List(Cap("", 3), Cap("", 4), Cap("MSI", 0)),
            List(Cap("MSIX", 3), Cap("MSI", 0), Cap("", 0)), List(Cap("MSIX", 0), Cap("", 0), Cap("", 0)),
            List(Cap("", 3), Cap("", 2), Cap("", 0)), List(Cap("", 3), Cap("MSI", 2), Cap("", 0)),
            List(Cap("", 1), Cap("MSI", 0), Cap("", 0))}
Plain == List(Cap("MSI", 0), Cap("", 0), Cap("", 0))
Vectored == List(Cap("MSIX", 0), Cap("", 0), Cap("", 0))
Both == List(Cap("MSIX", 3), Cap("MSI", 0), Cap("", 0))

Fn(edu, multi, header, command, bars, caps, wide) ==
  [edu |-> edu, multi |-> multi, header |-> header, cmd |-> command, bars |-> bars[1], hw |-> bars[2],
   caps |-> caps, list |-> 2, wideMsi |-> wide, live |-> "None"]

LeftOn(f, id) == [f EXCEPT !.live = id]

Alone(f) == [at \in {<<0, 0>>} |-> f]

Sockets == {<<0, 0>>, <<0, 1>>, <<1, 0>>, <<1, 1>>}
Topologies == {[at \in used |-> Fn(at = <<1, 0>>, at \in many, 0, {"MEM", "BM"}, Device,
                                    IF at = <<0, 1>> THEN Vectored ELSE Plain, TRUE)] :
                 used \in SUBSET Sockets, many \in SUBSET {<<0, 0>>, <<1, 0>>}}

MCBuses ==
  Topologies
    \cup {Alone(Fn(TRUE, FALSE, header, left, bars, Plain, TRUE)) :
            header \in 0..2, left \in {{}, {"MEM", "IO", "BM"}}, bars \in BarSets}
    \cup {Alone(Fn(TRUE, FALSE, 0, left, Device, caps, wide)) :
            left \in {{}, {"MEM", "BM"}}, caps \in CapSets, wide \in BOOLEAN}
    \cup {Alone(LeftOn(Fn(TRUE, FALSE, 0, left, Device, Both, wide), live)) :
            left \in {{}, {"MEM", "BM"}}, wide \in BOOLEAN, live \in {"MSI", "MSIX"}}
    \cup {Alone(LeftOn(Fn(FALSE, FALSE, 0, {"MEM", "BM"}, Device, Both, TRUE), live)) : live \in {"MSI", "MSIX"}}

MCFirmware == [high |-> 0, low |-> 7, data |-> 3]
MCMessages == {[high |-> 0, low |-> 5, data |-> 1], [high |-> 1, low |-> 6, data |-> 2]}
=============================================================================
