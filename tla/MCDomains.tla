----------------------------- MODULE MCDomains ------------------------------
(***************************************************************************)
(* Domains on pages of two bytes: an image of a text and a data page,      *)
(* every way one field of it can be wrong, and a domain that writes its    *)
(* ring by hand.                                                           *)
(***************************************************************************)
EXTENDS Domains

Machine(port, width, wild) == [port |-> port, width |-> width, wild |-> wild]

Text(address) == Header("LOAD", {"r", "x"}, 4, address, 2, 2, PAGE)
Data(address) == Header("LOAD", {"r", "w"}, 6, address, 1, 2, PAGE)

Good(address) ==
  [bytes |-> 8, identified |-> TRUE, machine |-> ARCHITECTURE, entry |-> address, offset |-> 2,
   size |-> PROGRAM_HEADER, count |-> 2, headers |-> <<Text(address), Data(address + PAGE)>>]

WithText(h) == [Good(10) EXCEPT !.headers[1] = h]
WithData(h) == [Good(10) EXCEPT !.headers[2] = h]
Odd == Header("NOTE", {"r"}, 3, 3, 3, 3, 1)

BadImages ==
  {WithText([Text(10) EXCEPT !.memory = 0]), WithText([Text(10) EXCEPT !.file = 3]),
        WithText([Text(10) EXCEPT !.align = 1]), WithText([Text(10) EXCEPT !.flags = {"x"}]),
        WithText([Text(10) EXCEPT !.flags = {"r", "x", "?"}]),
        WithText([Text(10) EXCEPT !.memory = 3])}
  \cup {WithData([Data(12) EXCEPT !.offset = 8]), WithData([Data(12) EXCEPT !.offset = 5]),
        WithData([Data(12) EXCEPT !.address = 13]), WithData([Data(12) EXCEPT !.address = 10]),
        WithData([Data(12) EXCEPT !.address = 8]), WithData([Data(12) EXCEPT !.address = TOP - 1]),
        WithData([Data(12) EXCEPT !.flags = {"r", "w", "x"}]),
        WithData([Data(12) EXCEPT !.kind = "DYNAMIC"]), WithData([Data(12) EXCEPT !.kind = "INTERP"]),
        WithData([Data(12) EXCEPT !.kind = "NOTE"])}
  \cup {[Good(10) EXCEPT !.entry = 12], [Good(10) EXCEPT !.bytes = 1], [Good(10) EXCEPT !.bytes = 7],
        [Good(10) EXCEPT !.bytes = 3], [Good(10) EXCEPT !.identified = FALSE],
        [Good(10) EXCEPT !.machine = "other"], [Good(10) EXCEPT !.size = 2], [Good(10) EXCEPT !.count = 0],
        [Good(10) EXCEPT !.count = 3, !.headers = Append(@, Data(14))], Good(14)}

\* A note between the loads is passed over; a gap between them is where mapping stops half way.
Noted == [Good(10) EXCEPT !.headers = <<Odd>> \o @, !.count = 3]
Gapped == WithData([Data(12) EXCEPT !.address = 14])

\* A RISC-V hart has any number of tag bits: with one, the shell's tag is the hello image's again.
\* On x86 there are none or twelve, and two are as many as two views can tell from twelve.
Boot(on, image, frames) == [machine |-> on, image |-> image, frames |-> frames]

MCBoots ==
  {Boot(Machine(port, width, "none"), Noted, frames) :
     port \in {"riscv", "x86"}, width \in {0, 2}, frames \in {20, 8, 3, 1}}
  \cup {Boot(Machine("riscv", 1, "none"), Noted, 20), Boot(Machine("riscv", 1, "shell"), Good(10), 20)}
  \cup {Boot(Machine("riscv", 2, "none"), image, 20) : image \in BadImages \cup {Good(10), Gapped}}
  \cup {Boot(Machine("riscv", 2, "hello"), Good(10), 20), Boot(Machine("x86", 0, "hello"), Good(10), 20),
        Boot(Machine("riscv", 0, "shell"), Good(10), 20), Boot(Machine("x86", 2, "shell"), Good(10), 20)}

MCShellImage == Good(SHELL_BASE)

At(offset, len) == [offset |-> offset, len |-> len]

\* Calls a domain might leave in a slot: handles of the wrong kind, regions over a segment's end,
\* on the channel, on the guard and past the aperture, words that are no call.
NoCalls == {Words(1, 0, 0, 0, 0), [Words(1, 8, 1, 0, 0) EXCEPT !.reserved = 1], Words(1, 8, 1, 1, 0)}

MCScribbles ==
  [hello |-> {Call(1, "Write", 1, 0, At(4, 1)), Call(1, "Write", 1, 0, At(6, 1)),
              Call(1, "Write", 1, 0, At(1, 2)), Call(1, "Write", 1, 0, At(15, 2)),
              Call(1, "Write", 2, 0, At(0, 1)), Call(1, "Write", 1, 1, At(0, 1)),
              Words(1, 8, 1, 0, 0), Words(1, 3, 1, 0, 0)} \cup NoCalls,
   shell |-> {Call(1, "Open", SHELL_DIR_RESULT, 0, At(0, 1)), Call(1, "Open", SHELL_DIR_RESULT + 1, 0, At(8, 2)),
              Call(1, "Open", SHELL_FILE_RESULT, 0, At(0, 1)), Call(1, "Open", SHELL_DIR_RESULT, 0, At(4, 1)),
              Call(1, "Read", SHELL_FILE_RESULT, 0, At(2, 2)), Call(1, "Read", SHELL_FILE_RESULT, 0, At(0, 1)),
              Call(1, "Read", SHELL_FILE_RESULT + 1, 0, At(8, 2)),
              Call(1, "Close", SHELL_FILE_RESULT, 0, At(0, 0)), Call(1, "Close", SHELL_DIR_RESULT, 0, At(0, 0)),
              Words(1, 3, 1, 0, 0)}]
=============================================================================
