----------------------------- MODULE MCPrgPort -----------------------------
(* Instances of PrgPort for TLC: two addresses that share one line.        *)
EXTENDS PrgPort

MCLanes == {"l", "h"}
Both(l, h) == [x \in Lanes |-> IF x = "l" THEN l ELSE h]
MCQuiet == [a |-> 0, d |-> Both(0, 0), we |-> {}]
SameLine(x) == 0

ReadOf(x) == [MCQuiet EXCEPT !.a = x]
ByteWrite == [a |-> 0, d |-> Both(1, 0), we |-> {"l"}]
WordWrite == [a |-> 1, d |-> Both(1, 1), we |-> Lanes]
SubAll   == {ReadOf(0), ReadOf(1), ByteWrite}
SubBytes == {ReadOf(0), ByteWrite}
SubThree == SubBytes \cup {[ByteWrite EXCEPT !.a = 1]}

Load(s, m, d, g, b, r, w) ==
  [sub |-> s, main |-> m, dma |-> d, gap |-> g, between |-> b, resets |-> r, wait |-> w]
SubAndDma == Load(SubAll, {}, {WordWrite}, 2, 2, 1, 4)
Window    == Load({ReadOf(0), ReadOf(1)}, {ReadOf(0), WordWrite}, {WordWrite}, 28, 7, 0, 13)
MCLoads   == {SubAndDma, Window}
NoData(o) == [o EXCEPT !.d = MCQuiet.d]      \* for the run that looks at no data
SubLoads  == {Load({NoData(o) : o \in SubThree}, {}, {NoData(WordWrite)}, 2, 2, 0, 1)}
Cleared  == {[x \in Addr |-> Both(0, 0)]}
============================================================================
