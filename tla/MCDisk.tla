------------------------------ MODULE MCDisk ------------------------------
(* Images around the sizes where the layout changes, then either wrapped in *)
(* an iso or booted beside a second drive with a volume of other origin.    *)
EXTENDS ImageLife

Foreign(bits, start, reserved, spf, clusters, used, size) ==
  [start |-> start, bits |-> bits, clusters |-> clusters, used |-> used, size |-> size,
   bpb |-> [spc |-> 1, reserved |-> reserved, fats |-> 2, rootent |-> 16, spf |-> spf,
            mbrSects |-> reserved + 2 * spf + 1 + clusters, bigSects |-> 0],
   fat |-> [o \in 0..(((used + 2) * bits) \div 8 - 1) |-> 255]]

Small == Foreign(12, 2048, 1, 1, 100, 8, 3000)
Near  == Foreign(16, 63, 8, 20, 5000, 9, 6000)
Large == Foreign(16, 63, 8, 200, 50000, 5, 70000)
Blank == [Small EXCEPT !.bpb.rootent = 0]
Cut   == [Near EXCEPT !.size = 90]       \* the drive ends inside the table

Ask(blob, sectors, kernel, bad, rooms, other) ==
  [blob |-> blob, sectors |-> sectors, kernel |-> kernel, bad |-> bad, rooms |-> rooms,
   other |-> other]

\* The volume begins at 24 + blob; bad sectors are named from there.
At(blob, k) == 24 + blob + k

MCRequests ==
  {Ask(34, 70 + 34 + t, k, 0, {64}, Small) : t \in {4090, 4091, 4118, 4119, 4400}, k \in {0, 1, 3}}
  \cup {Ask(1, 70 + 1 + 4095, k, 0, {64}, Near) : k \in {2, 1022}}
  \cup {Ask(34, 70 + 34 + 4118, k, 0, {64}, Small) : k \in {73, 74, 110}}
  \cup {Ask(248, 0, 5, 0, {64}, v) : v \in {Small, Near, Large, Blank, Cut}}
  \cup {Ask(34, 0, 3, At(34, b), {64}, v) : b \in {0, 32, 48, 200}, v \in {Near, Large}}
  \cup {Ask(50, 0, 3, b, {64}, Small) : b \in {74, 106, 115, 122}}
  \cup {Ask(34, s, 3, 0, {64}, Blank) : s \in {65551, 65552}}
  \cup {Ask(34, 0, 3, 0, r, v) : r \in {{1}, {2}, {1, 3}}, v \in {Near, Small}}

MCOtherFiles == {0, 1, 2048 * 3, 2048 * 4, 2048 * 4 + 1, 2048 * 65, 2048 * 65 + 1,
                 65534 * 2048, 65535 * 2048}
===========================================================================
