---------------------------- MODULE MCBootChain ----------------------------
(* The boot chain in a memory of two dozen cells with no gap between        *)
(* regions.  A machine differs from the plain one in one respect at a time, *)
(* and the drives in every way.                                             *)
EXTENDS BootCheck

CONSTANT Gates   \* how the firmware may leave A20

Drive(packet, ah, bit1) == [packet |-> packet, ah |-> ah, bit1 |-> bit1]
Answer == {Drive(TRUE, 48, TRUE), Drive(TRUE, 48, FALSE), Drive(FALSE, 48, TRUE),
           Drive(TRUE, 33, TRUE)}
Usable(n) == [type |-> 1, len |-> n]

Plain ==
  [booted |-> 128, drives |-> [d \in {128} |-> Drive(TRUE, 48, TRUE)],
   sectors |-> 64, badLba |-> 0, upper |-> 0, gate |-> TRUE, port92 |-> TRUE,
   flips |-> TRUE, long |-> TRUE, map |-> <<Usable(1)>>, refuses |-> FALSE]

BootedFrom(b, d) ==
  {[Plain EXCEPT !.booted = b, !.drives = ds] : ds \in [{b, d} -> Answer]}

MCMachines ==
  {[Plain EXCEPT !.gate = g] : g \in Gates}
  \cup UNION {BootedFrom(b, d) : b \in {0, 224}, d \in {128, 240}}
  \cup {[Plain EXCEPT !.badLba = PartLba + s] : s \in 0..4}
  \cup {[Plain EXCEPT !.upper = 1, !.sectors = s] : s \in {64, 131072}}
  \cup {[Plain EXCEPT !.flips = f, !.long = ~f] : f \in BOOLEAN}
  \cup {[Plain EXCEPT !.map = m, !.refuses = r] : r \in BOOLEAN,
           m \in {<< >>, <<Usable(0)>>, <<Usable(1), [type |-> 2, len |-> 1], Usable(2)>>}}

Kernel(size, total, entry, base, cells, magic, tool) ==
  [size |-> size, total |-> total, entry |-> entry, base |-> base, cells |-> cells,
   magic |-> magic, tool |-> tool]

MCKernels ==
  {Kernel(s, t, e, KText, s, "IZOK", TRUE) : s \in 1..5, t \in 1..6, e \in {0, 1}}
  \cup {Kernel(2, 3, 0, KText + 1, 2, "IZOK", TRUE)}
  \cup {Kernel(s, t, 0, KText, 2, m, FALSE) :
           s \in {2, 6}, t \in {1, 5, 6}, m \in {"IZOK", "junk"}}
  \cup {Kernel(4, 4, 0, KText, 5, "IZOK", FALSE)}

\* Every kernel on the plain machines, every machine with four kernels.
MCInputs ==
  ({[Plain EXCEPT !.gate = g] : g \in Gates} \X MCKernels)
  \cup (MCMachines \X {Kernel(3, 5, 1, KText, 3, "IZOK", TRUE),
                        Kernel(1, 1, 0, KText, 1, "IZOK", TRUE),
                        Kernel(2, 3, 2, KText, 2, "IZOK", TRUE),
                        Kernel(4, 4, 0, KText, 3, "IZOK", FALSE)})
===========================================================================
