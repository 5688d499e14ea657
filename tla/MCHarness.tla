----------------------------- MODULE MCHarness -----------------------------
EXTENDS Harness

MCHosts == {[bits32 |-> a, bits64 |-> b, nm |-> c] : a, b, c \in BOOLEAN}

Wrong(c, at, value) == [case |-> c, kind |-> "store", at |-> at, value |-> value]
Page(frame, flags, hi) == [frame |-> frame, flags |-> flags, hi |-> hi]
Gate(lo, mid, sel, attr, rsv) ==
  [lo |-> lo, mid |-> mid, hi |-> 0, sel |-> sel, attr |-> attr, rsv |-> rsv]

MCFaults ==
  {[case |-> "none", kind |-> "none"], [case |-> "blob", kind |-> "none"],
   [case |-> "marker", kind |-> "none"]}
  \cup {[case |-> c, kind |-> k] : c \in Cases, k \in {"crash", "short"}}
  \cup {[case |-> "decomp", kind |-> "store"]}
  \cup {Wrong("pages", s, e) :
          s \in {0, Entries, Entries + 3, 2 * Entries, 2 * Entries + 1, 6 * Entries - 1},
          e \in {Page(Base + 1, PT_DIR, 0), Page(Base + 2, {0}, 0), Page(Base + 3, PT_DIR, 0),
                 Page(Base + 5, PT_PAGE, 0), Page(512, PT_PAGE, 0), Page(0, PT_PAGE, 1)}}
  \cup {Wrong("idt", v, Gate((16 * w) % 65536, 2, s, a, 0)) :
          v \in {0, 32, 255}, w \in {32, 255}, s \in {8, 40}, a \in {36352, 36608, 36368, 36360}}
  \cup {Wrong("report", 1, [char |-> 71]), Wrong("report", 65, [char |-> 55])}
  \cup {Wrong("gates", 31, [words |-> <<40 * 65536 + 16 * v, 131072 + 36352, 0, h>>]) : v \in {30, 31}, h \in 0..1}
===========================================================================
