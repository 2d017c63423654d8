-------------------------- MODULE SuperVersionPins --------------------------
(***************************************************************************)
(* What the reference counting and the thread-local caches of module       *)
(* SuperVersion promise to the rest of the DB: a reader may pin the        *)
(* current SuperVersion, or the one an installation is just replacing, and *)
(* a SuperVersion is cleaned up once, when it is neither and nobody pins   *)
(* it.                                                                     *)
(***************************************************************************)
CONSTANTS Threads, SVs, FirstSV, None

VARIABLES
  status,          \* SVs -> "unborn", "live" or "cleaned"
  super_version_,
  retiring,        \* the SuperVersion being replaced, or None; while there is
                   \* one, the installing thread holds the DB mutex
  pinned           \* pairs <<thread, SuperVersion>> of open reads and iterators

pinVars == <<status, super_version_, retiring, pinned>>

PinInit ==
  /\ status = [s \in SVs |-> IF s = FirstSV THEN "live" ELSE "unborn"]
  /\ super_version_ = FirstSV
  /\ retiring = None
  /\ pinned = {}

DBMutexFree == retiring = None
Unpinned(s) == \A t \in Threads : <<t, s>> \notin pinned

Pin(t, s) ==
  /\ s \in {super_version_, retiring} \ {None}
  /\ pinned' = pinned \cup {<<t, s>>}
  /\ UNCHANGED <<status, super_version_, retiring>>

Unpin(t, s) ==
  /\ <<t, s>> \in pinned
  /\ pinned' = pinned \ {<<t, s>>}
  /\ UNCHANGED <<status, super_version_, retiring>>

Install(s) ==
  /\ DBMutexFree
  /\ status[s] = "unborn"
  /\ status' = [status EXCEPT ![s] = "live"]
  /\ super_version_' = s
  /\ retiring' = super_version_
  /\ UNCHANGED pinned

\* The installer drops its reference; the SuperVersion goes now or later.
Retire ==
  /\ retiring # None
  /\ retiring' = None
  /\ \/ UNCHANGED status
     \/ /\ Unpinned(retiring)
        /\ status' = [status EXCEPT ![retiring] = "cleaned"]
  /\ UNCHANGED <<super_version_, pinned>>

CleanUp(s) ==
  /\ DBMutexFree
  /\ status[s] = "live"
  /\ s # super_version_
  /\ Unpinned(s)
  /\ status' = [status EXCEPT ![s] = "cleaned"]
  /\ UNCHANGED <<super_version_, retiring, pinned>>

PinNext ==
  \/ \E t \in Threads, s \in SVs : Pin(t, s) \/ Unpin(t, s)
  \/ \E s \in SVs : Install(s) \/ CleanUp(s)
  \/ Retire

PinSpec == PinInit /\ [][PinNext]_pinVars
=============================================================================
