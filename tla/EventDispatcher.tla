---------------------------- MODULE EventDispatcher ----------------------------
(***************************************************************************)
(* What ServiceLoop relies on, whichever dispatcher create_dispatcher has   *)
(* made: a descriptor is watched for input or for output as well, and       *)
(* handle_events reports what is watched and ready.  Its callers always     *)
(* pass readable = true.                                                    *)
(***************************************************************************)
CONSTANTS
    Fds,        \* descriptors
    Kernels     \* what the kernel may know of a descriptor, see Dispatchers

VARIABLES
    interest,   \* per descriptor: none, read, or both
    kernel,     \* the state of the descriptors at the last handle_events
    ready,      \* the entries it returned: descriptor and event
    ret         \* its result: failed, none or some

vars == <<interest, kernel, ready, ret>>

Events == {"READ", "WRITE", "ERROR"}
Interest(writeable) == IF writeable THEN "both" ELSE "read"

Init ==
    /\ interest = [f \in Fds |-> "none"]
    /\ kernel = [f \in Fds |-> {}] /\ ready = {} /\ ret = "none"

add_event(f, writeable) ==
    /\ interest[f] = "none" /\ interest' = [interest EXCEPT ![f] = Interest(writeable)]
    /\ UNCHANGED <<kernel, ready, ret>>

mod_event(f, writeable) ==
    /\ interest[f] # "none" /\ interest' = [interest EXCEPT ![f] = Interest(writeable)]
    /\ UNCHANGED <<kernel, ready, ret>>

del_event(f) ==
    /\ interest[f] # "none" /\ interest' = [interest EXCEPT ![f] = "none"]
    /\ UNCHANGED <<kernel, ready, ret>>

\* Nothing is reported that is not watched or not so: recv() and send() of the
\* handler that is called will not wait, and no live connection is closed.
Sound(k, r) ==
    \A f \in Fds :
        /\ \A ev \in Events : <<f, ev>> \in r => interest[f] # "none"
        /\ <<f, "READ">> \in r => "in" \in k[f]
        /\ <<f, "WRITE">> \in r => "out" \in k[f] /\ interest[f] = "both"
        /\ <<f, "ERROR">> \in r => "err" \in k[f]

\* What a handler waits for is reported; output comes first (see Reactor's Mask).
Complete(k, r) ==
    \A f \in Fds :
        /\ interest[f] = "read" /\ "in" \in k[f] => <<f, "READ">> \in r
        /\ interest[f] = "both" /\ "out" \in k[f] => <<f, "WRITE">> \in r

\* run() dispatches the entries and clears the vector before the next call.
Clear ==
    /\ kernel' = [f \in Fds |-> {}] /\ ready' = {} /\ ret' = "none"
    /\ UNCHANGED interest

handle_events ==
    /\ kernel' \in [Fds -> Kernels]
    /\ ready' \subseteq Fds \X Events
    /\ ret' \in {"failed", "none", "some"}
    /\ IF ret' = "failed" THEN ready' = {}
       ELSE Sound(kernel', ready') /\ Complete(kernel', ready') /\ (ret' = "none" <=> ready' = {})
    /\ UNCHANGED interest

Next ==
    \/ \E f \in Fds, writeable \in BOOLEAN : add_event(f, writeable) \/ mod_event(f, writeable)
    \/ \E f \in Fds : del_event(f)
    \/ handle_events \/ Clear

Spec == Init /\ [][Next]_vars
=============================================================================
