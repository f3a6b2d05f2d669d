-------------------------------- MODULE Loader --------------------------------
(***************************************************************************)
(* The lazy loading of the three libraries: loadCF, loadIOKit and          *)
(* loadIOReport, with NewSampler and ReadDeviceInfo as their callers.      *)
(*                                                                         *)
(* A load function returns at once when its handle is set, and sets the    *)
(* handle BEFORE it registers the functions, with no lock.  That is sound  *)
(* only because of who calls it when: the programs build the Sampler       *)
(* first, and only then do the hub (in Stop) and the /api/device handlers  *)
(* call ReadDeviceInfo at the same time.                                   *)
(***************************************************************************)
EXTENDS Naturals, Sequences

CONSTANTS
    Readers,    \* goroutines that call ReadDeviceInfo, once there is a Sampler
    NumFuncs    \* functions registered per library (13, 6 and 15 in the code)

ASSUME ReadersAssumption == "main" \notin Readers
ASSUME NumFuncsAssumption == NumFuncs \in [{"CF", "IOKit", "IOReport"} -> Nat \ {0}]

Libs == DOMAIN NumFuncs
Callers == {"main"} \union Readers

VARIABLES
    handle,     \* handle[l]: is the library's handle set?
    registered, \* registered[l]: which of its function variables are set
    frames,     \* frames[c]: c's calls of load functions, innermost first
    result,     \* result[c]: "idle", "busy", "ok" or "error"
    panicked    \* RegisterLibFunc panics on a missing symbol

vars == <<handle, registered, frames, result, panicked>>

Frame(l, at) == [lib |-> l, at |-> at, next |-> 1]

Init ==
    /\ handle = [l \in Libs |-> FALSE]
    /\ registered = [l \in Libs |-> {}]
    /\ frames = [c \in Callers |-> <<>>]
    /\ result = [c \in Callers |-> "idle"]
    /\ panicked = FALSE

\* Seeded bug: IOKit is left to the first ReadDeviceInfo.
NewSampler_OnlyIOReport ==
    /\ ~panicked /\ result["main"] \in {"idle", "error"}
    /\ frames' = [frames EXCEPT !["main"] = <<Frame("IOReport", "check")>>]
    /\ result' = [result EXCEPT !["main"] = "busy"]
    /\ UNCHANGED <<handle, registered, panicked>>

\* NewSampler: IOKit, then IOReport.  After an error it may be called again.
NewSampler ==
    /\ ~panicked /\ result["main"] \in {"idle", "error"}
    /\ frames' = [frames EXCEPT !["main"] =
                     <<Frame("IOKit", "check"), Frame("IOReport", "check")>>]
    /\ result' = [result EXCEPT !["main"] = "busy"]
    /\ UNCHANGED <<handle, registered, panicked>>

ReadDeviceInfo(c) ==
    /\ ~panicked /\ result["main"] = "ok" /\ result[c] # "busy"
    /\ frames' = [frames EXCEPT ![c] = <<Frame("IOKit", "check")>>]
    /\ result' = [result EXCEPT ![c] = "busy"]
    /\ UNCHANGED <<handle, registered, panicked>>

\* c's innermost load function returns nil.
Return(c) ==
    /\ frames' = [frames EXCEPT ![c] = Tail(@)]
    /\ result' = [result EXCEPT ![c] = IF Len(frames[c]) = 1 THEN "ok" ELSE @]

\* An error is handed up through every caller.
Fail(c) ==
    /\ frames' = [frames EXCEPT ![c] = <<>>]
    /\ result' = [result EXCEPT ![c] = "error"]

At(c, at) == ~panicked /\ frames[c] # <<>> /\ Head(frames[c]).at = at

\* if handle != 0 { return nil }, and else loadCF() in the two others.
Check(c) ==
    /\ At(c, "check")
    /\ LET l == Head(frames[c]).lib
           opening == <<Frame(l, "open")>> \o Tail(frames[c])
       IN  IF handle[l] THEN Return(c)
           ELSE /\ frames' = [frames EXCEPT ![c] =
                       IF l = "CF" THEN opening ELSE <<Frame("CF", "check")>> \o opening]
                /\ UNCHANGED result
    /\ UNCHANGED <<handle, registered, panicked>>

\* Seeded bug: an error leaves the handle set.
Dlopen_KeepsHandle(c) ==
    /\ At(c, "open")
    /\ LET l == Head(frames[c]).lib IN
       /\ handle' = [handle EXCEPT ![l] = TRUE]
       /\ \/ /\ frames' = [frames EXCEPT ![c] = <<Frame(l, "register")>> \o Tail(@)]
             /\ UNCHANGED result
          \/ Fail(c)
    /\ UNCHANGED <<registered, panicked>>

Dlopen(c) ==
    /\ At(c, "open")
    /\ LET l == Head(frames[c]).lib IN
       \/ /\ handle' = [handle EXCEPT ![l] = TRUE]
          /\ frames' = [frames EXCEPT ![c] = <<Frame(l, "register")>> \o Tail(@)]
          /\ UNCHANGED result
       \/ handle' = [handle EXCEPT ![l] = FALSE] /\ Fail(c)
    /\ UNCHANGED <<registered, panicked>>

RegisterLibFunc(c) ==
    /\ At(c, "register")
    /\ LET f == Head(frames[c]) IN
       \/ /\ registered' = [registered EXCEPT ![f.lib] = @ \union {f.next}]
          /\ IF f.next = NumFuncs[f.lib]
               THEN Return(c)
               ELSE frames' = [frames EXCEPT ![c][1].next = @ + 1] /\ UNCHANGED result
          /\ UNCHANGED panicked
       \/ panicked' = TRUE /\ UNCHANGED <<registered, frames, result>>
    /\ UNCHANGED handle

Ended == panicked /\ UNCHANGED vars

Next ==
    \/ NewSampler
    \/ \E c \in Readers : ReadDeviceInfo(c)
    \/ \E c \in Callers : Check(c) \/ Dlopen(c) \/ RegisterLibFunc(c)
    \/ Ended

Spec == Init /\ [][Next]_vars

-----------------------------------------------------------------------------
Needs(c) == IF c = "main" THEN Libs ELSE {"CF", "IOKit"}

\* A caller that was told the libraries are loaded calls no function variable
\* that is still nil, though handles are set before functions are (cf.go:42-62,
\* iokit.go:23-39, ioreport.go:33-58).
LoadedMeansRegistered ==
    \A c \in Callers : result[c] = "ok" =>
        \A l \in Needs(c) : registered[l] = 1..NumFuncs[l]

\* Once there is a Sampler, concurrent readers write neither a handle nor a
\* function variable: what they share is read-only.
ReadersOnlyRead ==
    [][result["main"] = "ok" => UNCHANGED <<handle, registered>>]_vars
=============================================================================
