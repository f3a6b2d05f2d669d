------------------------------ MODULE LoaderProofs ------------------------------
(***************************************************************************)
(* The loader, for any number of goroutines that call ReadDeviceInfo and   *)
(* any number of functions in the libraries.                               *)
(*                                                                         *)
(* A set handle says nothing by itself, as it is set before the functions  *)
(* are registered.  What makes it safe is the shape of the one stack of    *)
(* calls that NewSampler makes: MainInv lists its ten shapes, with what is *)
(* loaded in each.  A reader is only ever inside the first check.          *)
(***************************************************************************)
EXTENDS Loader, SequenceTheorems, TLAPS

-----------------------------------------------------------------------------
(* The inductive invariant.                                                *)

AllLibs == {"CF", "IOKit", "IOReport"}

\* A load function that has registered all functions before the n-th.
Registering(l, n) == [lib |-> l, at |-> "register", next |-> n]

Loaded(l) == handle[l] /\ registered[l] = 1..NumFuncs[l]

\* Nobody is between setting the handle and registering the last function.
Settled(l) == handle[l] => Loaded(l)

Known ==
    /\ \A l \in AllLibs : Settled(l)
    /\ handle["IOKit"] => handle["CF"]
    /\ handle["IOReport"] => handle["IOKit"]

\* loadCF, called by loadIOKit, called by NewSampler.
LoadingCF(f) ==
    /\ ~handle["IOKit"] /\ ~handle["IOReport"]
    /\ frames["main"] = <<f, Frame("IOKit", "open"), Frame("IOReport", "check")>>

LoadingIOKit(f) ==
    /\ Loaded("CF") /\ ~handle["IOReport"]
    /\ frames["main"] = <<f, Frame("IOReport", "check")>>

LoadingIOReport(f) ==
    /\ Loaded("CF") /\ Loaded("IOKit")
    /\ frames["main"] = <<f>>

\* Registering, with the functions before the n-th registered.
Registered(l, n) ==
    n \in 1..NumFuncs[l] /\ handle[l] /\ 1..(n - 1) \subseteq registered[l]

MainCheck ==
    \/ Known /\ frames["main"] = <<Frame("IOKit", "check"), Frame("IOReport", "check")>>
    \/ Settled("CF") /\ LoadingCF(Frame("CF", "check"))
    \/ Settled("IOReport") /\ LoadingIOReport(Frame("IOReport", "check"))
    \/ /\ Loaded("CF") /\ Loaded("IOKit") /\ ~handle["IOReport"]
       /\ frames["main"] = <<Frame("CF", "check"), Frame("IOReport", "open")>>

MainOpen ==
    \/ ~handle["CF"] /\ LoadingCF(Frame("CF", "open"))
    \/ ~handle["IOKit"] /\ LoadingIOKit(Frame("IOKit", "open"))
    \/ ~handle["IOReport"] /\ LoadingIOReport(Frame("IOReport", "open"))

MainRegister ==
    \/ \E n \in Nat : Registered("CF", n) /\ LoadingCF(Registering("CF", n))
    \/ \E n \in Nat : Registered("IOKit", n) /\ LoadingIOKit(Registering("IOKit", n))
    \/ \E n \in Nat : Registered("IOReport", n) /\ LoadingIOReport(Registering("IOReport", n))

MainInv ==
    \/ result["main"] \in {"idle", "error"} /\ frames["main"] = <<>> /\ Known
    \/ result["main"] = "ok" /\ frames["main"] = <<>> /\ \A l \in AllLibs : Loaded(l)
    \/ result["main"] = "busy" /\ (MainCheck \/ MainOpen \/ MainRegister)

ReaderInv(c) ==
    /\ result[c] # "idle" => result["main"] = "ok"
    /\ frames[c] = IF result[c] = "busy" THEN <<Frame("IOKit", "check")>> ELSE <<>>

TypeInv ==
    /\ handle \in [AllLibs -> BOOLEAN]
    /\ registered \in [AllLibs -> SUBSET Nat]
    /\ \A l \in AllLibs : registered[l] \subseteq 1..NumFuncs[l]
    /\ DOMAIN frames = Callers
    /\ result \in [Callers -> {"idle", "busy", "ok", "error"}]
    /\ panicked \in BOOLEAN

Inv == TypeInv /\ MainInv /\ \A c \in Readers : ReaderInv(c)

-----------------------------------------------------------------------------
(* Stacks of up to three calls.                                            *)

LEMMA Stacks ==
    ASSUME NEW x, NEW y, NEW z
    PROVE  /\ <<x>> # <<>> /\ Len(<<x>>) = 1 /\ Head(<<x>>) = x /\ Tail(<<x>>) = <<>>
           /\ <<x, y>> # <<>> /\ Len(<<x, y>>) # 1 /\ Head(<<x, y>>) = x /\ Tail(<<x, y>>) = <<y>>
           /\ <<x, y, z>> # <<>> /\ Len(<<x, y, z>>) # 1 /\ Head(<<x, y, z>>) = x
           /\ Tail(<<x, y, z>>) = <<y, z>>
<1>1. /\ <<x>> # <<>> /\ Len(<<x>>) = 1 /\ Head(<<x>>) = x
      /\ <<x, y>> # <<>> /\ Len(<<x, y>>) # 1 /\ Head(<<x, y>>) = x
      /\ <<x, y, z>> # <<>> /\ Len(<<x, y, z>>) # 1 /\ Head(<<x, y, z>>) = x
  OBVIOUS
<1>2. Tail(<<x>>) = <<>>  OBVIOUS
<1>3. Tail(<<x, y>>) = <<y>>  OBVIOUS
<1>4. Tail(<<x, y, z>>) = <<y, z>>  OBVIOUS
<1> QED  BY <1>1, <1>2, <1>3, <1>4

\* The innermost call goes on to its next function.
LEMMA NextFunction ==
    ASSUME NEW s, NEW l, NEW n \in Nat, s[1] = Registering(l, n)
    PROVE  [s EXCEPT ![1].next = @ + 1] = [s EXCEPT ![1] = Registering(l, n + 1)]
<1>1. [Registering(l, n) EXCEPT !.next = @ + 1] = Registering(l, n + 1)  BY DEF Registering
<1> QED  BY <1>1

\* The innermost call is replaced, the others stay.
LEMMA HeadReplaced ==
    ASSUME NEW x, NEW y, NEW z, NEW w
    PROVE  /\ [<<x>> EXCEPT ![1] = w] = <<w>>
           /\ [<<x, y>> EXCEPT ![1] = w] = <<w, y>>
           /\ [<<x, y, z>> EXCEPT ![1] = w] = <<w, y, z>>
OBVIOUS

\* One more call, inside up to two others.
LEMMA Calls ==
    /\ \A x : <<x>> \o <<>> = <<x>>
    /\ \A x, y : <<x>> \o <<y>> = <<x, y>>
    /\ \A x, y, z : <<x>> \o <<y, z>> = <<x, y, z>>
<1> SUFFICES ASSUME NEW x, NEW y, NEW z
             PROVE  /\ <<x>> \o <<>> = <<x>>
                    /\ <<x>> \o <<y>> = <<x, y>>
                    /\ <<x>> \o <<y, z>> = <<x, y, z>>
  OBVIOUS
<1>1. <<x>> \o <<>> = <<x>>  OBVIOUS
<1> DEFINE S == {x, y, z}
<1>2. <<x>> \o <<y>> = <<x, y>>
  <2>1. <<x>> \in Seq(S) /\ <<y>> \in Seq(S) /\ <<x, y>> \in Seq(S)  OBVIOUS
  <2>2. /\ Len(<<x, y>>) = 2 /\ <<x, y>>[1] = x /\ <<x, y>>[2] = y
        /\ Len(<<x>>) = 1 /\ <<x>>[1] = x /\ Len(<<y>>) = 1 /\ <<y>>[1] = y
    OBVIOUS
  <2> HIDE DEF S
  <2>3. /\ <<x>> \o <<y>> \in Seq(S)
        /\ Len(<<x>> \o <<y>>) = Len(<<x>>) + Len(<<y>>)
        /\ \A i \in 1..(Len(<<x>>) + Len(<<y>>)) :
              (<<x>> \o <<y>>)[i] = IF i <= Len(<<x>>) THEN <<x>>[i] ELSE <<y>>[i - Len(<<x>>)]
    BY <2>1, ConcatProperties, Zenon
  <2>4. Len(<<x>> \o <<y>>) = Len(<<x, y>>)  BY <2>2, <2>3
  <2>5. \A i \in 1..Len(<<x>> \o <<y>>) : (<<x>> \o <<y>>)[i] = <<x, y>>[i]
    <3>1. (<<x>> \o <<y>>)[1] = x /\ (<<x>> \o <<y>>)[2] = y  BY <2>2, <2>3
    <3>2. \A i \in 1..Len(<<x>> \o <<y>>) : i = 1 \/ i = 2  BY <2>2, <2>4
    <3> QED  BY <2>2, <3>1, <3>2, Zenon
  <2> QED  BY <2>1, <2>3, <2>4, <2>5, SeqEqual, Zenon
<1>3. <<x>> \o <<y, z>> = <<x, y, z>>
  <2>1. <<x>> \in Seq(S) /\ <<y, z>> \in Seq(S) /\ <<x, y, z>> \in Seq(S)  OBVIOUS
  <2>2. /\ Len(<<x, y, z>>) = 3
        /\ <<x, y, z>>[1] = x /\ <<x, y, z>>[2] = y /\ <<x, y, z>>[3] = z
        /\ Len(<<x>>) = 1 /\ <<x>>[1] = x
        /\ Len(<<y, z>>) = 2 /\ <<y, z>>[1] = y /\ <<y, z>>[2] = z
    OBVIOUS
  <2> HIDE DEF S
  <2>3. /\ <<x>> \o <<y, z>> \in Seq(S)
        /\ Len(<<x>> \o <<y, z>>) = Len(<<x>>) + Len(<<y, z>>)
        /\ \A i \in 1..(Len(<<x>>) + Len(<<y, z>>)) :
              (<<x>> \o <<y, z>>)[i] =
                 IF i <= Len(<<x>>) THEN <<x>>[i] ELSE <<y, z>>[i - Len(<<x>>)]
    BY <2>1, ConcatProperties, Zenon
  <2>4. Len(<<x>> \o <<y, z>>) = Len(<<x, y, z>>)  BY <2>2, <2>3
  <2>5. \A i \in 1..Len(<<x>> \o <<y, z>>) : (<<x>> \o <<y, z>>)[i] = <<x, y, z>>[i]
    BY <2>2, <2>3
  <2> QED  BY <2>1, <2>3, <2>4, <2>5, SeqEqual, Zenon
<1> QED  BY <1>1, <1>2, <1>3

\* What the calls on a stack say of themselves.
LEMMA Fields ==
    /\ \A l, at : Frame(l, at).lib = l /\ Frame(l, at).at = at
    /\ \A l, n : /\ Registering(l, n).lib = l /\ Registering(l, n).at = "register"
                 /\ Registering(l, n).next = n
BY DEF Frame, Registering

-----------------------------------------------------------------------------
(* NewSampler's calls.                                                     *)

LEMMA Constants ==
    /\ Libs = AllLibs /\ "main" \in Callers /\ Readers \subseteq Callers
    /\ \A c \in Readers : c # "main"
    /\ \A l \in AllLibs : NumFuncs[l] \in Nat \ {0}
BY ReadersAssumption, NumFuncsAssumption DEF Libs, AllLibs, Callers

\* While it loads, main is at a check, a dlopen or a registration.
LEMMA MainIsAt ==
    ASSUME MainInv
    PROVE  /\ At("main", "check") => MainCheck /\ result["main"] = "busy"
           /\ At("main", "open") => MainOpen /\ result["main"] = "busy"
           /\ At("main", "register") => MainRegister /\ result["main"] = "busy"
<1>1. CASE frames["main"] = <<>>  BY <1>1 DEF At
<1>2. CASE MainCheck
  <2>1. Head(frames["main"]).at = "check"
    BY <1>2, Stacks DEF MainCheck, LoadingCF, LoadingIOReport, Frame
  <2> QED  BY <1>2, <2>1 DEF At, MainInv, MainCheck, LoadingCF, LoadingIOReport
<1>3. CASE MainOpen
  <2>1. Head(frames["main"]).at = "open"
    BY <1>3, Stacks DEF MainOpen, LoadingCF, LoadingIOKit, LoadingIOReport, Frame
  <2> QED  BY <1>3, <2>1 DEF At, MainInv, MainOpen, LoadingCF, LoadingIOKit, LoadingIOReport
<1>4. CASE MainRegister
  <2>1. Head(frames["main"]).at = "register"
    <3>1. PICK l \in AllLibs, n \in Nat : Head(frames["main"]) = Registering(l, n)
      BY <1>4, Stacks DEF MainRegister, LoadingCF, LoadingIOKit, LoadingIOReport, AllLibs
    <3> QED  BY <3>1, Fields
  <2> QED  BY <1>4, <2>1 DEF At, MainInv, MainRegister, LoadingCF, LoadingIOKit, LoadingIOReport
<1> QED  BY <1>1, <1>2, <1>3, <1>4 DEF MainInv

\* if handle != 0 { return nil }: from each of the four checks of MainCheck.
LEMMA MainCheckStep ==
    ASSUME TypeInv, MainInv, Check("main")
    PROVE  MainInv'
<1>1. /\ MainCheck /\ result["main"] = "busy" /\ UNCHANGED <<handle, registered>>
      /\ DOMAIN frames = Callers /\ "main" \in Callers
      /\ result \in [Callers -> {"idle", "busy", "ok", "error"}]
  BY MainIsAt, Constants DEF Check, TypeInv
<1>2. /\ \A l : Loaded(l)' <=> Loaded(l)
      /\ \A l : Settled(l)' <=> Settled(l)
  BY <1>1 DEF Loaded, Settled
<1> DEFINE stack == frames["main"]
           l == Head(stack).lib
           opening == <<Frame(l, "open")>> \o Tail(stack)
<1>3. /\ handle[l] => /\ frames'["main"] = Tail(stack)
                      /\ result'["main"] = IF Len(stack) = 1 THEN "ok" ELSE "busy"
      /\ ~handle[l] => /\ frames'["main"] = IF l = "CF" THEN opening
                                           ELSE <<Frame("CF", "check")>> \o opening
                       /\ result'["main"] = "busy"
  BY <1>1 DEF Check, Return
<1>4. CASE Known /\ stack = <<Frame("IOKit", "check"), Frame("IOReport", "check")>>
  <2>1. /\ l = "IOKit" /\ Len(stack) # 1 /\ Tail(stack) = <<Frame("IOReport", "check")>>
        /\ opening = <<Frame("IOKit", "open"), Frame("IOReport", "check")>>
        /\ <<Frame("CF", "check")>> \o opening =
              <<Frame("CF", "check"), Frame("IOKit", "open"), Frame("IOReport", "check")>>
    <3>1. /\ Head(stack) = Frame("IOKit", "check") /\ Len(stack) # 1
          /\ Tail(stack) = <<Frame("IOReport", "check")>>
      BY <1>4, Stacks
    <3>2. l = "IOKit"  BY <3>1, Fields
    <3>3. opening = <<Frame("IOKit", "open"), Frame("IOReport", "check")>>
      <4> HIDE DEF stack, l
      <4> QED  BY <3>1, <3>2, Calls, Zenon
    <3>4. <<Frame("CF", "check")>> \o <<Frame("IOKit", "open"), Frame("IOReport", "check")>> =
             <<Frame("CF", "check"), Frame("IOKit", "open"), Frame("IOReport", "check")>>
      BY Calls, Zenon
    <3> HIDE DEF stack, l, opening
    <3> QED  BY <3>1, <3>2, <3>3, <3>4, Zenon
  <2> HIDE DEF stack, l, opening
  <2>2. CASE handle[l]
    <3>1. MainCheck'
      BY <1>1, <1>2, <1>3, <1>4, <2>1, <2>2 DEF Known, AllLibs, MainCheck, LoadingIOReport, Settled
    <3> QED  BY <1>3, <2>1, <2>2, <3>1 DEF MainInv
  <2>3. CASE ~handle[l]
    <3>1. MainCheck'
      BY <1>1, <1>2, <1>3, <1>4, <2>1, <2>3 DEF Known, AllLibs, MainCheck, LoadingCF
    <3> QED  BY <1>3, <2>1, <2>3, <3>1 DEF MainInv
  <2> QED  BY <2>2, <2>3
<1>5. CASE Settled("CF") /\ LoadingCF(Frame("CF", "check"))
  <2>1. /\ l = "CF" /\ Len(stack) # 1
        /\ Tail(stack) = <<Frame("IOKit", "open"), Frame("IOReport", "check")>>
        /\ opening = <<Frame("CF", "open"), Frame("IOKit", "open"), Frame("IOReport", "check")>>
    <3>1. /\ Head(stack) = Frame("CF", "check") /\ Len(stack) # 1
          /\ Tail(stack) = <<Frame("IOKit", "open"), Frame("IOReport", "check")>>
      BY <1>5, Stacks DEF LoadingCF
    <3>2. l = "CF"  BY <3>1, Fields
    <3> HIDE DEF stack, l
    <3> QED  BY <3>1, <3>2, Calls, Zenon
  <2> HIDE DEF stack, l, opening
  <2>2. CASE handle[l]
    <3>1. MainOpen'
      BY <1>1, <1>2, <1>3, <1>5, <2>1, <2>2 DEF MainOpen, LoadingCF, LoadingIOKit, Settled
    <3> QED  BY <1>3, <2>1, <2>2, <3>1 DEF MainInv
  <2>3. CASE ~handle[l]
    <3>1. MainOpen'
      BY <1>1, <1>2, <1>3, <1>5, <2>1, <2>3 DEF MainOpen, LoadingCF
    <3> QED  BY <1>3, <2>1, <2>3, <3>1 DEF MainInv
  <2> QED  BY <2>2, <2>3
<1>6. CASE Settled("IOReport") /\ LoadingIOReport(Frame("IOReport", "check"))
  <2>1. /\ l = "IOReport" /\ Len(stack) = 1 /\ Tail(stack) = <<>>
        /\ <<Frame("CF", "check")>> \o opening =
              <<Frame("CF", "check"), Frame("IOReport", "open")>>
    <3>1. /\ Head(stack) = Frame("IOReport", "check") /\ Len(stack) = 1 /\ Tail(stack) = <<>>
      BY <1>6, Stacks DEF LoadingIOReport
    <3>2. l = "IOReport"  BY <3>1, Fields
    <3>3. opening = <<Frame("IOReport", "open")>>
      <4> HIDE DEF stack, l
      <4> QED  BY <3>1, <3>2, Calls, Zenon
    <3> HIDE DEF stack, l, opening
    <3> QED  BY <3>1, <3>2, <3>3, Calls, Zenon
  <2> HIDE DEF stack, l, opening
  <2>2. CASE handle[l]
    BY <1>1, <1>2, <1>3, <1>6, <2>1, <2>2 DEF MainInv, LoadingIOReport, Settled, AllLibs
  <2>3. CASE ~handle[l]
    <3>1. MainCheck'
      BY <1>1, <1>2, <1>3, <1>6, <2>1, <2>3 DEF MainCheck, LoadingIOReport
    <3> QED  BY <1>3, <2>1, <2>3, <3>1 DEF MainInv
  <2> QED  BY <2>2, <2>3
<1>7. CASE /\ Loaded("CF") /\ Loaded("IOKit") /\ ~handle["IOReport"]
           /\ stack = <<Frame("CF", "check"), Frame("IOReport", "open")>>
  <2>1. l = "CF" /\ Len(stack) # 1 /\ Tail(stack) = <<Frame("IOReport", "open")>>
    BY <1>7, Stacks DEF Frame
  <2> HIDE DEF stack, l, opening
  <2>2. MainOpen'
    BY <1>1, <1>2, <1>3, <1>7, <2>1 DEF MainOpen, LoadingIOReport, Loaded
  <2> QED  BY <1>3, <1>7, <2>1, <2>2 DEF MainInv, Loaded
<1> QED  BY <1>1, <1>4, <1>5, <1>6, <1>7 DEF MainCheck

\* dlopen succeeds or fails, in each of the three load functions.
LEMMA MainOpenStep ==
    ASSUME TypeInv, MainInv, Dlopen("main")
    PROVE  MainInv'
<1>1. /\ MainOpen /\ result["main"] = "busy" /\ UNCHANGED registered
      /\ DOMAIN frames = Callers /\ "main" \in Callers
      /\ result \in [Callers -> {"idle", "busy", "ok", "error"}]
      /\ handle \in [AllLibs -> BOOLEAN]
  BY MainIsAt, Constants DEF Dlopen, TypeInv
<1> DEFINE stack == frames["main"]
           l == Head(stack).lib
<1>2. \/ /\ handle' = [handle EXCEPT ![l] = TRUE]
         /\ frames'["main"] = <<Frame(l, "register")>> \o Tail(stack)
         /\ result'["main"] = "busy"
      \/ /\ handle' = [handle EXCEPT ![l] = FALSE]
         /\ frames'["main"] = <<>> /\ result'["main"] = "error"
  BY <1>1 DEF Dlopen, Fail
<1>3. \A k \in AllLibs : k # l => (Loaded(k)' <=> Loaded(k)) /\ handle'[k] = handle[k]
  BY <1>1, <1>2 DEF Loaded
<1>4. \A k \in AllLibs : 1 \in 1..NumFuncs[k] /\ Frame(k, "register") = Registering(k, 1)
  BY Constants DEF Frame, Registering
<1>5. CASE ~handle["CF"] /\ LoadingCF(Frame("CF", "open"))
  <2>1. /\ l = "CF"
        /\ <<Frame(l, "register")>> \o Tail(stack) =
              <<Frame("CF", "register"), Frame("IOKit", "open"), Frame("IOReport", "check")>>
    <3>1. /\ Head(stack) = Frame("CF", "open")
          /\ Tail(stack) = <<Frame("IOKit", "open"), Frame("IOReport", "check")>>
      BY <1>5, Stacks DEF LoadingCF
    <3>2. l = "CF"  BY <3>1, Fields
    <3> HIDE DEF stack, l
    <3> QED  BY <3>1, <3>2, Calls, Zenon
  <2>2. ~handle["IOKit"] /\ ~handle["IOReport"]  BY <1>5 DEF LoadingCF
  <2> HIDE DEF stack, l
  <2>3. CASE handle' = [handle EXCEPT ![l] = TRUE] /\ result'["main"] = "busy"
    <3>1. MainRegister'
      <4>1. Registered("CF", 1)'
        BY <1>1, <1>4, <2>1, <2>3 DEF Registered, AllLibs
      <4>2. LoadingCF(Registering("CF", 1))'
        BY <1>1, <1>2, <1>3, <1>4, <2>1, <2>2, <2>3 DEF LoadingCF, AllLibs
      <4> QED  BY <4>1, <4>2 DEF MainRegister
    <3> QED  BY <2>3, <3>1 DEF MainInv
  <2>4. CASE handle' = [handle EXCEPT ![l] = FALSE] /\ result'["main"] = "error"
    <3>1. Known'
      BY <1>1, <1>2, <1>5, <2>1, <2>2, <2>4 DEF Known, Settled, Loaded, AllLibs
    <3> QED  BY <1>2, <2>4, <3>1 DEF MainInv
  <2> QED  BY <1>2, <2>3, <2>4
<1>6. CASE ~handle["IOKit"] /\ LoadingIOKit(Frame("IOKit", "open"))
  <2>1. /\ l = "IOKit"
        /\ <<Frame(l, "register")>> \o Tail(stack) =
              <<Frame("IOKit", "register"), Frame("IOReport", "check")>>
    <3>1. Head(stack) = Frame("IOKit", "open") /\ Tail(stack) = <<Frame("IOReport", "check")>>
      BY <1>6, Stacks DEF LoadingIOKit
    <3>2. l = "IOKit"  BY <3>1, Fields
    <3> HIDE DEF stack, l
    <3> QED  BY <3>1, <3>2, Calls, Zenon
  <2>2. Loaded("CF") /\ ~handle["IOReport"]  BY <1>6 DEF LoadingIOKit
  <2> HIDE DEF stack, l
  <2>3. CASE handle' = [handle EXCEPT ![l] = TRUE] /\ result'["main"] = "busy"
    <3>1. MainRegister'
      <4>1. Registered("IOKit", 1)'
        BY <1>1, <1>4, <2>1, <2>3 DEF Registered, AllLibs
      <4>2. LoadingIOKit(Registering("IOKit", 1))'
        BY <1>1, <1>2, <1>3, <1>4, <2>1, <2>2, <2>3 DEF LoadingIOKit, AllLibs
      <4> QED  BY <4>1, <4>2 DEF MainRegister
    <3> QED  BY <2>3, <3>1 DEF MainInv
  <2>4. CASE handle' = [handle EXCEPT ![l] = FALSE] /\ result'["main"] = "error"
    <3>1. Known'
      BY <1>1, <1>2, <1>6, <2>1, <2>2, <2>4 DEF Known, Settled, Loaded, AllLibs
    <3> QED  BY <1>2, <2>4, <3>1 DEF MainInv
  <2> QED  BY <1>2, <2>3, <2>4
<1>7. CASE ~handle["IOReport"] /\ LoadingIOReport(Frame("IOReport", "open"))
  <2>1. /\ l = "IOReport"
        /\ <<Frame(l, "register")>> \o Tail(stack) = <<Frame("IOReport", "register")>>
    BY <1>7, Stacks DEF Frame, LoadingIOReport
  <2>2. Loaded("CF") /\ Loaded("IOKit")  BY <1>7 DEF LoadingIOReport
  <2> HIDE DEF stack, l
  <2>3. CASE handle' = [handle EXCEPT ![l] = TRUE] /\ result'["main"] = "busy"
    <3>1. MainRegister'
      <4>1. Registered("IOReport", 1)'
        BY <1>1, <1>4, <2>1, <2>3 DEF Registered, AllLibs
      <4>2. LoadingIOReport(Registering("IOReport", 1))'
        BY <1>1, <1>2, <1>3, <1>4, <2>1, <2>2, <2>3 DEF LoadingIOReport, AllLibs
      <4> QED  BY <4>1, <4>2 DEF MainRegister
    <3> QED  BY <2>3, <3>1 DEF MainInv
  <2>4. CASE handle' = [handle EXCEPT ![l] = FALSE] /\ result'["main"] = "error"
    <3>1. Known'
      BY <1>1, <1>2, <1>7, <2>1, <2>2, <2>4 DEF Known, Settled, Loaded, AllLibs
    <3> QED  BY <1>2, <2>4, <3>1 DEF MainInv
  <2> QED  BY <1>2, <2>3, <2>4
<1> QED  BY <1>1, <1>5, <1>6, <1>7 DEF MainOpen

\* One more function registered: the last one loads the library.
LEMMA OneRegistered ==
    ASSUME TypeInv, NEW l \in AllLibs, NEW n \in Nat, Registered(l, n), UNCHANGED handle,
           registered' = [registered EXCEPT ![l] = @ \union {n}]
    PROVE  /\ n = NumFuncs[l] => Loaded(l)'
           /\ n # NumFuncs[l] => Registered(l, n + 1)'
           /\ \A j \in AllLibs : j # l => registered'[j] = registered[j]
<1>1. /\ registered \in [AllLibs -> SUBSET Nat] /\ NumFuncs[l] \in Nat
      /\ registered[l] \subseteq 1..NumFuncs[l] /\ n \in 1..NumFuncs[l]
      /\ 1..(n - 1) \subseteq registered[l] /\ handle[l]
  BY Constants DEF TypeInv, Registered
<1>2. registered'[l] = registered[l] \union {n}  BY <1>1
<1>3. 1..n \subseteq registered'[l] /\ registered'[l] \subseteq 1..NumFuncs[l]
  BY <1>1, <1>2
<1>4. n = NumFuncs[l] => Loaded(l)'  BY <1>1, <1>3 DEF Loaded
<1>5. n # NumFuncs[l] => Registered(l, n + 1)'
  <2>1. (n + 1) - 1 = n  OBVIOUS
  <2>2. n # NumFuncs[l] => n + 1 \in 1..NumFuncs[l]  BY <1>1
  <2> QED  BY <1>1, <1>3, <2>1, <2>2 DEF Registered
<1>6. \A j \in AllLibs : j # l => registered'[j] = registered[j]  BY <1>1
<1> QED  BY <1>4, <1>5, <1>6

\* One function is registered, or its symbol is missing and all ends.
LEMMA MainRegisterStep ==
    ASSUME TypeInv, MainInv, RegisterLibFunc("main")
    PROVE  MainInv'
<1>1. /\ MainRegister /\ result["main"] = "busy" /\ UNCHANGED handle
      /\ DOMAIN frames = Callers /\ "main" \in Callers
      /\ result \in [Callers -> {"idle", "busy", "ok", "error"}]
  BY MainIsAt, Constants DEF RegisterLibFunc, TypeInv
<1> SUFFICES ASSUME ~UNCHANGED <<registered, frames, result>>
             PROVE  MainInv'
  BY <1>1 DEF MainInv, MainCheck, MainOpen, MainRegister, LoadingCF, LoadingIOKit,
     LoadingIOReport, Registered, Loaded, Settled, Known
<1>0. "CF" \in AllLibs /\ "IOKit" \in AllLibs /\ "IOReport" \in AllLibs
  BY DEF AllLibs
<1> DEFINE f == Head(frames["main"])
<1>2. /\ registered' = [registered EXCEPT ![f.lib] = @ \union {f.next}]
      /\ IF f.next = NumFuncs[f.lib]
           THEN Return("main")
           ELSE frames' = [frames EXCEPT !["main"][1].next = @ + 1] /\ UNCHANGED result
  BY DEF RegisterLibFunc
<1> HIDE DEF f
<1>3. CASE \E n \in Nat : Registered("CF", n) /\ LoadingCF(Registering("CF", n))
  <2>1. PICK n \in Nat : Registered("CF", n) /\ LoadingCF(Registering("CF", n))
    BY <1>3
  <2>2. f.lib = "CF" /\ f.next = n
    <3>1. f = Registering("CF", n)  BY <2>1, Stacks DEF f, LoadingCF
    <3> QED  BY <3>1, Fields
  <2>3. /\ registered' = [registered EXCEPT !["CF"] = @ \union {n}]
        /\ IF n = NumFuncs["CF"]
             THEN Return("main")
             ELSE frames' = [frames EXCEPT !["main"][1].next = @ + 1] /\ UNCHANGED result
    BY <1>2, <2>2
  <2>4. /\ n = NumFuncs["CF"] => Loaded("CF")'
        /\ n # NumFuncs["CF"] => Registered("CF", n + 1)'
        /\ registered'["IOKit"] = registered["IOKit"]
        /\ registered'["IOReport"] = registered["IOReport"]
    BY <1>0, <1>1, <2>1, <2>3, OneRegistered
  <2>5. CASE n = NumFuncs["CF"]
    <3>1. /\ frames'["main"] = <<Frame("IOKit", "open"), Frame("IOReport", "check")>>
          /\ result'["main"] = "busy"
      BY <1>1, <2>1, <2>3, <2>5, Stacks DEF Return, LoadingCF
    <3>2. MainOpen'
      BY <1>1, <2>1, <2>4, <2>5, <3>1 DEF MainOpen, LoadingCF, LoadingIOKit
    <3> QED  BY <3>1, <3>2 DEF MainInv
  <2>6. CASE n # NumFuncs["CF"]
    <3>1. frames'["main"] = <<Registering("CF", n + 1), Frame("IOKit", "open"),
                           Frame("IOReport", "check")>>
      <4>1. frames'["main"] = [frames["main"] EXCEPT ![1].next = @ + 1]
        BY <1>1, <2>3, <2>6
      <4>2. frames["main"] = <<Registering("CF", n), Frame("IOKit", "open"),
                               Frame("IOReport", "check")>>
        BY <2>1 DEF LoadingCF
      <4>3. frames["main"][1] = Registering("CF", n)  BY <4>2
      <4>4. frames'["main"] = [frames["main"] EXCEPT ![1] = Registering("CF", n + 1)]
        BY <2>1, <4>1, <4>3, NextFunction
      <4> QED  BY <4>2, <4>4, HeadReplaced
    <3>2. LoadingCF(Registering("CF", n + 1))'
      BY <1>0, <1>1, <2>1, <2>4, <3>1 DEF LoadingCF
    <3>3. MainRegister'
      BY <2>1, <2>4, <2>6, <3>2 DEF MainRegister
    <3> QED  BY <1>1, <2>3, <2>6, <3>3 DEF MainInv
  <2> QED  BY <2>5, <2>6
<1>4. CASE \E n \in Nat : Registered("IOKit", n) /\ LoadingIOKit(Registering("IOKit", n))
  <2>1. PICK n \in Nat : Registered("IOKit", n) /\ LoadingIOKit(Registering("IOKit", n))
    BY <1>4
  <2>2. f.lib = "IOKit" /\ f.next = n
    <3>1. f = Registering("IOKit", n)  BY <2>1, Stacks DEF f, LoadingIOKit
    <3> QED  BY <3>1, Fields
  <2>3. /\ registered' = [registered EXCEPT !["IOKit"] = @ \union {n}]
        /\ IF n = NumFuncs["IOKit"]
             THEN Return("main")
             ELSE frames' = [frames EXCEPT !["main"][1].next = @ + 1] /\ UNCHANGED result
    BY <1>2, <2>2
  <2>4. /\ n = NumFuncs["IOKit"] => Loaded("IOKit")'
        /\ n # NumFuncs["IOKit"] => Registered("IOKit", n + 1)'
        /\ registered'["CF"] = registered["CF"] /\ registered'["IOReport"] = registered["IOReport"]
    BY <1>0, <1>1, <2>1, <2>3, OneRegistered
  <2>5. (Loaded("CF")' <=> Loaded("CF")) /\ (Settled("IOReport")' <=> Settled("IOReport"))
    BY <1>1, <2>4 DEF Loaded, Settled
  <2>6. CASE n = NumFuncs["IOKit"]
    <3>1. /\ frames'["main"] = <<Frame("IOReport", "check")>>
          /\ result'["main"] = "busy"
      BY <1>1, <2>1, <2>3, <2>6, Stacks DEF Return, LoadingIOKit
    <3>2. MainCheck'
      BY <1>1, <2>1, <2>4, <2>5, <2>6, <3>1
         DEF MainCheck, LoadingIOKit, LoadingIOReport, AllLibs, Settled
    <3> QED  BY <3>1, <3>2 DEF MainInv
  <2>7. CASE n # NumFuncs["IOKit"]
    <3>1. frames'["main"] = <<Registering("IOKit", n + 1), Frame("IOReport", "check")>>
      <4>1. frames'["main"] = [frames["main"] EXCEPT ![1].next = @ + 1]
        BY <1>1, <2>3, <2>7
      <4>2. frames["main"] = <<Registering("IOKit", n), Frame("IOReport", "check")>>
        BY <2>1 DEF LoadingIOKit
      <4>3. frames["main"][1] = Registering("IOKit", n)  BY <4>2
      <4>4. frames'["main"] = [frames["main"] EXCEPT ![1] = Registering("IOKit", n + 1)]
        BY <2>1, <4>1, <4>3, NextFunction
      <4> QED  BY <4>2, <4>4, HeadReplaced
    <3>2. LoadingIOKit(Registering("IOKit", n + 1))'
      BY <1>0, <1>1, <2>1, <2>4, <2>5, <3>1 DEF LoadingIOKit
    <3>3. MainRegister'
      BY <2>1, <2>4, <2>7, <3>2 DEF MainRegister
    <3> QED  BY <1>1, <2>3, <2>7, <3>3 DEF MainInv
  <2> QED  BY <2>6, <2>7
<1>5. CASE \E n \in Nat : Registered("IOReport", n) /\ LoadingIOReport(Registering("IOReport", n))
  <2>1. PICK n \in Nat : Registered("IOReport", n) /\ LoadingIOReport(Registering("IOReport", n))
    BY <1>5
  <2>2. f.lib = "IOReport" /\ f.next = n
    <3>1. f = Registering("IOReport", n)  BY <2>1, Stacks DEF f, LoadingIOReport
    <3> QED  BY <3>1, Fields
  <2>3. /\ registered' = [registered EXCEPT !["IOReport"] = @ \union {n}]
        /\ IF n = NumFuncs["IOReport"]
             THEN Return("main")
             ELSE frames' = [frames EXCEPT !["main"][1].next = @ + 1] /\ UNCHANGED result
    BY <1>2, <2>2
  <2>4. /\ n = NumFuncs["IOReport"] => Loaded("IOReport")'
        /\ n # NumFuncs["IOReport"] => Registered("IOReport", n + 1)'
        /\ registered'["CF"] = registered["CF"] /\ registered'["IOKit"] = registered["IOKit"]
    BY <1>0, <1>1, <2>1, <2>3, OneRegistered
  <2>5. (Loaded("CF")' <=> Loaded("CF")) /\ (Loaded("IOKit")' <=> Loaded("IOKit"))
    BY <1>1, <2>4 DEF Loaded, Settled
  <2>6. CASE n = NumFuncs["IOReport"]
    <3>1. frames'["main"] = <<>> /\ result'["main"] = "ok"
      BY <1>1, <2>1, <2>3, <2>6, Stacks DEF Return, LoadingIOReport
    <3>2. Loaded("CF")' /\ Loaded("IOKit")' /\ Loaded("IOReport")'
      BY <2>1, <2>4, <2>5, <2>6 DEF LoadingIOReport
    <3> QED  BY <3>1, <3>2 DEF MainInv, AllLibs
  <2>7. CASE n # NumFuncs["IOReport"]
    <3>1. frames'["main"] = <<Registering("IOReport", n + 1)>>
      <4>1. frames'["main"] = [frames["main"] EXCEPT ![1].next = @ + 1]
        BY <1>1, <2>3, <2>7
      <4>2. frames["main"] = <<Registering("IOReport", n)>>
        BY <2>1 DEF LoadingIOReport
      <4>3. frames["main"][1] = Registering("IOReport", n)  BY <4>2
      <4>4. frames'["main"] = [frames["main"] EXCEPT ![1] = Registering("IOReport", n + 1)]
        BY <2>1, <4>1, <4>3, NextFunction
      <4> QED  BY <4>2, <4>4, HeadReplaced
    <3>2. LoadingIOReport(Registering("IOReport", n + 1))'
      BY <1>0, <1>1, <2>1, <2>4, <2>5, <3>1 DEF LoadingIOReport
    <3>3. MainRegister'
      BY <2>1, <2>4, <2>7, <3>2 DEF MainRegister
    <3> QED  BY <1>1, <2>3, <2>7, <3>3 DEF MainInv
  <2> QED  BY <2>6, <2>7
<1> QED  BY <1>1, <1>3, <1>4, <1>5 DEF MainRegister

-----------------------------------------------------------------------------
(* The other steps.                                                        *)

\* NewSampler is entered, for the first time or after an error.
LEMMA NewSamplerStep ==
    ASSUME TypeInv, MainInv, NewSampler
    PROVE  MainInv'
<1>1. /\ UNCHANGED <<handle, registered>> /\ Known
      /\ frames'["main"] = <<Frame("IOKit", "check"), Frame("IOReport", "check")>>
      /\ result'["main"] = "busy"
  BY Constants DEF NewSampler, MainInv, TypeInv
<1>2. Known'  BY <1>1 DEF Known, Settled, Loaded
<1> QED  BY <1>1, <1>2 DEF MainInv, MainCheck

\* A reader is only ever inside loadIOKit's check, which finds the handle set.
LEMMA ReaderStep ==
    ASSUME Inv, NEW c \in Readers, ReadDeviceInfo(c) \/ Check(c) \/ Dlopen(c) \/ RegisterLibFunc(c)
    PROVE  /\ UNCHANGED <<handle, registered, panicked>>
           /\ frames'["main"] = frames["main"] /\ result'["main"] = result["main"]
           /\ \A d \in Readers : ReaderInv(d)'
           /\ result["main"] = "ok"
           /\ DOMAIN frames' = Callers
           /\ result' \in [Callers -> {"idle", "busy", "ok", "error"}]
<1>1. /\ DOMAIN frames = Callers /\ c \in Callers /\ c # "main" /\ "main" \in Callers
      /\ result \in [Callers -> {"idle", "busy", "ok", "error"}]
      /\ \A d \in Readers : ReaderInv(d) /\ d \in Callers /\ d # "main"
  BY Constants DEF Inv, TypeInv
<1>2. CASE ReadDeviceInfo(c)
  BY <1>1, <1>2 DEF ReadDeviceInfo, ReaderInv
<1>3. CASE Check(c) \/ Dlopen(c) \/ RegisterLibFunc(c)
  <2>1. frames[c] # <<>> /\ (Check(c) \/ Head(frames[c]).at # "check")
    BY <1>3 DEF Check, Dlopen, RegisterLibFunc, At
  <2>2. result[c] = "busy" /\ frames[c] = <<Frame("IOKit", "check")>> /\ result["main"] = "ok"
    BY <1>1, <2>1 DEF ReaderInv
  <2>3. /\ Head(frames[c]) = Frame("IOKit", "check") /\ Tail(frames[c]) = <<>>
        /\ Len(frames[c]) = 1
    BY <2>2, Stacks
  <2>4. Head(frames[c]).lib = "IOKit" /\ Check(c)
    BY <2>1, <2>3, Fields
  <2>5. handle["IOKit"]
    BY <2>2 DEF Inv, MainInv, Loaded, AllLibs
  <2>6. /\ frames' = [frames EXCEPT ![c] = <<>>]
        /\ result' = [result EXCEPT ![c] = "ok"]
        /\ UNCHANGED <<handle, registered, panicked>>
    BY <2>3, <2>4, <2>5 DEF Check, Return
  <2>7. \A d \in Readers : ReaderInv(d)'
    BY <1>1, <2>2, <2>6 DEF ReaderInv
  <2> QED  BY <1>1, <2>2, <2>6, <2>7
<1> QED  BY <1>2, <1>3

LEMMA MainInvUnchanged ==
    ASSUME MainInv, UNCHANGED <<handle, registered>>,
           frames'["main"] = frames["main"], result'["main"] = result["main"]
    PROVE  MainInv'
BY DEF MainInv, MainCheck, MainOpen, MainRegister, LoadingCF, LoadingIOKit, LoadingIOReport,
       Registered, Loaded, Settled, Known

\* While main is loading no reader has begun, and main leaves them alone.
LEMMA MainLeavesReaders ==
    ASSUME Inv, NewSampler \/ Check("main") \/ Dlopen("main") \/ RegisterLibFunc("main")
    PROVE  /\ result["main"] # "ok"
           /\ \A d \in Readers : ReaderInv(d)'
           /\ DOMAIN frames' = Callers
           /\ result' \in [Callers -> {"idle", "busy", "ok", "error"}]
<1>1. /\ DOMAIN frames = Callers /\ "main" \in Callers
      /\ result \in [Callers -> {"idle", "busy", "ok", "error"}]
      /\ \A d \in Readers : ReaderInv(d) /\ d \in Callers /\ d # "main"
  BY Constants DEF Inv, TypeInv
<1>2. result["main"] # "ok"
  <2>1. CASE NewSampler  BY <2>1 DEF NewSampler
  <2>2. CASE Check("main") \/ Dlopen("main") \/ RegisterLibFunc("main")
    <3>1. frames["main"] # <<>>  BY <2>2 DEF Check, Dlopen, RegisterLibFunc, At
    <3> QED  BY <3>1 DEF Inv, MainInv
  <2> QED  BY <2>1, <2>2
<1>3. /\ DOMAIN frames' = Callers
      /\ result' \in [Callers -> {"idle", "busy", "ok", "error"}]
      /\ \A d \in Readers : frames'[d] = frames[d] /\ result'[d] = result[d]
  <2>1. CASE NewSampler  BY <1>1, <2>1 DEF NewSampler
  <2>2. CASE Check("main")  BY <1>1, <2>2 DEF Check, Return
  <2>3. CASE Dlopen("main")  BY <1>1, <2>3 DEF Dlopen, Fail
  <2>4. CASE RegisterLibFunc("main")  BY <1>1, <2>4 DEF RegisterLibFunc, Return
  <2> QED  BY <2>1, <2>2, <2>3, <2>4
<1>4. \A d \in Readers : result[d] = "idle" /\ ReaderInv(d)'
  BY <1>1, <1>2, <1>3 DEF ReaderInv
<1> QED  BY <1>2, <1>3, <1>4

\* Handles and functions keep their types.
LEMMA MainTypes ==
    ASSUME Inv, NewSampler \/ Check("main") \/ Dlopen("main") \/ RegisterLibFunc("main")
    PROVE  /\ handle' \in [AllLibs -> BOOLEAN]
           /\ registered' \in [AllLibs -> SUBSET Nat]
           /\ \A l \in AllLibs : registered'[l] \subseteq 1..NumFuncs[l]
           /\ panicked' \in BOOLEAN
<1> USE DEF Inv, TypeInv
<1>1. CASE NewSampler  BY <1>1 DEF NewSampler
<1>2. CASE Check("main")  BY <1>2 DEF Check
<1>3. CASE Dlopen("main")  BY <1>3 DEF Dlopen
<1>4. CASE RegisterLibFunc("main")
  <2> DEFINE f == Head(frames["main"])
  <2>1. /\ handle' = handle
        /\ \/ registered' = registered
           \/ registered' = [registered EXCEPT ![f.lib] = @ \union {f.next}]
        /\ panicked' = panicked \/ panicked' = TRUE
    BY <1>4 DEF RegisterLibFunc
  <2>2. PICK l \in AllLibs, n \in Nat : n \in 1..NumFuncs[l] /\ f = Registering(l, n)
    <3>1. MainRegister  BY <1>4, MainIsAt DEF RegisterLibFunc
    <3> QED  BY <3>1, Stacks DEF MainRegister, LoadingCF, LoadingIOKit, LoadingIOReport,
                                 Registered, AllLibs
  <2>3. f.lib = l /\ f.next = n  BY <2>2, Fields
  <2> HIDE DEF f
  <2>4. panicked' \in BOOLEAN  BY <2>1
  <2>5. CASE registered' = registered  BY <2>1, <2>4, <2>5
  <2>6. CASE registered' = [registered EXCEPT ![f.lib] = @ \union {f.next}]
    <3>1. registered' = [registered EXCEPT ![l] = @ \union {n}]  BY <2>3, <2>6
    <3>2. registered' \in [AllLibs -> SUBSET Nat]  BY <2>2, <3>1
    <3>3. \A k \in AllLibs : registered'[k] \subseteq 1..NumFuncs[k]  BY <2>2, <3>1
    <3> QED  BY <2>1, <2>4, <3>2, <3>3
  <2> QED  BY <2>1, <2>5, <2>6
<1> QED  BY <1>1, <1>2, <1>3, <1>4

LEMMA InvStep == ASSUME Inv, [Next]_vars PROVE Inv'
<1>1. CASE NewSampler \/ Check("main") \/ Dlopen("main") \/ RegisterLibFunc("main")
  <2>1. MainInv'
    BY <1>1, NewSamplerStep, MainCheckStep, MainOpenStep, MainRegisterStep DEF Inv
  <2> QED  BY <1>1, <2>1, MainLeavesReaders, MainTypes DEF Inv, TypeInv
<1>2. ASSUME NEW c \in Readers,
             ReadDeviceInfo(c) \/ Check(c) \/ Dlopen(c) \/ RegisterLibFunc(c)
      PROVE  Inv'
  <2>1. /\ UNCHANGED <<handle, registered, panicked>>
        /\ frames'["main"] = frames["main"] /\ result'["main"] = result["main"]
        /\ \A d \in Readers : ReaderInv(d)'
        /\ DOMAIN frames' = Callers
        /\ result' \in [Callers -> {"idle", "busy", "ok", "error"}]
    BY <1>2, ReaderStep
  <2>2. MainInv'  BY <2>1, MainInvUnchanged DEF Inv
  <2>3. TypeInv'  BY <2>1 DEF Inv, TypeInv
  <2> QED  BY <2>1, <2>2, <2>3 DEF Inv
<1>3. CASE UNCHANGED vars
  <2>1. MainInv'  BY <1>3, MainInvUnchanged DEF Inv, vars
  <2> QED  BY <1>3, <2>1 DEF Inv, TypeInv, ReaderInv, vars
<1> QED  BY <1>1, <1>2, <1>3 DEF Next, Ended, Callers

LEMMA InvInit == ASSUME Init PROVE Inv
<1> USE DEF Init
<1>1. TypeInv  BY Constants DEF TypeInv
<1>2. MainInv  BY Constants DEF MainInv, Known, Settled, AllLibs
<1>3. \A c \in Readers : ReaderInv(c)  BY Constants DEF ReaderInv
<1> QED  BY <1>1, <1>2, <1>3 DEF Inv

LEMMA InvCorrect == Spec => []Inv
<1>1. Init => Inv  BY InvInit
<1>2. Inv /\ [Next]_vars => Inv'  BY InvStep
<1> QED  BY <1>1, <1>2, PTL DEF Spec

\* NewSampler and ReadDeviceInfo never succeed with a function variable nil, in
\* any number of goroutines and after any number of errors, though a handle is
\* set before the functions it stands for (cf.go:42-62, iokit.go:22-39,
\* ioreport.go:32-58).
THEOREM LoadedCorrect == Spec => []LoadedMeansRegistered
<1>1. ASSUME Inv PROVE LoadedMeansRegistered
  <2> SUFFICES ASSUME NEW c \in Callers, result[c] = "ok", NEW l \in Needs(c)
               PROVE  registered[l] = 1..NumFuncs[l]
    BY DEF LoadedMeansRegistered
  <2>1. l \in AllLibs  BY Constants DEF Needs, AllLibs
  <2>2. result["main"] = "ok"  BY <1>1 DEF Inv, ReaderInv, Callers
  <2> QED  BY <1>1, <2>1, <2>2 DEF Inv, MainInv, Loaded
<1> QED  BY <1>1, InvCorrect, PTL

\* Once NewSampler has returned, the unlocked globals of the loader are
\* read-only: no concurrent ReadDeviceInfo writes one (iokit.go:22-39, 57-61).
THEOREM ReadersCorrect == Spec => ReadersOnlyRead
<1>1. Inv /\ [Next]_vars =>
        [result["main"] = "ok" => UNCHANGED <<handle, registered>>]_vars
  <2> SUFFICES ASSUME Inv, [Next]_vars, result["main"] = "ok"
               PROVE  UNCHANGED <<handle, registered>>
    OBVIOUS
  <2>1. ~(NewSampler \/ Check("main") \/ Dlopen("main") \/ RegisterLibFunc("main"))
    BY MainLeavesReaders
  <2>2. ASSUME NEW c \in Readers,
               ReadDeviceInfo(c) \/ Check(c) \/ Dlopen(c) \/ RegisterLibFunc(c)
        PROVE  UNCHANGED <<handle, registered>>
    BY <2>2, ReaderStep
  <2>3. CASE UNCHANGED vars  BY <2>3 DEF vars
  <2> QED  BY <2>1, <2>2, <2>3 DEF Next, Ended, Callers
<1> QED  BY <1>1, InvCorrect, PTL DEF Spec, ReadersOnlyRead
=============================================================================
