----------------------- MODULE MemoryContentObservers -----------------------
(***************************************************************************)
(* The content observers of a memory (scml2::memory_content_observers),    *)
(* the accesses that notify them, and the direct memory interface that has *)
(* to be refused for the words they watch.  Notifications are calls of     *)
(* user code in the middle of a loop over the list of observers: the code  *)
(* called may register and unregister observers and access the memory      *)
(* again.  A map of the pages that anybody watches lets the accesses to    *)
(* other pages pass without looking at the list.                           *)
(***************************************************************************)
EXTENDS Integers, Sequences, SequencesExt, ObserverList, MemoryIndices

CONSTANTS
    Size,            \* words of the memory
    PageSize,        \* words of a page (0x200 in the code)
    Accesses,        \* the accesses made: records of kind, low and high
    Watches,         \* what the observers may be created for: functions from
                     \* observers to records of kinds, low and high
    Nobody,          \* stands for no observer
    Requested,       \* the words initiators ask direct access for
    MaxDepth,        \* bound on the accesses in progress inside each other
    RequestsInside   \* initiators ask for direct access from inside notifications

Pages == 0..((Size + PageSize - 1) \div PageSize - 1)

NoIndex == -1

ASSUME ContentAssumption ==
    /\ Size \in Nat \ {0} /\ PageSize \in Nat \ {0} /\ Top >= Size
    /\ Nobody \notin Observers
    /\ Requested \subseteq 0..(Size - 1)
    /\ MaxDepth \in Nat /\ RequestsInside \in BOOLEAN
    /\ \A a \in Accesses : a.kind \in Kinds /\ a.low <= a.high
                              /\ a.low \in 0..(Size - 1) /\ a.high \in 0..(Size - 1)
    /\ \A w \in Watches : \A o \in Observers :
          w[o].kinds \in SUBSET Kinds /\ w[o].low <= w[o].high
          /\ w[o].low \in 0..(Size - 1) /\ w[o].high \in 0..(Size - 1)

VARIABLES
    watch,              \* what each observer was created for; never changes
    list,               \* the list of observers, see ObserverList
    mapped,             \* the page maps have been created
    pages,              \* mReadObserverMap, mWriteObserverMap: the marked pages
    accesses,           \* the accesses in progress, the innermost last
    mDmiEnabled,        \* the memory's own switch
    mDmiPointersInUse,  \* the table is valid and ranges may have been granted
    mDmiData, mCleared, \* the table of ranges for write accesses
    toDisable,          \* observers whose range is still to be taken out of it
    asked,              \* the word of the request being answered, or NoIndex
    denied,             \* for checking: the words taken out of the table
    held                \* for checking: the words granted and not invalidated

dmiVars  == << mDmiEnabled, mDmiPointersInUse, mDmiData, mCleared, toDisable,
               asked, denied, held >>
listVars == << list, mapped, pages >>
vars     == << watch, listVars, accesses, dmiVars >>

Dmi == INSTANCE MemoryDmi

-----------------------------------------------------------------------------
PageOf(index)  == index \div PageSize
PagesOf(range) == PageOf(range.low)..PageOf(range.high)

(* notify_observers: the shortcut taken when no page of the access is      *)
(* marked.                                                                 *)
IsNotified(l, a) == l.enabled /\ PagesOf(a) \intersect pages[a.kind] # {}

(* What an access in progress consists of: the access, whether it was      *)
(* performed, the observers the loop has still to visit, the one being     *)
(* called and for which word.  For checking: the calls made, and the       *)
(* observers that were registered before the outermost notification in     *)
(* progress began and have been ever since.                                *)
Notification(a, phase, l, settled) ==
    [access |-> a, phase |-> phase, todo |-> l.observers, current |-> Nobody,
     index |-> 0, told |-> {}, settled |-> settled]

Innermost == accesses[Len(accesses)]
SetInnermost(n) == accesses' = [accesses EXCEPT ![Len(accesses)] = n]

FirstWord(n, o) == IF n.access.low > watch[o].low THEN n.access.low ELSE watch[o].low
LastWord(n, o)  == IF n.access.high < watch[o].high THEN n.access.high ELSE watch[o].high

Concerns(n, o) ==
    n.access.kind \in watch[o].kinds /\ FirstWord(n, o) <= LastWord(n, o)

(* User code runs outside of the memory, or in a call of an observer.      *)
UserRuns ==
    /\ asked = NoIndex
    /\ accesses # << >> => Innermost.current # Nobody

-----------------------------------------------------------------------------
Init ==
    /\ watch \in Watches
    /\ list = NoObservers
    /\ mapped = FALSE /\ pages = [k \in Kinds |-> {}]
    /\ accesses = << >>
    /\ mDmiEnabled = TRUE /\ mDmiPointersInUse = FALSE
    /\ Dmi!Init
    /\ toDisable = {} /\ asked = NoIndex /\ held = {}

(* An access through the decorator: the observers are notified, the data   *)
(* is read or written, the observers are notified again.                   *)
BeginAccess(a) ==
    /\ UserRuns
    /\ Len(accesses) < MaxDepth
    /\ IsNotified(list, a)
    /\ list' = Enter(list)
    /\ accesses' = Append(accesses,
          Notification(a, "pre", list,
             IF accesses = << >> THEN list.observers ELSE Innermost.settled))
    /\ UNCHANGED << watch, mapped, pages, dmiVars >>

(* The loop visits the next observer: it is called for its first word, or  *)
(* passed over.                                                            *)
VisitObserver(o) ==
    /\ accesses # << >> /\ Innermost.current = Nobody /\ o \in Innermost.todo
    /\ LET n == Innermost
       IN  SetInnermost(
              IF IsCalled(list, o) /\ Concerns(n, o)
              THEN [n EXCEPT !.current = o, !.index = FirstWord(n, o),
                             !.told = @ \union {<<o, FirstWord(n, o)>>}]
              ELSE [n EXCEPT !.todo = @ \ {o}])
    /\ UNCHANGED << watch, listVars, dmiVars >>

\* Mutant of CallReturns.
CallReturns_Unchecked ==
    /\ UserRuns /\ accesses # << >>
    /\ LET n == Innermost
           o == n.current
       IN  SetInnermost(
              IF n.index = LastWord(n, o)
              THEN [n EXCEPT !.current = Nobody, !.todo = @ \ {o}]
              ELSE [n EXCEPT !.index = @ + 1, !.told = @ \union {<<o, n.index + 1>>}])
    /\ UNCHANGED << watch, listVars, dmiVars >>

(* A call returns: the observer is called for its next word unless it was  *)
(* its last or the observer has been unregistered meanwhile.               *)
CallReturns ==
    /\ UserRuns /\ accesses # << >>
    /\ LET n == Innermost
           o == n.current
       IN  SetInnermost(
              IF n.index = LastWord(n, o) \/ ~IsCalled(list, o)
              THEN [n EXCEPT !.current = Nobody, !.todo = @ \ {o}]
              ELSE [n EXCEPT !.index = @ + 1, !.told = @ \union {<<o, n.index + 1>>}])
    /\ UNCHANGED << watch, listVars, dmiVars >>

(* The loop ends.  After the first notification of an access the data      *)
(* moves, and the second one begins with the list as it is now.            *)
EndNotification ==
    /\ accesses # << >> /\ Innermost.current = Nobody /\ Innermost.todo = {}
    /\ LET n    == Innermost
           left == Leave(list)
       IN  IF n.phase = "pre" /\ IsNotified(left, n.access)
           THEN /\ list' = Enter(left)
                /\ SetInnermost(Notification(n.access, "post", left,
                      IF Len(accesses) = 1 THEN left.observers ELSE n.settled))
           ELSE /\ list' = left
                /\ accesses' = Front(accesses)
    /\ UNCHANGED << watch, mapped, pages, dmiVars >>

-----------------------------------------------------------------------------
(* invalidate_dmi.  The table is not looked at again before it is cleared, *)
(* so all tables that have to be cleared are taken for the same one.       *)
InvalidateDmi ==
    /\ mDmiPointersInUse' = FALSE
    /\ held' = {}
    /\ IF mCleared THEN UNCHANGED << mDmiData, mCleared, denied >> ELSE Dmi!DisableAll

KeepDmi  == UNCHANGED << mDmiPointersInUse, held, mDmiData, mCleared, denied >>
OtherDmi == UNCHANGED << mDmiEnabled, toDisable, asked >>

(* Whoever is unregistered is not settled in any access in progress.       *)
Unsettle(gone) ==
    accesses' = [i \in DOMAIN accesses |->
                    [accesses[i] EXCEPT !.settled = @ \ gone]]

\* Mutant of RegisterObserver.
RegisterObserver_Silent(o) ==
    /\ UserRuns
    /\ list' = Register(list, o)
    /\ IF o \in Registered(list)
       THEN UNCHANGED << mapped, pages >>
       ELSE /\ mapped' = TRUE
            /\ pages' = [k \in Kinds |->
                            IF k \in watch[o].kinds THEN pages[k] \union PagesOf(watch[o])
                                                    ELSE pages[k]]
    /\ IF o \in Registered(list) \/ list.enabled THEN KeepDmi ELSE InvalidateDmi
    /\ OtherDmi /\ UNCHANGED << watch, accesses >>

(* register_content_observer of the memory: the observer is registered and *)
(* its pages are marked; then the initiators have to ask again.            *)
RegisterObserver(o) ==
    /\ UserRuns
    /\ list' = Register(list, o)
    /\ IF o \in Registered(list)
       THEN UNCHANGED << mapped, pages >> /\ KeepDmi
       ELSE /\ mapped' = TRUE
            /\ pages' = [k \in Kinds |->
                            IF k \in watch[o].kinds THEN pages[k] \union PagesOf(watch[o])
                                                    ELSE pages[k]]
            /\ InvalidateDmi
    /\ OtherDmi /\ UNCHANGED << watch, accesses >>

\* Mutant of Remarked.
Remarked_Forget(o) ==
    [k \in Kinds |-> IF k \in watch[o].kinds THEN pages[k] \ PagesOf(watch[o])
                                             ELSE pages[k]]

(* unregister_observer: the maps of the kinds it watched are made again    *)
(* from all who are left, of whatever kind they are.                       *)
Remarked(o) ==
    [k \in Kinds |->
        IF k \in watch[o].kinds
        THEN UNION {PagesOf(watch[p]) : p \in Registered(list) \ {o}}
        ELSE pages[k]]

UnregisterObserver(o) ==
    /\ UserRuns
    /\ list' = Unregister(list, o)
    /\ IF o \in Registered(list)
       THEN pages' = Remarked(o) /\ InvalidateDmi
       ELSE UNCHANGED pages /\ KeepDmi
    /\ Unsettle({o})
    /\ OtherDmi /\ UNCHANGED << watch, mapped >>

UnregisterAllObservers ==
    /\ UserRuns
    /\ list.enabled
    /\ list' = UnregisterAll(list)
    /\ mapped' = FALSE /\ pages' = [k \in Kinds |-> {}]
    /\ InvalidateDmi
    /\ Unsettle(Observers)
    /\ OtherDmi /\ UNCHANGED watch

-----------------------------------------------------------------------------
(* enable_dmi and disable_dmi of the memory.                               *)
SwitchDmi ==
    /\ UserRuns
    /\ mDmiEnabled' = ~mDmiEnabled
    /\ InvalidateDmi
    /\ UNCHANGED << watch, listVars, accesses, toDisable, asked >>

(* get_direct_mem_ptr for a write access: the table is computed if no      *)
(* pointers are in use, from nothing but the list of observers here (the   *)
(* aliases are ToplevelMemory's matter).                                   *)
GetDirectMemPtr(index) ==
    /\ UserRuns
    /\ accesses # << >> => RequestsInside
    /\ asked' = index
    /\ mDmiPointersInUse' = TRUE
    /\ IF mDmiPointersInUse
       THEN UNCHANGED << mDmiData, mCleared, denied, toDisable >>
       ELSE IF mDmiEnabled
            THEN /\ Dmi!Clear
                 /\ toDisable' = IF list.enabled
                                 THEN {o \in list.observers : "write" \in watch[o].kinds}
                                 ELSE {}
            ELSE Dmi!DisableAll /\ toDisable' = {}
    /\ UNCHANGED << watch, listVars, accesses, mDmiEnabled, held >>

(* disable_dmi of the observers: one range after the other is taken out.   *)
DisableDmi(o) ==
    /\ o \in toDisable
    /\ Dmi!DisableRange(watch[o].low, watch[o].high)
    /\ toDisable' = toDisable \ {o}
    /\ UNCHANGED << watch, listVars, accesses, mDmiEnabled, mDmiPointersInUse,
                    asked, held >>

(* The request is answered with the range its word lies in.                *)
AnswerRequest ==
    /\ asked # NoIndex /\ toDisable = {}
    /\ LET range == Dmi!Find(mDmiData, asked)
       IN  held' = IF range.dmiAllowed
                   THEN held \union (range.startIndex..range.endIndex) ELSE held
    /\ asked' = NoIndex
    /\ UNCHANGED << watch, listVars, accesses, mDmiEnabled, mDmiPointersInUse,
                    mDmiData, mCleared, toDisable, denied >>

Next ==
    \/ \E a \in Accesses : BeginAccess(a)
    \/ \E o \in Observers : VisitObserver(o) \/ RegisterObserver(o)
                               \/ UnregisterObserver(o) \/ DisableDmi(o)
    \/ CallReturns \/ EndNotification \/ UnregisterAllObservers
    \/ SwitchDmi \/ AnswerRequest
    \/ \E index \in Requested : GetDirectMemPtr(index)

Spec == Init /\ [][Next]_vars

-----------------------------------------------------------------------------
TypeOK ==
    /\ watch \in Watches
    /\ list \in Lists /\ list.level = Len(accesses)
    /\ mapped \in BOOLEAN /\ pages \in [Kinds -> SUBSET Pages]
    /\ \A i \in DOMAIN accesses :
          /\ accesses[i].access \in Accesses
          /\ accesses[i].todo \subseteq list.observers
          /\ accesses[i].current \in Observers \union {Nobody}
    /\ mDmiEnabled \in BOOLEAN /\ mDmiPointersInUse \in BOOLEAN
    /\ toDisable \subseteq Observers /\ asked \in 0..(Size - 1) \union {NoIndex}
    /\ held \subseteq 0..Top

(***************************************************************************)
(* No access is missed: the pages of everybody who is registered are       *)
(* marked, so that the shortcut does not pass over him, and when the loop  *)
(* of a notification ends, everybody who was registered all along has been *)
(* told of each word of the access that he watches -- whatever the others  *)
(* registered, unregistered or accessed in between (notify_observers,      *)
(* update_page_map, unregister_observer).                                  *)
(***************************************************************************)
PagesAreMarked ==
    /\ list.enabled <=> Registered(list) # {}
    /\ list.enabled => mapped
    /\ \A o \in Registered(list) :
          \A k \in watch[o].kinds : PagesOf(watch[o]) \subseteq pages[k]

NoAccessIsMissed ==
    /\ PagesAreMarked
    /\ \A i \in DOMAIN accesses :
          LET n == accesses[i]
          IN  \A o \in n.settled \ n.todo :
                 Concerns(n, o) =>
                    \A w \in FirstWord(n, o)..LastWord(n, o) : <<o, w>> \in n.told

(***************************************************************************)
(* An observer is never called once it is unregistered, not even by a      *)
(* notification that began before: whoever unregisters may destroy it      *)
(* (the copy of the list, and the tests of notify_observers).              *)
(***************************************************************************)
NoCallAfterUnregister ==
    [][\A o \in Observers : \A w \in 0..(Size - 1) :
          (/\ Len(accesses') = Len(accesses) /\ accesses # << >>
           /\ <<o, w>> \in accesses'[Len(accesses)].told
           /\ <<o, w>> \notin Innermost.told)
          => o \in Registered(list)]_vars

(***************************************************************************)
(* A word that an observer watches is not accessed directly behind its     *)
(* back, provided that nobody asks for direct access from inside a         *)
(* notification (register_content_observer, disable_dmi).                  *)
(***************************************************************************)
WatchedWordsAreNotHeld ==
    asked = NoIndex =>
        \A o \in Registered(list) :
            "write" \in watch[o].kinds =>
                held \intersect (watch[o].low..watch[o].high) = {}

(***************************************************************************)
(* The table of ranges is unbroken and maximal, and grants exactly what no *)
(* call has disabled since it was last cleared, in whatever order          *)
(* observers, requests and invalidations come (memory_dmi::clear, disable; *)
(* the two parts are stated in MemoryDmi).                                 *)
(***************************************************************************)
TableIsExact == Dmi!EveryIndexIsInOneRange /\ Dmi!GrantsWhatWasNotDisabled
=============================================================================
