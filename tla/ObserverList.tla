---------------------------- MODULE ObserverList ----------------------------
(***************************************************************************)
(* The list of observers that callback_observers, its variants for         *)
(* bitfields and for mapped ranges, and memory_content_observers keep.  An *)
(* observer that is told of something may register and unregister          *)
(* observers, and may cause the next notification; so while somebody is    *)
(* being told, changes go to a copy that replaces the list when the        *)
(* outermost notification ends.                                            *)
(***************************************************************************)
EXTENDS Naturals

CONSTANT Observers

(* mObservers, mMutableObservers (a copy exists or not), mNotifyLevel and  *)
(* mObservingEnabled.                                                      *)
Lists == [observers : SUBSET Observers, copied : BOOLEAN,
          copy : SUBSET Observers, level : Nat, enabled : BOOLEAN]

NoObservers == [observers |-> {}, copied |-> FALSE, copy |-> {},
                level |-> 0, enabled |-> FALSE]

(* The set that get_mutable_observers gives access to: whoever is in it is *)
(* registered.                                                             *)
Registered(list) == IF list.copied THEN list.copy ELSE list.observers

WithRegistered(list, set) ==
    IF list.level > 0
    THEN [list EXCEPT !.copied = TRUE, !.copy = set]
    ELSE [list EXCEPT !.observers = set]

(* register_observer, unregister_observer, unregister_all_observers; an    *)
(* observer that is registered (or not) already only makes the copy.       *)
Register(list, o) ==
    IF o \in Registered(list)
    THEN WithRegistered(list, Registered(list))
    ELSE [WithRegistered(list, Registered(list) \union {o}) EXCEPT !.enabled = TRUE]

Unregister(list, o) ==
    IF o \notin Registered(list)
    THEN WithRegistered(list, Registered(list))
    ELSE [WithRegistered(list, Registered(list) \ {o})
             EXCEPT !.enabled = @ /\ Registered(list) # {o}]

UnregisterAll(list) == [WithRegistered(list, {}) EXCEPT !.enabled = FALSE]

(* The beginning and the end of a notification (update_observers).         *)
Enter(list) == [list EXCEPT !.level = @ + 1]

Leave(list) ==
    IF list.level = 1 /\ list.copied
    THEN [list EXCEPT !.level = 0, !.observers = list.copy,
                      !.copied = FALSE, !.copy = {}]
    ELSE [list EXCEPT !.level = @ - 1]

(* The test made before an observer of the list is called.                 *)
IsCalled(list, o) == ~list.copied \/ o \in list.copy
=============================================================================
