------------------------------ MODULE DmiPath ------------------------------
(***************************************************************************)
(* The path of a direct memory access: initiators with a dmi_handler each, *)
(* the abstraction level switch they observe, a router and a memory behind *)
(* it (dmi_handler, abstraction_level_switch, router_base, mapped_range;   *)
(* the memory is the module ToplevelMemory seen from outside).  A handler  *)
(* remembers the ranges it was answered, granted or refused, until it is   *)
(* told to forget them; the router and the memory tell it only while they  *)
(* believe that somebody remembers something.                              *)
(***************************************************************************)
EXTENDS Integers, Sequences

CONSTANTS
    Handlers,    \* the dmi_handlers, each registered with the router
    Kinds,       \* the kinds of access: reads and writes
    Accesses,    \* [Handlers -> SUBSET Kinds]: the accesses each initiator makes
    RouterSize,  \* addresses of the router are 0..RouterSize-1
    MemorySize,  \* words of the memory are 0..MemorySize-1
    Top,         \* the largest address
    Mappings     \* the ranges that are mapped: [base, size, offset]

Addresses == 0..Top
MemoryWords == 0..(MemorySize - 1)

ASSUME PathAssumption ==
    /\ Accesses \in [Handlers -> SUBSET Kinds]
    /\ RouterSize \in Nat \ {0} /\ MemorySize \in Nat \ {0}
    /\ Top \in Nat /\ RouterSize <= Top /\ MemorySize <= Top
    /\ Mappings \subseteq [base : Nat, size : Nat \ {0}, offset : Nat]
    /\ \A r \in Mappings : /\ r.base + r.size <= RouterSize
                           /\ r.offset + r.size <= Top

VARIABLES
    dmiAllowed,     \* abstraction_level_switch::mDmiAllowed
    dmiEnabled,     \* [Handlers -> BOOLEAN]: mDmiEnabled of the handler
    ranges,         \* [Handlers -> [Kinds -> sequence of ranges]]: mRead/WriteRanges
    mapped,         \* [Kinds -> set of mappings]: mMappedRead/WriteRanges
    routerEnabled,  \* mDmiEnabled of the router
    routerInUse,    \* mDmiPointersInUse of the router
    grantable,      \* [Kinds -> words the memory would grant now]
    memoryInUse,    \* mDmiPointersInUse of the memory
    table           \* [Kinds -> words]: the region tables of the memory

handlerVars == << dmiAllowed, dmiEnabled, ranges >>
routerVars  == << mapped, routerEnabled, routerInUse >>
memoryVars  == << grantable, memoryInUse, table >>
vars == << handlerVars, routerVars, memoryVars >>

(* A range with the word of the memory behind its first address. *)
Range(low, high, granted, word) ==
    [start |-> low, end |-> high, granted |-> granted, word |-> word]

Refused(low, high) == Range(low, high, FALSE, 0)

Contains(range, address) == range.start <= address /\ address <= range.end

TypeOK ==
    /\ dmiAllowed \in BOOLEAN
    /\ dmiEnabled \in [Handlers -> BOOLEAN]
    /\ \A h \in Handlers, k \in Kinds :
          ranges[h][k] \in Seq([start : Addresses, end : Addresses,
                                 granted : BOOLEAN, word : 0..Top])
    /\ mapped \in [Kinds -> SUBSET Mappings]
    /\ routerEnabled \in BOOLEAN /\ routerInUse \in BOOLEAN
    /\ grantable \in [Kinds -> SUBSET MemoryWords]
    /\ memoryInUse \in BOOLEAN
    /\ table \in [Kinds -> SUBSET MemoryWords]

Init ==
    /\ dmiAllowed = TRUE
    /\ dmiEnabled = [h \in Handlers |-> TRUE]
    /\ ranges = [h \in Handlers |-> [k \in Kinds |-> << >>]]
    /\ mapped = [k \in Kinds |-> {}]
    /\ routerEnabled = TRUE /\ routerInUse = FALSE
    /\ grantable = [k \in Kinds |-> MemoryWords]
    /\ memoryInUse = FALSE
    /\ table = [k \in Kinds |-> {}]

-----------------------------------------------------------------------------
(***************************************************************************)
(* The answers to get_direct_mem_ptr.                                      *)
(***************************************************************************)
(* The memory: the largest range around the word on which the table says   *)
(* the same; every index beyond the memory is refused.                     *)
Alike(words, word, x) == (x \in words) = (word \in words)

LowEnd(words, word) ==
    CHOOSE x \in 0..word : /\ \A y \in x..word : Alike(words, word, y)
                           /\ x = 0 \/ ~Alike(words, word, x - 1)

HighEnd(words, word) ==
    CHOOSE x \in word..Top : /\ \A y \in word..x : Alike(words, word, y)
                             /\ x = Top \/ ~Alike(words, word, x + 1)

MemoryAnswer(words, word) ==
    Range(LowEnd(words, word), HighEnd(words, word), word \in words,
          IF word \in words THEN LowEnd(words, word) ELSE 0)

In(r, address) == r.base <= address /\ address < r.base + r.size

(* The gap between the mapped ranges that an address lies in. *)
Gap(rs, address) ==
    LET below == {r.base + r.size : r \in {x \in rs : x.base + x.size <= address}}
        above == {r.base - 1 : r \in {x \in rs : address < x.base}}
        low  == CHOOSE x \in below \union {0} : \A y \in below : y <= x
        high == CHOOSE x \in above \union {RouterSize - 1} : \A y \in above : x <= y
    IN  Refused(low, high)

(* The answer of the memory, clipped to the mapped range and moved to the  *)
(* addresses of the router.                                                *)
Clipped(r, answer) ==
    LET low  == IF answer.start < r.offset THEN r.offset ELSE answer.start
        high == IF answer.end > r.offset + r.size - 1 THEN r.offset + r.size - 1
                                                      ELSE answer.end
    IN  Range(low - r.offset + r.base, high - r.offset + r.base, answer.granted,
              IF answer.granted THEN answer.word + (low - answer.start) ELSE 0)

AsksMemory(k, address) ==
    routerEnabled /\ address < RouterSize /\ \E r \in mapped[k] : In(r, address)

RouterAnswer(k, address, words) ==
    IF ~routerEnabled THEN Refused(0, Top)
    ELSE IF address >= RouterSize THEN Refused(RouterSize, Top)
    ELSE IF AsksMemory(k, address)
         THEN LET r == CHOOSE r \in mapped[k] : In(r, address)
              IN  Clipped(r, MemoryAnswer(words, address - r.base + r.offset))
         ELSE Gap(mapped[k], address)

-----------------------------------------------------------------------------
(***************************************************************************)
(* Forgetting: dmi_handler::invalidate.  A handler that may not use direct *)
(* accesses keeps one refusal that holds every address.                    *)
(***************************************************************************)
Forgotten(enabled, allowed) ==
    [k \in Kinds |-> IF ~enabled \/ ~allowed THEN << Refused(0, Top) >> ELSE << >>]

AllForget ==
    ranges' = [h \in Handlers |-> Forgotten(dmiEnabled[h], dmiAllowed)]

(* router_base::invalidate_dmi. *)
RouterInvalidates ==
    IF routerInUse THEN AllForget /\ routerInUse' = FALSE
                   ELSE UNCHANGED << ranges, routerInUse >>

(* mapped_range::invalidate_direct_mem_ptr passes on what overlaps it. *)
Forwards(r) == r.offset <= MemorySize - 1

(* toplevel_memory_base::invalidate_dmi, passed on by the mapped ranges.   *)
MemoryInvalidates ==
    IF memoryInUse
    THEN /\ memoryInUse' = FALSE
         /\ IF \E k \in Kinds : \E r \in mapped[k] : Forwards(r)
            THEN AllForget ELSE UNCHANGED ranges
    ELSE UNCHANGED << ranges, memoryInUse >>

-----------------------------------------------------------------------------
(* An access that a remembered range answers: the range moves to the front.*)
Recall(h, k, address) ==
    \E i \in DOMAIN ranges[h][k] :
        /\ Contains(ranges[h][k][i], address)
        /\ \A j \in 1..(i - 1) : ~Contains(ranges[h][k][j], address)
        /\ ranges' = [ranges EXCEPT ![h][k] =
                          << @[i] >> \o SubSeq(@, 1, i - 1) \o SubSeq(@, i + 1, Len(@))]
        /\ UNCHANGED << dmiAllowed, dmiEnabled, routerVars, memoryVars >>

\* Mutant of Load.
Load_RouterNotMarked(h, k, address) ==
    LET fresh == IF memoryInUse THEN table ELSE grantable
        asked == AsksMemory(k, address)
    IN  /\ \A i \in DOMAIN ranges[h][k] : ~Contains(ranges[h][k][i], address)
        /\ ranges' = [ranges EXCEPT ![h][k] =
                          << RouterAnswer(k, address, fresh[k]) >> \o @]
        /\ table' = IF asked THEN fresh ELSE table
        /\ memoryInUse' = (memoryInUse \/ asked)
        /\ UNCHANGED << dmiAllowed, dmiEnabled, routerVars, grantable >>

(* Otherwise the handler asks (load_range) and remembers the answer.       *)
Load(h, k, address) ==
    LET fresh == IF memoryInUse THEN table ELSE grantable
        asked == AsksMemory(k, address)
    IN  /\ \A i \in DOMAIN ranges[h][k] : ~Contains(ranges[h][k][i], address)
        /\ ranges' = [ranges EXCEPT ![h][k] =
                          << RouterAnswer(k, address, fresh[k]) >> \o @]
        /\ routerInUse' = TRUE
        /\ table' = IF asked THEN fresh ELSE table
        /\ memoryInUse' = (memoryInUse \/ asked)
        /\ UNCHANGED << dmiAllowed, dmiEnabled, mapped, routerEnabled, grantable >>

(* dmi_handler::enable_dmi, dmi_handler::disable_dmi. *)
SetHandlerDmi(h, enabled) ==
    /\ dmiEnabled[h] # enabled
    /\ dmiEnabled' = [dmiEnabled EXCEPT ![h] = enabled]
    /\ ranges' = [ranges EXCEPT ![h] = Forgotten(enabled, dmiAllowed)]
    /\ UNCHANGED << dmiAllowed, routerVars, memoryVars >>

\* Mutant of SetDmiAllowed.
SetDmiAllowed_NotifyFirst(allowed) ==
    /\ dmiAllowed # allowed
    /\ dmiAllowed' = allowed
    /\ ranges' = [h \in Handlers |-> Forgotten(dmiEnabled[h], dmiAllowed)]
    /\ UNCHANGED << dmiEnabled, routerVars, memoryVars >>

(* abstraction_level_switch::set_dmi_allowed and the observers it calls. *)
SetDmiAllowed(allowed) ==
    /\ dmiAllowed # allowed
    /\ dmiAllowed' = allowed
    /\ ranges' = [h \in Handlers |-> Forgotten(dmiEnabled[h], allowed)]
    /\ UNCHANGED << dmiEnabled, routerVars, memoryVars >>

Overlap(r, s) == r.base < s.base + s.size /\ s.base < r.base + r.size

(* map, map_read, map_write. *)
Map(r, ks) ==
    /\ \A k \in ks : \A s \in mapped[k] : ~Overlap(r, s)
    /\ mapped' = [k \in Kinds |-> IF k \in ks THEN mapped[k] \union {r} ELSE mapped[k]]
    /\ RouterInvalidates
    /\ UNCHANGED << dmiAllowed, dmiEnabled, routerEnabled, memoryVars >>

(* unmap, unmap_read, unmap_write: the range that starts at base goes. *)
Unmap(base, ks) ==
    /\ \E k \in ks : \E r \in mapped[k] : r.base = base
    /\ mapped' = [k \in Kinds |-> IF k \in ks THEN {r \in mapped[k] : r.base # base}
                                              ELSE mapped[k]]
    /\ RouterInvalidates
    /\ UNCHANGED << dmiAllowed, dmiEnabled, routerEnabled, memoryVars >>

UnmapAll ==
    /\ \E k \in Kinds : mapped[k] # {}
    /\ mapped' = [k \in Kinds |-> {}]
    /\ RouterInvalidates
    /\ UNCHANGED << dmiAllowed, dmiEnabled, routerEnabled, memoryVars >>

\* Mutant of SetRouterDmi.
SetRouterDmi_Silent(enabled) ==
    /\ routerEnabled # enabled
    /\ routerEnabled' = enabled
    /\ UNCHANGED << handlerVars, routerInUse, mapped, memoryVars >>

(* router_base::enable_dmi, router_base::disable_dmi. *)
SetRouterDmi(enabled) ==
    /\ routerEnabled # enabled
    /\ RouterInvalidates
    /\ routerEnabled' = enabled
    /\ UNCHANGED << dmiAllowed, dmiEnabled, mapped, memoryVars >>

(* The memory grants other words: a callback, a restriction, an observer   *)
(* or a DMI switch of the memory or of one of its aliases changes.         *)
ChangeMemory(k, words) ==
    /\ words # grantable[k]
    /\ grantable' = [grantable EXCEPT ![k] = words]
    /\ MemoryInvalidates
    /\ UNCHANGED << dmiAllowed, dmiEnabled, routerVars, table >>

KindSets == {Kinds} \union {{k} : k \in Kinds}

Next ==
    \/ \E h \in Handlers : \E k \in Accesses[h], address \in Addresses :
          Recall(h, k, address) \/ Load(h, k, address)
    \/ \E h \in Handlers, enabled \in BOOLEAN : SetHandlerDmi(h, enabled)
    \/ \E allowed \in BOOLEAN : SetDmiAllowed(allowed)
    \/ \E r \in Mappings, ks \in KindSets : Map(r, ks) \/ Unmap(r.base, ks)
    \/ UnmapAll
    \/ \E enabled \in BOOLEAN : SetRouterDmi(enabled)
    \/ \E k \in Kinds, words \in SUBSET MemoryWords : ChangeMemory(k, words)

Spec == Init /\ [][Next]_vars

-----------------------------------------------------------------------------
(* What an initiator should get for an address: the word behind it. *)
WordBehind(k, address) ==
    {address - r.base + r.offset : r \in {x \in mapped[k] : In(x, address)}}

GrantableNow(k, address) ==
    routerEnabled /\ \E w \in WordBehind(k, address) : w \in grantable[k]

(***************************************************************************)
(* A handler never acts on a range that is out of date: for each address   *)
(* of a range it remembers as granted, the access would be granted now and *)
(* reaches the word the address is mapped to now.  A callback, an unmapped *)
(* or remapped range and a switched-off router never go unnoticed          *)
(* (dmi_handler: get_read_range, invalidate_direct_mem_ptr).               *)
(***************************************************************************)
NoStaleGrant ==
    \A h \in Handlers, k \in Kinds : \A i \in DOMAIN ranges[h][k] :
        LET range == ranges[h][k][i]
        IN  range.granted =>
                \A address \in range.start..range.end :
                    /\ GrantableNow(k, address)
                    /\ range.word + (address - range.start) \in WordBehind(k, address)

(***************************************************************************)
(* A refusal is not remembered for longer than its reason lasts: when the  *)
(* handler may use direct accesses, an address it remembers as refused     *)
(* would be refused now.  Otherwise an initiator would stay slow for the   *)
(* rest of the run (the invalidations on enabling, mapping and removing a  *)
(* callback).                                                              *)
(***************************************************************************)
NoStaleRefusal ==
    dmiAllowed =>
        \A h \in Handlers, k \in Kinds : dmiEnabled[h] =>
            \A i \in DOMAIN ranges[h][k] :
                LET range == ranges[h][k][i]
                IN  ~range.granted => \A address \in range.start..range.end :
                                          ~GrantableNow(k, address)

(***************************************************************************)
(* A handler that is switched off, by itself or by the abstraction level,  *)
(* does no direct access at any address (dmi_handler::invalidate).         *)
(***************************************************************************)
OffMeansNoDirectAccess ==
    \A h \in Handlers, k \in Kinds :
        (~dmiEnabled[h] \/ ~dmiAllowed) =>
            \A address \in Addresses : \E i \in DOMAIN ranges[h][k] :
                /\ Contains(ranges[h][k][i], address)
                /\ \A j \in 1..i : ~ranges[h][k][j].granted

(***************************************************************************)
(* An address lies in one remembered range at most, so the list stays as   *)
(* short as the partition of the addresses and its order cannot decide     *)
(* what an access gets (dmi_handler::get_read_range_slow, load_range).     *)
(***************************************************************************)
RangesAreDisjoint ==
    \A h \in Handlers, k \in Kinds : \A i, j \in DOMAIN ranges[h][k] :
        i # j => \/ ranges[h][k][i].end < ranges[h][k][j].start
                 \/ ranges[h][k][j].end < ranges[h][k][i].start
=============================================================================
