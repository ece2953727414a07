---------------------------- MODULE StoreProofs -----------------------------
(***************************************************************************)
(* Store is type correct and implements the compare-and-swap register, and *)
(* what a client prepares under the state lock is a sound successor of the *)
(* catalog it loaded, so that the active profile is runnable, acknowledged *)
(* commits and returned secrets survive, selections move with their        *)
(* generation, and the heads of what a power loss leaves can be read.      *)
(***************************************************************************)
EXTENDS Store, TLAPS

\* A client that has settled on a catalog it has not committed yet.
Busy(c) == pc[c] \in {"make", "sync", "commit"}

\* The state lock's critical section, and what a client in it has prepared.
PendingOK ==
    \A c \in Clients :
        /\ pc[c] \in {"make", "sync", "commit", "syncCatalog", "resync"} => stateLock = c
        /\ Busy(c) => /\ next[c] \in Catalog
                      /\ next[c].format = "v2"
                      /\ next[c].sequence = catalog.sequence + 1
                      /\ view[c] = catalog \/ catalog.format = "legacy"
                      /\ purpose[c] \in Keys => next[c].profiles[purpose[c]] # NONE
        /\ pc[c] \in {"make", "sync"} =>
              /\ at[c] \in Entry
              /\ \E r \in todo[c] : at[c] \in PathTo(r)
        /\ pc[c] = "sync" => at[c] \in entries
        /\ pc[c] = "syncCatalog" /\ purpose[c] \in Keys
              => catalog.profiles[purpose[c]] # NONE
        /\ pc[c] = "resync" => /\ purpose[c] \in Keys
                               /\ catalog.profiles[purpose[c]] # NONE

Typed == TypeOK /\ PendingOK

-----------------------------------------------------------------------------
(* What the operations make of a catalog is a catalog.                     *)

\* The fields of a catalog, as the parser of the catalog file bounds them.
LEMMA CatalogFields ==
    ASSUME NEW cat \in Catalog
    PROVE  /\ cat.format \in Formats
           /\ cat.sequence \in 0..MaxSequence
           /\ cat.active \in ActiveIdentity \cup {NONE}
           /\ cat.profiles \in [Keys -> Profile \cup {NONE}]
BY DEF Catalog

\* The fields of a profile of the catalog.
LEMMA ProfileFields ==
    ASSUME NEW p \in Profile
    PROVE  /\ p.head \in Revision
           /\ p.generation \in 0..MaxGeneration
           /\ p.selections \in SUBSET Selection
           /\ p.secret \in Secrets \cup {NONE}
BY DEF Profile

\* publish builds a profile whose generation stays within its checked bound.
LEMMA NewProfileType ==
    ASSUME NEW old \in Profile \cup {NONE}, NEW k \in Keys, NEW b \in Bundles,
           CheckedSum(RetainedGeneration(old, b), MaxGeneration)
    PROVE  NewProfile(old, k, b) \in Profile
<1>1. RetainedGeneration(old, b) \in 0..MaxGeneration
  <2>1. CASE old = NONE
    BY <2>1, StoreConstants DEF RetainedGeneration
  <2>2. CASE old # NONE
    BY <2>2, ProfileFields, StoreConstants DEF RetainedGeneration, CheckedSum
  <2> QED BY <2>1, <2>2
<1>2. Retained(old, b) \in SUBSET Selection
  BY ProfileFields DEF Retained
<1>3. KeptSecret(old) \in Secrets \cup {NONE}
  BY ProfileFields DEF KeptSecret
<1> QED BY Zenon, <1>1, <1>2, <1>3 DEF Profile, Revision, NewProfile

\* publish builds a catalog.
LEMMA PublishedType ==
    ASSUME NEW cat \in Catalog, NEW k \in Keys, NEW b \in Bundles,
           NEW activate \in BOOLEAN,
           CheckedSum(RetainedGeneration(cat.profiles[k], b), MaxGeneration)
    PROVE  Published(cat, k, b, activate) \in Catalog
<1> DEFINE profile == NewProfile(cat.profiles[k], k, b)
<1>1. profile \in Profile
  BY NewProfileType, CatalogFields
<1>2. Identity(k, <<k, b>>) \in ActiveIdentity
  BY DEF Identity, ActiveIdentity, Revision
<1>3. [cat.profiles EXCEPT ![k] = profile] \in [Keys -> Profile \cup {NONE}]
  BY <1>1, CatalogFields
<1> QED BY <1>2, <1>3, CatalogFields, Zenon DEF Published, Catalog

\* rename builds a catalog, and the moved profile names its new directory.
LEMMA RenamedType ==
    ASSUME NEW cat \in Catalog, NEW k \in Present(cat), NEW new \in Keys
    PROVE  /\ Renamed(cat, k, new) \in Catalog
           /\ [cat.profiles[k] EXCEPT !.head = <<new, cat.profiles[k].head[2]>>] \in Profile
<1> DEFINE revision == <<new, cat.profiles[k].head[2]>>
           profile == [cat.profiles[k] EXCEPT !.head = revision]
           profiles == [cat.profiles EXCEPT ![k] = NONE, ![new] = profile]
<1>1. k \in Keys /\ cat.profiles[k] \in Profile
  BY CatalogFields DEF Present
<1>2. revision \in Revision
  BY Zenon, <1>1, ProfileFields DEF Revision
<1>3. profile \in Profile
  BY <1>1, <1>2 DEF Profile
<1>4. profiles \in [Keys -> Profile \cup {NONE}]
  BY <1>3, CatalogFields
<1>5. Identity(new, revision) \in ActiveIdentity
  BY <1>2 DEF Identity, ActiveIdentity
<1> HIDE DEF revision, profile
<1>6. Renamed(cat, k, new) = [cat EXCEPT !.profiles = profiles,
                 !.active = IF IsActive(cat, k) THEN Identity(new, revision) ELSE cat.active]
  BY DEF Renamed, revision, profile
<1> HIDE DEF profiles
<1>7. Renamed(cat, k, new) \in Catalog
  BY <1>4, <1>5, <1>6, CatalogFields, Zenon DEF Catalog
<1> QED BY <1>3, <1>7 DEF profile, revision

\* Replacing one profile of a catalog leaves a catalog with the same active identity.
LEMMA WithProfileType ==
    ASSUME NEW cat \in Catalog, NEW k \in Keys, NEW p \in Profile
    PROVE  /\ WithProfile(cat, k, p) \in Catalog
           /\ WithProfile(cat, k, p).profiles = [cat.profiles EXCEPT ![k] = p]
           /\ WithProfile(cat, k, p).active = cat.active
<1>1. [cat.profiles EXCEPT ![k] = p] \in [Keys -> Profile \cup {NONE}]
  BY CatalogFields
<1> QED BY <1>1, CatalogFields DEF WithProfile, Catalog

\* The takeover of the legacy layout builds a catalog.
LEMMA ConvertedType ==
    ASSUME NEW cat \in Catalog
    PROVE  Converted(cat) \in Catalog
<1> DEFINE profiles == [k \in Keys |-> IF k \in LegacyKeys THEN LegacyProfile(k) ELSE NONE]
           active == IF LegacyActive \in LegacyKeys
                        /\ LegacyBundle[LegacyActive] \in RuntimeReady
                     THEN Identity(LegacyActive, <<LegacyActive, LegacyBundle[LegacyActive]>>)
                     ELSE NONE
<1>1. ASSUME NEW k \in LegacyKeys PROVE LegacyProfile(k) \in Profile
  BY <1>1, StoreConstants DEF LegacyKeys, LegacyProfile, Profile, Revision
<1>2. profiles \in [Keys -> Profile \cup {NONE}]
  BY <1>1
<1>3. active \in ActiveIdentity \cup {NONE}
  BY StoreConstants DEF Identity, ActiveIdentity, Revision, LegacyKeys
<1>4. Converted(cat) = [cat EXCEPT !.profiles = profiles, !.active = active]
  BY DEF Converted
<1> HIDE DEF profiles, active
<1> QED BY <1>2, <1>3, <1>4, CatalogFields, Zenon DEF Catalog

-----------------------------------------------------------------------------
(* The ways a client moves: into the critical section, along the path it    *)
(* publishes, and out again.                                                *)

\* The directories and the file on the path to a revision.
LEMMA PathEntries ==
    ASSUME NEW r \in Revision
    PROVE  /\ PathTo(r) \subseteq Entry
           /\ \A e \in PathTo(r) : e.key = r[1]
           /\ \A e \in PathTo(r) : e.level = "revision" => e = RevisionEntry(r)
           /\ \A e \in PathTo(r) : e.level \in {"profile", "identity", "revisions", "revision"}
           /\ KeyEntry("profile", r[1]) \in PathTo(r)
           /\ KeyEntry("identity", r[1]) \in PathTo(r)
           /\ KeyEntry("revisions", r[1]) \in PathTo(r)
           /\ RevisionEntry(r) \in PathTo(r)
BY DEF PathTo, KeyEntry, RevisionEntry, Entry, Levels, Revision

\* Entering a transaction keeps the types and the locks.
LEMMA EnterTyped ==
    ASSUME Typed, NEW c \in Clients, NEW n \in Catalog, NEW revs \in SUBSET Revision,
           NEW why \in {"receipt", "takeover"} \cup Keys,
           Enter(c, n, revs, why), stateLock = NONE,
           view[c] = catalog \/ catalog.format = "legacy",
           why \in Keys => n.profiles[why] # NONE,
           cutover' \in Clients \cup {NONE}
    PROVE  Typed'
<1> DEFINE m == [n EXCEPT !.format = "v2", !.sequence = catalog.sequence + 1]
<1>0. CheckedSum(catalog.sequence + 1, MaxSequence)
  BY DEF Enter
<1>1. m \in Catalog /\ m.format = "v2" /\ m.sequence = catalog.sequence + 1
      /\ m.profiles = n.profiles
  <2>1. catalog.sequence + 1 \in 0..MaxSequence
    <3>1. catalog.sequence \in 0..MaxSequence
      BY CatalogFields DEF Typed, TypeOK
    <3> QED BY <1>0, <3>1, StoreConstants DEF CheckedSum
  <2> QED BY <2>1, Zenon DEF Catalog, Formats
<1> HIDE DEF m
<1>2. /\ next' = [next EXCEPT ![c] = m] /\ stateLock' = c
      /\ todo' = [todo EXCEPT ![c] = revs] /\ purpose' = [purpose EXCEPT ![c] = why]
      /\ UNCHANGED <<catalog, disk, entries, durable, view, handed, acked>>
  BY DEF Enter, m
<1>3. \/ revs = {} /\ pc' = [pc EXCEPT ![c] = "commit"] /\ at' = at
      \/ \E r \in revs : /\ pc' = [pc EXCEPT ![c] = "make"]
                         /\ at' = [at EXCEPT ![c] = KeyEntry("profile", r[1])]
  BY Zenon DEF Enter
<1>4. TypeOK'
  <2>1. \A r \in revs : KeyEntry("profile", r[1]) \in Entry
    BY Zenon, PathEntries
  <2> QED BY <1>1, <1>2, <1>3, <2>1 DEF Typed, TypeOK
<1>5. PendingOK'
  <2> SUFFICES ASSUME NEW d \in Clients
               PROVE  PendingOK!(d)'
    BY Zenon DEF PendingOK
  <2>1. CASE d # c
    <3>1. pc[d] \notin {"make", "sync", "commit", "syncCatalog", "resync"}
      BY Zenon, <2>1, NoneIsNoValue DEF Typed, PendingOK
    <3>2. pc'[d] = pc[d]
      BY ZenonT(40), <1>3, <2>1 DEF Typed, TypeOK
    <3> QED BY Zenon, <3>1, <3>2 DEF Busy
  <2>2. CASE d = c
    <3>1. /\ next'[c] = m /\ stateLock' = c /\ todo'[c] = revs /\ purpose'[c] = why
          /\ catalog' = catalog /\ view' = view
      BY Zenon, <1>2 DEF Typed, TypeOK
    <3>2. CASE pc' = [pc EXCEPT ![c] = "commit"]
      <4>1. pc'[c] = "commit"
        BY Zenon, <3>2 DEF Typed, TypeOK
      <4> QED BY Zenon, <4>1, <3>1, <1>1, <2>2 DEF Busy
    <3>3. CASE \E r \in revs : /\ pc' = [pc EXCEPT ![c] = "make"]
                               /\ at' = [at EXCEPT ![c] = KeyEntry("profile", r[1])]
      <4> PICK r \in revs : /\ pc' = [pc EXCEPT ![c] = "make"]
                            /\ at' = [at EXCEPT ![c] = KeyEntry("profile", r[1])]
        BY <3>3, Zenon
      <4>1. pc'[c] = "make" /\ at'[c] = KeyEntry("profile", r[1])
        BY Zenon DEF Typed, TypeOK
      <4>2. at'[c] \in Entry /\ at'[c] \in PathTo(r)
        BY <4>1, PathEntries
      <4> QED BY Zenon, <4>1, <4>2, <3>1, <1>1, <2>2 DEF Busy
    <3> QED BY Zenon, <1>3, <3>2, <3>3
  <2> QED BY Zenon, <2>1, <2>2
<1> QED BY <1>4, <1>5 DEF Typed

\* Leaving an operation disturbs nobody: the catalog may change only when the
\* client leaving is the one that holds the state lock.
LEMMA ReturnTyped ==
    ASSUME Typed, NEW c \in Clients, Return(c), UNCHANGED <<catalog, entries, durable>>,
           disk' \subseteq Catalog,
           view' \in [Clients -> Catalog \cup {NONE}],
           \A d \in Clients \ {c} : view'[d] = view[d],
           handed' \in [Keys -> Secrets \cup {NONE}], acked' \in 0..MaxSequence
    PROVE  Typed'
<1>1. TypeOK'
  BY Zenon DEF Typed, TypeOK, Return
<1>2. PendingOK'
  <2> SUFFICES ASSUME NEW d \in Clients
               PROVE  PendingOK!(d)'
    BY Zenon DEF PendingOK
  <2>1. CASE d = c
    <3>1. pc'[c] = "idle"
      BY Zenon DEF Return, Typed, TypeOK
    <3> QED BY Zenon, <2>1, <3>1 DEF Busy
  <2>2. CASE d # c
    <3>1. /\ pc'[d] = pc[d] /\ next'[d] = next[d] /\ todo'[d] = todo[d]
          /\ at'[d] = at[d] /\ purpose'[d] = purpose[d] /\ view'[d] = view[d]
      BY <2>2 DEF Return, Typed, TypeOK
    <3>2. stateLock = d => stateLock' = d
      BY Zenon, <2>2 DEF Return
    <3>3. PendingOK!(d)
      BY ZenonT(40) DEF Typed, PendingOK
    <3> QED BY Zenon, <3>1, <3>2, <3>3 DEF Busy
  <2> QED BY Zenon, <2>1, <2>2
<1> QED BY Zenon, <1>1, <1>2 DEF Typed

\* The step from one entry of the path to the next.
LEMMA AdvanceTyped ==
    ASSUME Typed, NEW c \in Clients, pc[c] \in {"make", "sync"}, Advance(c, at[c]),
           entries' = entries, durable' \subseteq entries',
           UNCHANGED <<catalog, disk, stateLock, cutover, view, next, purpose, handed, acked>>
    PROVE  Typed'
<1> DEFINE e == at[c]
<1>0. PICK r0 \in todo[c] : e \in Entry /\ e \in PathTo(r0)
  BY DEF Typed, PendingOK
<1>1. r0 \in Revision /\ todo[c] \subseteq Revision
  BY Zenon DEF Typed, TypeOK
<1>2. e.key = r0[1] /\ e.key \in Keys
  BY Zenon, <1>0, <1>1, PathEntries DEF Entry
<1>3. /\ pc' \in [Clients -> {"idle", "bootstrap", "legacy", "takeover", "make",
                              "sync", "commit", "syncCatalog", "resync"}]
      /\ todo' \in [Clients -> SUBSET Revision]
      /\ at' \in [Clients -> Entry \cup {NONE}]
      /\ \A d \in Clients \ {c} : pc'[d] = pc[d] /\ todo'[d] = todo[d] /\ at'[d] = at[d]
      /\ pc'[c] \in {"make", "commit"}
      /\ pc'[c] = "make" => /\ at'[c] \in Entry
                            /\ \E r \in todo'[c] : at'[c] \in PathTo(r)
  <2>1. CASE e.level # "revision"
    <3> DEFINE r1 == CHOOSE r \in todo[c] : r[1] = e.key
               f == CASE e.level = "profile" -> KeyEntry("identity", e.key)
                      [] e.level = "identity" -> KeyEntry("revisions", e.key)
                      [] OTHER -> RevisionEntry(r1)
    <3>1. at' = [at EXCEPT ![c] = f] /\ pc' = [pc EXCEPT ![c] = "make"] /\ todo' = todo
      BY Zenon, <2>1 DEF Advance
    <3>2. r1 \in todo[c] /\ r1[1] = e.key
      BY <1>2, Zenon
    <3>3. f \in PathTo(r1)
      <4>1. f \in {KeyEntry("identity", r1[1]), KeyEntry("revisions", r1[1]), RevisionEntry(r1)}
        <5> HIDE DEF r1
        <5>1. CASE e.level = "profile"
          BY Zenon, <5>1, <3>2
        <5>2. CASE e.level = "identity"
          BY <5>2, <3>2
        <5>3. CASE e.level # "profile" /\ e.level # "identity"
          BY Zenon, <5>3, <3>2
        <5> QED BY <5>1, <5>2, <5>3
      <4> QED BY Zenon, <4>1, <3>2, <1>1, PathEntries
    <3>4. f \in Entry
      BY Zenon, <3>3, <3>2, <1>1, PathEntries
    <3> HIDE DEF f, r1
    <3> QED BY <3>1, <3>2, <3>3, <3>4 DEF Typed, TypeOK
  <2>2. CASE e.level = "revision"
    <3> DEFINE rest == todo[c] \ {<<e.key, e.bundle>>}
    <3>1. todo' = [todo EXCEPT ![c] = rest]
      BY <2>2 DEF Advance
    <3>2. \/ /\ rest = {} /\ pc' = [pc EXCEPT ![c] = "commit"]
             /\ at' = [at EXCEPT ![c] = NONE]
          \/ \E r \in rest : /\ pc' = [pc EXCEPT ![c] = "make"]
                             /\ at' = [at EXCEPT ![c] = KeyEntry("profile", r[1])]
      BY Zenon, <2>2 DEF Advance
    <3>3. rest \subseteq Revision
      BY <1>1
    <3> HIDE DEF rest
    <3>4. CASE rest = {} /\ pc' = [pc EXCEPT ![c] = "commit"] /\ at' = [at EXCEPT ![c] = NONE]
      BY Zenon, <3>1, <3>3, <3>4 DEF Typed, TypeOK
    <3>5. CASE \E r \in rest : /\ pc' = [pc EXCEPT ![c] = "make"]
                               /\ at' = [at EXCEPT ![c] = KeyEntry("profile", r[1])]
      <4> PICK r \in rest : /\ pc' = [pc EXCEPT ![c] = "make"]
                            /\ at' = [at EXCEPT ![c] = KeyEntry("profile", r[1])]
        BY <3>5, Zenon
      <4>1. KeyEntry("profile", r[1]) \in Entry /\ KeyEntry("profile", r[1]) \in PathTo(r)
        BY <3>3, PathEntries, Zenon
      <4> QED BY <3>1, <3>3, <4>1 DEF Typed, TypeOK
    <3> QED BY Zenon, <3>2, <3>4, <3>5
  <2> QED BY Zenon, <2>1, <2>2
<1>4. TypeOK'
  BY ZenonT(40), <1>3 DEF Typed, TypeOK
<1>5. PendingOK'
  <2> SUFFICES ASSUME NEW d \in Clients
               PROVE  PendingOK!(d)'
    BY Zenon DEF PendingOK
  <2>1. PendingOK!(d)
    BY ZenonT(40) DEF Typed, PendingOK
  <2>2. CASE d = c
    BY ZenonT(40), <1>3, <2>1, <2>2 DEF Busy
  <2>3. CASE d # c
    BY Zenon, <1>3, <2>1, <2>3 DEF Busy
  <2> QED BY <2>2, <2>3
<1> QED BY Zenon, <1>4, <1>5 DEF Typed
-----------------------------------------------------------------------------
\* Every operation a client starts keeps the types and the locks.
LEMMA OperationTyped ==
    ASSUME Typed, NEW c \in Clients, Operation(c)
    PROVE  Typed'
<1> USE DEF Expected
<1>0. catalog \in Catalog /\ cutover \in Clients \cup {NONE}
  BY DEF Typed, TypeOK
<1>1. CASE Load(c)
  <2>1. TypeOK'
    BY ZenonT(40), <1>1 DEF Load, Typed, TypeOK
  <2>2. PendingOK'
    <3> SUFFICES ASSUME NEW d \in Clients
                 PROVE  PendingOK!(d)'
      BY Zenon DEF PendingOK
    <3>1. pc[d] \notin {"make", "sync", "commit", "syncCatalog", "resync"}
      BY <1>1, NoneIsNoValue, Zenon DEF Load, Typed, PendingOK
    <3>2. pc'[d] = pc[d] \/ pc'[d] = "legacy"
      BY Zenon, <1>1 DEF Load, Typed, TypeOK
    <3> QED BY ZenonT(40), <3>1, <3>2 DEF Busy
  <2> QED BY <2>1, <2>2 DEF Typed
<1>2. CASE BeginBootstrap(c)
  <2>1. TypeOK'
    BY <1>2 DEF BeginBootstrap, Typed, TypeOK
  <2>2. PendingOK'
    <3> SUFFICES ASSUME NEW d \in Clients
                 PROVE  PendingOK!(d)'
      BY Zenon DEF PendingOK
    <3>1. PendingOK!(d)
      BY DEF Typed, PendingOK
    <3>2. pc'[d] = pc[d] \/ pc'[d] = "bootstrap"
      BY ZenonT(40), <1>2 DEF BeginBootstrap, Typed, TypeOK
    <3> QED BY Zenon, <1>2, <3>1, <3>2 DEF Busy, BeginBootstrap
  <2> QED BY <2>1, <2>2 DEF Typed
<1>3. ASSUME NEW k \in Keys, NEW b \in Bundles, NEW activate \in BOOLEAN,
             Publish(c, k, b, activate)
      PROVE  Typed'
  <2>1. Published(catalog, k, b, activate) \in Catalog
    BY <1>0, <1>3, PublishedType DEF Publish
  <2>2. {<<k, b>>} \subseteq Revision
    BY DEF Revision
  <2> QED BY Zenon, <1>0, <1>3, <2>1, <2>2, EnterTyped, NoneIsNoValue DEF Publish
<1>4. ASSUME NEW k \in Keys \cup {NONE}, Activate(c, k)
      PROVE  Typed'
  <2>1. [catalog EXCEPT !.active = NONE] \in Catalog
    BY <1>0 DEF Catalog
  <2>2. ASSUME k \in Present(catalog)
        PROVE  [catalog EXCEPT !.active = Identity(k, catalog.profiles[k].head)] \in Catalog
    <3>1. k \in Keys /\ catalog.profiles[k] \in Profile
      BY Zenon, <2>2, <1>0, CatalogFields DEF Present
    <3>2. Identity(k, catalog.profiles[k].head) \in ActiveIdentity
      BY Zenon, <3>1, ProfileFields DEF Identity, ActiveIdentity
    <3> QED BY Zenon, <3>2, <1>0 DEF Catalog
  <2> QED BY Zenon, <1>0, <1>4, <2>1, <2>2, EnterTyped, NoneIsNoValue DEF Activate
<1>5. ASSUME NEW k \in Keys, Delete(c, k)
      PROVE  Typed'
  <2> DEFINE n == [catalog EXCEPT !.profiles[k] = NONE,
                                  !.active = IF IsActive(catalog, k) THEN NONE
                                             ELSE catalog.active]
  <2>1. [catalog.profiles EXCEPT ![k] = NONE] \in [Keys -> Profile \cup {NONE}]
    BY Zenon, <1>0, CatalogFields
  <2>2. n \in Catalog
    BY <1>0, <2>1, CatalogFields, Zenon DEF Catalog
  <2>3. Enter(c, n, {}, "receipt")
    BY Zenon, <1>5 DEF Delete
  <2> HIDE DEF n
  <2> QED BY Zenon, <1>0, <1>5, <2>2, <2>3, EnterTyped, NoneIsNoValue DEF Delete
<1>6. ASSUME NEW k \in Keys, NEW new \in Keys, Rename(c, k, new)
      PROVE  Typed'
  <2>1. Renamed(catalog, k, new) \in Catalog
    BY <1>0, <1>6, RenamedType, Zenon DEF Rename
  <2>2. {<<new, catalog.profiles[k].head[2]>>} \subseteq Revision
    <3>1. catalog.profiles[k] \in Profile
      BY Zenon, <1>0, <1>6, CatalogFields DEF Rename, Present
    <3> QED BY <3>1, ProfileFields DEF Revision
  <2> QED BY <1>0, <1>6, <2>1, <2>2, EnterTyped, NoneIsNoValue DEF Rename
<1>7. ASSUME NEW k \in Keys, NEW selections \in SUBSET Selection, Select(c, k, selections)
      PROVE  Typed'
  <2> DEFINE p == [catalog.profiles[k] EXCEPT !.selections = selections,
                                              !.generation = @ + 1]
             n == WithProfile(catalog, k, p)
  <2>1. catalog.profiles[k] \in Profile
    BY Zenon, <1>0, <1>7, CatalogFields DEF Select, Present
  <2>2. catalog.profiles[k].generation + 1 \in 0..MaxGeneration
    BY <1>7, <2>1, ProfileFields, StoreConstants DEF Select, CheckedSum
  <2>3. p \in Profile
    BY <2>1, <2>2, Zenon DEF Profile
  <2>5. Enter(c, n, {}, "receipt")
    BY <1>7 DEF Select
  <2> HIDE DEF p
  <2>6. n \in Catalog
    BY <1>0, <2>3, WithProfileType, Zenon
  <2> HIDE DEF n
  <2> QED BY <1>0, <1>7, <2>5, <2>6, EnterTyped, NoneIsNoValue DEF Select
<1>8. ASSUME NEW k \in Keys, NEW fresh \in Secrets, EnsureSecret(c, k, fresh)
      PROVE  Typed'
  <2>0. catalog.profiles[k] \in Profile
    BY Zenon, <1>0, <1>8, CatalogFields DEF EnsureSecret, Present
  <2>1. CASE catalog.profiles[k].secret = NONE
    <3> DEFINE p == [catalog.profiles[k] EXCEPT !.secret = fresh]
               n == WithProfile(catalog, k, p)
    <3>1. p \in Profile
      BY Zenon, <2>0 DEF Profile
    <3>3. Enter(c, n, {}, k)
      BY <1>8, <2>1 DEF EnsureSecret
    <3> HIDE DEF p
    <3>4. n \in Catalog /\ n.profiles[k] = p
      <4>1. n \in Catalog /\ n.profiles = [catalog.profiles EXCEPT ![k] = p]
        BY <1>0, <3>1, WithProfileType
      <4> HIDE DEF n
      <4> QED BY Zenon, <1>0, <4>1, CatalogFields
    <3> HIDE DEF n
    <3> QED BY <1>0, <1>8, <3>1, <3>3, <3>4, EnterTyped, NoneIsNoValue DEF EnsureSecret
  <2>2. CASE catalog.profiles[k].secret # NONE
    <3>1. /\ stateLock = NONE /\ stateLock' = c /\ pc' = [pc EXCEPT ![c] = "resync"]
          /\ purpose' = [purpose EXCEPT ![c] = k]
          /\ UNCHANGED <<catalog, disk, entries, durable, view, next, todo, at, handed,
                         acked, cutover>>
      BY <1>8, <2>2 DEF EnsureSecret
    <3>2. TypeOK'
      BY Zenon, <3>1 DEF Typed, TypeOK
    <3>3. PendingOK'
      <4> SUFFICES ASSUME NEW d \in Clients
                   PROVE  PendingOK!(d)'
        BY Zenon DEF PendingOK
      <4>1. CASE d = c
        <5>1. pc'[c] = "resync" /\ purpose'[c] = k
          BY Zenon, <3>1 DEF Typed, TypeOK
        <5> QED BY Zenon, <4>1, <5>1, <3>1, <2>0, NoneIsNoValue DEF Busy
      <4>2. CASE d # c
        <5>1. pc'[d] = pc[d]
          BY Zenon, <3>1, <4>2 DEF Typed, TypeOK
        <5>2. pc[d] \notin {"make", "sync", "commit", "syncCatalog", "resync"}
          BY Zenon, <3>1, NoneIsNoValue DEF Typed, PendingOK
        <5> QED BY Zenon, <5>1, <5>2 DEF Busy
      <4> QED BY Zenon, <4>1, <4>2
    <3> QED BY <3>2, <3>3 DEF Typed
  <2> QED BY <2>1, <2>2
<1>9. ASSUME NEW k \in Keys, NEW choice \in Selection, SelectProxy(c, k, choice)
      PROVE  Typed'
  <2>1. k \in Present(catalog) /\ catalog.profiles[k] \in Profile
    BY Zenon, <1>0, <1>9, CatalogFields DEF SelectProxy, Present
  <2>2. {s \in Reconciled(catalog, k) : s[1] # choice[1]} \cup {choice} \in SUBSET Selection
    BY Zenon, <2>1, ProfileFields DEF Reconciled
  <2> QED BY Zenon, <1>7, <1>9, <2>2 DEF SelectProxy
<1>10. ASSUME NEW k \in Keys, PrepareSelections(c, k)
       PROVE  Typed'
  <2>1. k \in Present(catalog) /\ catalog.profiles[k] \in Profile
    BY Zenon, <1>0, <1>10, CatalogFields DEF PrepareSelections, Present
  <2>2. Reconciled(catalog, k) \in SUBSET Selection
    BY <2>1, ProfileFields DEF Reconciled
  <2> QED BY Zenon, <1>7, <1>10, <2>2 DEF PrepareSelections
<1> QED BY Zenon, <1>1, <1>2, <1>3, <1>4, <1>5, <1>6, <1>8, <1>9, <1>10 DEF Operation

\* A killed client and a power loss keep the types and the locks.
LEMMA FailureTyped ==
    ASSUME Typed
    PROVE  /\ \A c \in Clients : Kill(c) => Typed'
           /\ PowerLoss => Typed'
<1>1. ASSUME NEW c \in Clients, Kill(c) PROVE Typed'
  BY <1>1, ReturnTyped DEF Kill, Typed, TypeOK
<1>2. ASSUME PowerLoss PROVE Typed'
  <2>1. catalog' \in Catalog
    BY Zenon, <1>2 DEF PowerLoss, Typed, TypeOK
  <2>2. handed' \in [Keys -> Secrets \cup {NONE}]
    BY Zenon, <1>2 DEF PowerLoss, StillHanded, Typed, TypeOK
  <2>3. entries' \subseteq Entry /\ durable' \subseteq entries'
    BY Zenon, <1>2 DEF PowerLoss, Typed, TypeOK
  <2>4. TypeOK'
    BY Zenon, <1>2, <2>1, <2>2, <2>3 DEF PowerLoss, Typed, TypeOK
  <2>5. PendingOK'
    BY Zenon, <1>2 DEF PowerLoss, PendingOK, Busy
  <2> QED BY Zenon, <2>4, <2>5 DEF Typed
<1> QED BY Zenon, <1>1, <1>2

-----------------------------------------------------------------------------
(* What the operations make of a sound catalog.                            *)

\* A catalog as every operation leaves it.
Sound(cat) ==
    /\ ActiveRunnable(cat)
    /\ \A k \in Present(cat) : cat.profiles[k].head[1] = k
    /\ cat.format = "legacy" => cat.profiles = EmptyProfiles

\* How a commit may change the profiles that are in both catalogs.
Evolves(old, new) ==
    \A k \in Keys : (old.profiles[k] # NONE /\ new.profiles[k] # NONE) =>
        /\ new.profiles[k].generation >= old.profiles[k].generation
        /\ new.profiles[k].selections # old.profiles[k].selections
              => new.profiles[k].generation > old.profiles[k].generation
        /\ old.profiles[k].secret # NONE
              => new.profiles[k].secret = old.profiles[k].secret

\* The generation of a profile that is present can be compared.
LEMMA GenerationsAreNumbers ==
    ASSUME NEW cat \in Catalog, NEW k \in Keys, cat.profiles[k] # NONE
    PROVE  cat.profiles[k] \in Profile /\ cat.profiles[k].generation \in Nat
<1>1. cat.profiles[k] \in Profile
  BY Zenon, CatalogFields
<1>2. cat.profiles[k].generation \in 0..MaxGeneration
  BY Zenon, <1>1, ProfileFields
<1>3. cat.profiles[k].generation \in Nat
  BY <1>2, StoreConstants
<1> QED BY Zenon, <1>1, <1>3

\* publish leaves a runnable active profile and moves selections with their generation.
LEMMA PublishedSafe ==
    ASSUME NEW cat \in Catalog, NEW k \in Keys, NEW b \in Bundles,
           NEW activate \in BOOLEAN, Sound(cat),
           (activate \/ IsActive(cat, k)) => b \in RuntimeReady,
           CheckedSum(RetainedGeneration(cat.profiles[k], b), MaxGeneration)
    PROVE  /\ ActiveRunnable(Published(cat, k, b, activate))
           /\ \A j \in Present(Published(cat, k, b, activate)) :
                 Published(cat, k, b, activate).profiles[j].head[1] = j
           /\ Evolves(cat, Published(cat, k, b, activate))
<1> DEFINE old == cat.profiles[k]
           profile == NewProfile(old, k, b)
           n == Published(cat, k, b, activate)
<1>1. /\ profile.head = <<k, b>> /\ profile.generation = RetainedGeneration(old, b)
      /\ profile.selections = Retained(old, b) /\ profile.secret = KeptSecret(old)
  BY Zenon DEF NewProfile
<1>2. profile \in Profile /\ profile # NONE /\ old \in Profile \cup {NONE}
  BY NewProfileType, CatalogFields, NoneIsNoValue
<1>3. /\ n.profiles = [cat.profiles EXCEPT ![k] = profile]
      /\ n.active = IF activate \/ IsActive(cat, k) THEN Identity(k, <<k, b>>) ELSE cat.active
  BY Zenon DEF Published, Catalog
<1> HIDE DEF profile, n
<1>4. n.profiles[k] = profile /\ \A j \in Keys : j # k => n.profiles[j] = cat.profiles[j]
  BY Zenon, <1>3, CatalogFields
<1>5. \A j \in Present(n) : n.profiles[j].head[1] = j
  BY <1>1, <1>4 DEF Present, Sound
<1>6. ActiveRunnable(n)
  <2>1. CASE activate \/ IsActive(cat, k)
    <3>1. n.active = Identity(k, <<k, b>>) /\ b \in RuntimeReady
      BY Zenon, <1>3, <2>1
    <3> QED BY <3>1, <1>1, <1>2, <1>4 DEF ActiveRunnable, Present, Identity
  <2>2. CASE ~(activate \/ IsActive(cat, k))
    <3>1. n.active = cat.active
      BY <1>3, <2>2
    <3>2. cat.active # NONE => cat.active.key # k
      BY Zenon, <2>2 DEF IsActive
    <3> QED BY ZenonT(40), <3>1, <3>2, <1>4 DEF ActiveRunnable, Present, Sound
  <2> QED BY ZenonT(40), <2>1, <2>2
<1>7. Evolves(cat, n)
  <2> SUFFICES ASSUME NEW j \in Keys, cat.profiles[j] # NONE, n.profiles[j] # NONE
               PROVE  /\ n.profiles[j].generation >= cat.profiles[j].generation
                      /\ n.profiles[j].selections # cat.profiles[j].selections
                            => n.profiles[j].generation > cat.profiles[j].generation
                      /\ cat.profiles[j].secret # NONE
                            => n.profiles[j].secret = cat.profiles[j].secret
    BY Zenon DEF Evolves
  <2>0. cat.profiles[j].generation \in Nat
    BY Zenon, GenerationsAreNumbers
  <2>1. CASE j = k
    <3>1. /\ profile.secret = old.secret
          /\ profile.generation = IF profile.selections = old.selections
                                  THEN old.generation ELSE old.generation + 1
      BY Zenon, <2>1, <1>1 DEF RetainedGeneration, KeptSecret
    <3>2. /\ old.generation + 1 > old.generation /\ old.generation + 1 >= old.generation
          /\ old.generation >= old.generation
      BY <2>0, <2>1
    <3> QED BY Zenon, <2>1, <1>4, <3>1, <3>2
  <2>2. CASE j # k
    BY <2>0, <2>2, <1>4
  <2> QED BY ZenonT(40), <2>1, <2>2
<1> QED BY Zenon, <1>5, <1>6, <1>7 DEF n
\* rename leaves a runnable active profile and moves selections with their generation.
LEMMA RenamedSafe ==
    ASSUME NEW cat \in Catalog, NEW k \in Present(cat), NEW new \in Keys,
           new \notin Present(cat), Sound(cat)
    PROVE  /\ ActiveRunnable(Renamed(cat, k, new))
           /\ \A j \in Present(Renamed(cat, k, new)) :
                 Renamed(cat, k, new).profiles[j].head[1] = j
           /\ Evolves(cat, Renamed(cat, k, new))
<1> DEFINE revision == <<new, cat.profiles[k].head[2]>>
           profile == [cat.profiles[k] EXCEPT !.head = revision]
           n == Renamed(cat, k, new)
<1>1. k \in Keys /\ cat.profiles[k] \in Profile /\ k # new /\ cat.profiles[new] = NONE
  BY Zenon, CatalogFields DEF Present
<1>2. profile \in Profile /\ profile.head = revision /\ profile # NONE
  <2>1. profile \in Profile
    BY RenamedType
  <2> QED BY Zenon, <2>1, <1>1, NoneIsNoValue DEF Profile
<1>3. /\ n.profiles = [cat.profiles EXCEPT ![k] = NONE, ![new] = profile]
      /\ n.active = IF IsActive(cat, k) THEN Identity(new, revision) ELSE cat.active
  BY Zenon DEF Renamed, Catalog
<1>4. revision[1] = new /\ revision[2] = cat.profiles[k].head[2]
  BY Zenon
<1> HIDE DEF profile, n, revision
<1>5. /\ n.profiles[new] = profile /\ n.profiles[k] = NONE
      /\ \A j \in Keys \ {k, new} : n.profiles[j] = cat.profiles[j]
  BY Zenon, <1>1, <1>3, CatalogFields
<1>6. \A j \in Present(n) : n.profiles[j].head[1] = j
  BY <1>2, <1>4, <1>5 DEF Present, Sound
<1>7. ActiveRunnable(n)
  <2>1. CASE IsActive(cat, k)
    <3>1. n.active = Identity(new, revision)
      BY Zenon, <1>3, <2>1
    <3>2. cat.profiles[k].head[2] \in RuntimeReady
      BY Zenon, <2>1 DEF Sound, ActiveRunnable, IsActive
    <3> QED BY <3>1, <3>2, <1>2, <1>4, <1>5 DEF ActiveRunnable, Present, Identity
  <2>2. CASE ~IsActive(cat, k)
    <3>1. n.active = cat.active /\ (cat.active # NONE => cat.active.key # k)
      BY Zenon, <1>3, <2>2 DEF IsActive
    <3>2. cat.active # NONE => cat.active.key # new
      BY Zenon DEF Sound, ActiveRunnable
    <3> QED BY ZenonT(40), <3>1, <3>2, <1>5 DEF ActiveRunnable, Present, Sound
  <2> QED BY Zenon, <2>1, <2>2
<1>8. Evolves(cat, n)
  <2> SUFFICES ASSUME NEW j \in Keys, cat.profiles[j] # NONE, n.profiles[j] # NONE
               PROVE  n.profiles[j] = cat.profiles[j] /\ cat.profiles[j].generation \in Nat
    BY DEF Evolves
  <2>1. j # k /\ j # new
    BY Zenon, <1>1, <1>5
  <2> QED BY Zenon, <2>1, <1>5, GenerationsAreNumbers
<1> QED BY Zenon, <1>6, <1>7, <1>8 DEF n

\* A change of one profile that keeps its head and lets it evolve.
LEMMA ProfileChangeSafe ==
    ASSUME NEW cat \in Catalog, NEW k \in Present(cat), NEW p \in Profile, Sound(cat),
           p.head = cat.profiles[k].head,
           p.generation >= cat.profiles[k].generation,
           p.selections # cat.profiles[k].selections
              => p.generation > cat.profiles[k].generation,
           cat.profiles[k].secret # NONE => p.secret = cat.profiles[k].secret,
           NEW n \in Catalog, n.profiles = [cat.profiles EXCEPT ![k] = p],
           n.active = cat.active
    PROVE  /\ ActiveRunnable(n)
           /\ \A j \in Present(n) : n.profiles[j].head[1] = j
           /\ Evolves(cat, n)
<1>1. k \in Keys /\ p # NONE
  BY NoneIsNoValue DEF Present
<1>2. n.profiles[k] = p /\ \A j \in Keys \ {k} : n.profiles[j] = cat.profiles[j]
  BY Zenon, <1>1, CatalogFields
<1>3. ActiveRunnable(n)
  BY SMTT(40), <1>1, <1>2 DEF ActiveRunnable, Present, Sound
<1>4. \A j \in Present(n) : n.profiles[j].head[1] = j
  BY ZenonT(40), <1>1, <1>2 DEF Present, Sound
<1>5. Evolves(cat, n)
  BY <1>1, <1>2, GenerationsAreNumbers DEF Evolves
<1> QED BY Zenon, <1>3, <1>4, <1>5

-----------------------------------------------------------------------------


\* Every step of a transaction keeps the types and the locks.
LEMMA StepTyped ==
    ASSUME Typed, NEW c \in Clients, Step(c)
    PROVE  Typed'
<1>0. catalog \in Catalog /\ cutover \in Clients \cup {NONE}
  BY DEF Typed, TypeOK
<1>1. CASE BeginTakeover(c)
  <2>1. TypeOK'
    BY Zenon, <1>1 DEF BeginTakeover, Typed, TypeOK
  <2>2. PendingOK'
    <3> SUFFICES ASSUME NEW d \in Clients
                 PROVE  PendingOK!(d)'
      BY Zenon DEF PendingOK
    <3>1. PendingOK!(d)
      BY DEF Typed, PendingOK
    <3>2. pc'[d] = pc[d] \/ pc'[d] = "takeover"
      BY <1>1 DEF BeginTakeover, Typed, TypeOK
    <3> QED BY Zenon, <1>1, <3>1, <3>2 DEF Busy, BeginTakeover
  <2> QED BY Zenon, <2>1, <2>2 DEF Typed
<1>2. CASE Takeover(c)
  <2>1. CASE catalog.format = "v2"
    <3>1. /\ Return(c) /\ view' = [view EXCEPT ![c] = catalog]
          /\ UNCHANGED <<catalog, disk, entries, durable, handed, acked>>
      BY <1>2, <2>1, Zenon DEF Takeover
    <3> QED BY <3>1, ReturnTyped DEF Typed, TypeOK
  <2>2. CASE catalog.format = "legacy"
    <3>1. {<<k, LegacyBundle[k]>> : k \in LegacyKeys} \subseteq Revision
      <4>1. \A k \in LegacyKeys : k \in Keys /\ LegacyBundle[k] \in Bundles
        BY StoreConstants DEF LegacyKeys
      <4> QED BY <4>1 DEF Revision
    <3> QED BY <1>0, <1>2, <2>2, <3>1, ConvertedType, EnterTyped, NoneIsNoValue DEF Takeover
  <2> QED BY <1>2, <2>1, <2>2, Zenon DEF Takeover
<1>3. CASE Make(c)
  <2>1. CASE Advance(c, at[c]) /\ UNCHANGED entries
    BY <1>3, <2>1, AdvanceTyped DEF Make, Typed, TypeOK
  <2>2. CASE /\ entries' = entries \cup {at[c]} /\ pc' = [pc EXCEPT ![c] = "sync"]
             /\ UNCHANGED <<at, todo>>
    <3>1. at[c] \in Entry /\ \E r \in todo[c] : at[c] \in PathTo(r)
      BY <1>3, Zenon DEF Make, Typed, PendingOK
    <3>2. TypeOK'
      BY Zenon, <1>3, <2>2, <3>1 DEF Make, Typed, TypeOK
    <3>3. PendingOK'
      <4> SUFFICES ASSUME NEW d \in Clients
                   PROVE  PendingOK!(d)'
        BY DEF PendingOK
      <4>1. PendingOK!(d)
        BY Zenon DEF Typed, PendingOK
      <4>2. pc[c] = "make" /\ pc'[c] = "sync" /\ (d # c => pc'[d] = pc[d])
        BY Zenon, <1>3, <2>2 DEF Make, Typed, TypeOK
      <4> QED BY Zenon, <1>3, <2>2, <3>1, <4>1, <4>2 DEF Busy, Make
    <3> QED BY <3>2, <3>3 DEF Typed
  <2> QED BY Zenon, <1>3, <2>1, <2>2 DEF Make
<1>4. CASE Sync(c)
  <2>1. durable' \subseteq entries'
    BY Zenon, <1>4 DEF Sync, Siblings, Typed, TypeOK
  <2> QED BY <1>4, <2>1, AdvanceTyped, Zenon DEF Sync
<1>5. CASE SyncFails(c) \/ ResyncFails(c) \/ Abandon(c)
  BY <1>5, ReturnTyped DEF SyncFails, ResyncFails, Abandon, Typed, TypeOK
<1>6. CASE Commit(c)
  <2>1. /\ pc[c] = "commit" /\ pc' = [pc EXCEPT ![c] = "syncCatalog"]
        /\ next[c] \in Catalog /\ catalog' = next[c] /\ stateLock = c
        /\ purpose[c] \in Keys => next[c].profiles[purpose[c]] # NONE
    BY <1>6, Zenon DEF Commit, Typed, PendingOK, Busy
  <2>2. handed' \in [Keys -> Secrets \cup {NONE}]
    BY Zenon, <1>6 DEF Commit, StillHanded, Typed, TypeOK
  <2>3. TypeOK'
    BY Zenon, <1>6, <2>1, <2>2 DEF Commit, Typed, TypeOK
  <2>4. PendingOK'
    <3> SUFFICES ASSUME NEW d \in Clients
                 PROVE  PendingOK!(d)'
      BY Zenon DEF PendingOK
    <3>1. CASE d = c
      <4>1. pc'[c] = "syncCatalog"
        BY Zenon, <2>1 DEF Typed, TypeOK
      <4> QED BY Zenon, <1>6, <2>1, <3>1, <4>1 DEF Commit, Busy
    <3>2. CASE d # c
      <4>1. pc'[d] = pc[d]
        BY Zenon, <2>1, <3>2 DEF Typed, TypeOK
      <4>2. pc[d] \notin {"make", "sync", "commit", "syncCatalog", "resync"}
        BY Zenon, <2>1, <3>2 DEF Typed, PendingOK
      <4> QED BY Zenon, <4>1, <4>2 DEF Busy
    <3> QED BY <3>1, <3>2, Zenon
  <2> QED BY <2>3, <2>4 DEF Typed
<1>7. CASE SyncCatalog(c)
  <2>1. handed' \in [Keys -> Secrets \cup {NONE}]
    <3>1. CASE purpose[c] \in Keys
      <4>1. catalog.profiles[purpose[c]] \in Profile
        BY <1>0, <1>7, <3>1, CatalogFields, Zenon DEF SyncCatalog, Typed, PendingOK
      <4> QED BY Zenon, <1>7, <3>1, <4>1, ProfileFields DEF SyncCatalog, Hand, Typed, TypeOK
    <3>2. CASE purpose[c] \notin Keys
      BY Zenon, <1>7, <3>2 DEF SyncCatalog, Typed, TypeOK
    <3> QED BY Zenon, <3>1, <3>2
  <2>2. acked' \in 0..MaxSequence
    BY Zenon, <1>0, <1>7, CatalogFields DEF SyncCatalog
  <2> QED BY Zenon, <1>0, <1>7, <2>1, <2>2, ReturnTyped DEF SyncCatalog, Typed, TypeOK
<1>8. CASE SyncCatalogFails(c)
  BY Zenon, <1>0, <1>8, ReturnTyped DEF SyncCatalogFails, Typed, TypeOK
<1>9. CASE Resync(c)
  <2>1. purpose[c] \in Keys /\ catalog.profiles[purpose[c]] \in Profile
    BY <1>0, <1>9, CatalogFields, Zenon DEF Resync, Typed, PendingOK
  <2>2. handed' \in [Keys -> Secrets \cup {NONE}]
    BY <1>9, <2>1, ProfileFields DEF Resync, Hand, Typed, TypeOK
  <2> QED BY Zenon, <1>0, <1>9, <2>2, ReturnTyped DEF Resync, Typed, TypeOK
<1> QED BY Zenon, <1>1, <1>2, <1>3, <1>4, <1>5, <1>6, <1>7, <1>8, <1>9 DEF Step

\* The store starts with its types and with free locks.
LEMMA InitTyped == Init => Typed
<1> SUFFICES ASSUME Init PROVE Typed
  OBVIOUS
<1>1. catalog \in Catalog
  <2> PICK f \in InitialFormats : catalog = Bare(f)
    BY DEF Init
  <2>1. EmptyProfiles \in [Keys -> Profile \cup {NONE}]
    BY Zenon DEF EmptyProfiles
  <2>2. f \in Formats /\ 0 \in 0..MaxSequence
    BY SMTT(60), StoreConstants DEF Formats
  <2> QED BY Zenon, <2>1, <2>2 DEF Bare, Catalog
<1>2. TypeOK
  BY <1>1, StoreConstants DEF Init, TypeOK
<1>3. PendingOK
  BY DEF Init, PendingOK, Busy
<1> QED BY <1>2, <1>3 DEF Typed

\* The store's state is always well formed, and the state lock protects what a
\* client has prepared: at most one client is between deciding a catalog and
\* reporting its commit.
THEOREM TypeCorrect == Spec => []Typed
<1>1. Typed /\ [Next]_vars => Typed'
  <2> SUFFICES ASSUME Typed, [Next]_vars PROVE Typed'
    BY Zenon
  <2>1. CASE UNCHANGED vars
    BY Zenon, <2>1 DEF vars, Typed, TypeOK, PendingOK, Busy
  <2>2. CASE Next
    BY <2>2, OperationTyped, StepTyped, FailureTyped DEF Next
  <2> QED BY Zenon, <2>1, <2>2
<1> QED BY <1>1, InitTyped, PTL DEF Spec

\* The plain reading of the theorem above: every variable keeps its type.
COROLLARY TypesHold == Spec => []TypeOK
<1>1. Typed => TypeOK
  BY DEF Typed
<1> QED BY <1>1, TypeCorrect, PTL

-----------------------------------------------------------------------------
(* The store implements the register.                                      *)

\* Every step of the store reads or writes one register, or leaves it.
LEMMA RegisterStep ==
    ASSUME Typed, [Next]_vars
    PROVE  [Register!RegisterNext]_(Register!registerVars)
<1> USE DEF Register!registerVars
<1>1. CASE UNCHANGED <<catalog, disk, view>>
  BY Zenon, <1>1
<1>2. ASSUME NEW c \in Clients, Operation(c)
      PROVE  UNCHANGED <<catalog, disk, view>> \/ Register!Read(c)
  <2>1. CASE Load(c)
    BY Zenon, <2>1 DEF Load, Register!Read
  <2>2. CASE BeginBootstrap(c)
    BY <2>2 DEF BeginBootstrap
  <2>3. CASE \E k \in Keys, b \in Bundles, activate \in BOOLEAN : Publish(c, k, b, activate)
    BY <2>3 DEF Publish, Enter
  <2>4. CASE \E k \in Keys \cup {NONE} : Activate(c, k)
    BY <2>4 DEF Activate, Enter
  <2>5. CASE \/ \E k \in Keys : Delete(c, k)
             \/ \E k, new \in Keys : Rename(c, k, new)
    BY <2>5, Zenon DEF Delete, Rename, Enter
  <2>6. CASE \/ \E k \in Keys, choice \in Selection : SelectProxy(c, k, choice)
             \/ \E k \in Keys : PrepareSelections(c, k)
    BY <2>6, Zenon DEF SelectProxy, PrepareSelections, Select, Enter
  <2>7. CASE \E k \in Keys, fresh \in Secrets : EnsureSecret(c, k, fresh)
    BY <2>7 DEF EnsureSecret, Enter
  <2> QED BY Zenon, <1>2, <2>1, <2>2, <2>3, <2>4, <2>5, <2>6, <2>7 DEF Operation
<1>3. ASSUME NEW c \in Clients, Step(c)
      PROVE  \/ UNCHANGED <<catalog, disk, view>>
             \/ Register!Read(c) \/ Register!Swap(c) \/ Register!Flush(c)
  <2>1. CASE Commit(c)
    <3>1. Register!Swap(c)
      BY Zenon, <2>1 DEF Commit, Register!Swap, Typed, PendingOK, Busy
    <3> QED BY Zenon, <3>1
  <2>2. CASE SyncCatalog(c) \/ Resync(c)
    <3>1. Register!Flush(c)
      BY Zenon, <2>2 DEF SyncCatalog, Resync, Register!Flush
    <3> QED BY Zenon, <3>1
  <2>3. CASE SyncCatalogFails(c)
    <3>1. view' = view \/ view' = [view EXCEPT ![c] = catalog]
      BY <2>3, Zenon DEF SyncCatalogFails, Typed, TypeOK
    <3> QED BY <2>3, <3>1 DEF SyncCatalogFails, Register!Read
  <2>4. CASE Takeover(c)
    BY <2>4 DEF Takeover, Enter, Register!Read
  <2>5. CASE \/ BeginTakeover(c) \/ Make(c) \/ Sync(c) \/ SyncFails(c)
             \/ ResyncFails(c) \/ Abandon(c)
    BY <2>5, Zenon DEF BeginTakeover, Make, Sync, SyncFails, ResyncFails, Abandon
  <2> QED BY <1>3, <2>1, <2>2, <2>3, <2>4, <2>5 DEF Step
<1>4. ASSUME NEW c \in Clients, Kill(c) PROVE Register!Forget(c)
  BY <1>4, Zenon DEF Kill, Register!Forget
<1>5. ASSUME PowerLoss PROVE Register!Crash
  BY <1>5 DEF PowerLoss, Register!Crash
<1>6. CASE UNCHANGED vars
  BY Zenon, <1>6 DEF vars
<1>7. CASE Next
  BY Zenon, <1>2, <1>3, <1>4, <1>5, <1>7 DEF Next, Register!RegisterNext
<1> QED BY <1>6, <1>7

\* Every behaviour of the store is a behaviour of the compare-and-swap
\* register: a commit replaces exactly the catalog its client loaded, whatever
\* the interleaving, and only a power loss takes a commit back.
THEOREM StoreImplementsRegister == Spec => ImplementsRegister
<1>1. Init => Register!RegisterInit
  BY DEF Init, Register!RegisterInit
<1>2. Typed /\ [Next]_vars => [Register!RegisterNext]_(Register!registerVars)
  BY Zenon, RegisterStep
<1> QED BY <1>1, <1>2, TypeCorrect, PTL DEF Spec, ImplementsRegister, Register!RegisterSpec
-----------------------------------------------------------------------------
DiskSafe ==
    /\ catalog \in disk
    /\ \A cat \in disk : cat.sequence >= acked
    /\ \A cat \in disk : Sound(cat)
    /\ ReturnedSecretsSurvive

NextSafe ==
    \A c \in Clients : Busy(c) => Sound(next[c]) /\ Evolves(catalog, next[c])

Safe == Typed /\ DiskSafe /\ NextSafe

-----------------------------------------------------------------------------

\* Entering with a sound catalog that evolves the visible one.
LEMMA EnterSafe ==
    ASSUME Safe, NEW c \in Clients, NEW n \in Catalog, NEW revs, NEW why,
           Enter(c, n, revs, why), stateLock = NONE,
           ActiveRunnable(n), \A k \in Present(n) : n.profiles[k].head[1] = k,
           Evolves(catalog, n)
    PROVE  DiskSafe' /\ NextSafe'
<1> DEFINE m == [n EXCEPT !.format = "v2", !.sequence = catalog.sequence + 1]
<1>1. m.profiles = n.profiles /\ m.active = n.active /\ m.format = "v2"
  BY Zenon DEF Catalog
<1> HIDE DEF m
<1>2. next' = [next EXCEPT ![c] = m]
      /\ UNCHANGED <<catalog, disk, handed, acked>>
  BY Zenon DEF Enter, m
<1>3. Sound(m) /\ Evolves(catalog, m)
  BY ZenonT(40), <1>1 DEF Sound, Evolves, ActiveRunnable, Present
<1>4. DiskSafe'
  BY <1>2 DEF Safe, DiskSafe, ReturnedSecretsSurvive
<1>5. NextSafe'
  <2> SUFFICES ASSUME NEW d \in Clients, Busy(d)'
               PROVE  Sound(next'[d]) /\ Evolves(catalog', next'[d])
    BY Zenon DEF NextSafe, Sound, Evolves, ActiveRunnable, Present
  <2>1. CASE d = c
    BY Zenon, <1>2, <1>3, <2>1 DEF Safe, Typed, TypeOK
  <2>2. CASE d # c
    <3>1. ~Busy(d)
      BY Zenon, NoneIsNoValue DEF Safe, Typed, PendingOK, Busy
    <3>2. pc'[d] = pc[d]
      BY Zenon, <2>2 DEF Enter, Safe, Typed, TypeOK
    <3> QED BY Zenon, <3>1, <3>2 DEF Busy
  <2> QED BY ZenonT(40), <2>1, <2>2
<1> QED BY <1>4, <1>5

\* A step that commits nothing.
LEMMA KeepSafe ==
    ASSUME Safe, UNCHANGED <<catalog, disk, handed, acked>>,
           \A d \in Clients : Busy(d)' => Busy(d) /\ next'[d] = next[d]
    PROVE  DiskSafe' /\ NextSafe'
<1>1. DiskSafe'
  BY ZenonT(40) DEF Safe, DiskSafe, ReturnedSecretsSurvive
<1>2. NextSafe'
  <2> SUFFICES ASSUME NEW d \in Clients, Busy(d)'
               PROVE  Sound(next'[d]) /\ Evolves(catalog', next'[d])
    BY DEF NextSafe, Sound, Evolves, ActiveRunnable, Present
  <2> QED BY ZenonT(40) DEF Safe, NextSafe
<1> QED BY Zenon, <1>1, <1>2

\* A client that returns leaves the transactions of the others alone.
LEMMA ReturnKeepsBusy ==
    ASSUME Typed, NEW c \in Clients, Return(c)
    PROVE  \A d \in Clients : Busy(d)' => Busy(d) /\ next'[d] = next[d]
BY Zenon DEF Return, Busy, Typed, TypeOK

\* A generation that is counted up is greater.
LEMMA NextIsGreater == \A g \in Nat : g + 1 > g /\ g + 1 >= g
OBVIOUS

\* A sequence that is counted up stays above what was acknowledged.
LEMMA NextStaysAbove == \A s, a \in Nat : s >= a => s + 1 >= a
OBVIOUS

\* A catalog in which every profile is as it was, or gone, evolves the old one.
LEMMA KeptEvolves ==
    ASSUME NEW cat \in Catalog, NEW n,
           \A j \in Keys : n.profiles[j] \in {cat.profiles[j], NONE}
    PROVE  Evolves(cat, n)
<1> SUFFICES ASSUME NEW j \in Keys, cat.profiles[j] # NONE, n.profiles[j] # NONE
             PROVE  /\ n.profiles[j] = cat.profiles[j]
                    /\ cat.profiles[j].generation >= cat.profiles[j].generation
  BY Zenon DEF Evolves
<1>1. cat.profiles[j].generation \in Nat
  BY Zenon, GenerationsAreNumbers
<1>2. cat.profiles[j].generation >= cat.profiles[j].generation
  BY <1>1
<1> QED BY Zenon, <1>2

\* What every operation prepares is a sound successor of what it loaded.
LEMMA OperationSafe ==
    ASSUME Safe, NEW c \in Clients, Operation(c)
    PROVE  DiskSafe' /\ NextSafe'
<1> USE DEF Expected
<1>0. catalog \in Catalog /\ Sound(catalog)
  BY DEF Safe, DiskSafe, Typed, TypeOK
<1>1. CASE Load(c) \/ BeginBootstrap(c)
  <2>1. \A d \in Clients : Busy(d)' => Busy(d) /\ next'[d] = next[d]
    BY <1>1 DEF Load, BeginBootstrap, Busy, Safe, Typed, TypeOK
  <2> QED BY <1>1, <2>1, KeepSafe, Zenon DEF Load, BeginBootstrap
<1>2. ASSUME NEW k \in Keys, NEW b \in Bundles, NEW activate \in BOOLEAN,
             Publish(c, k, b, activate)
      PROVE  DiskSafe' /\ NextSafe'
  <2>1. Published(catalog, k, b, activate) \in Catalog
    BY Zenon, <1>0, <1>2, PublishedType DEF Publish
  <2>2. /\ ActiveRunnable(Published(catalog, k, b, activate))
        /\ \A j \in Present(Published(catalog, k, b, activate)) :
              Published(catalog, k, b, activate).profiles[j].head[1] = j
        /\ Evolves(catalog, Published(catalog, k, b, activate))
    BY <1>0, <1>2, PublishedSafe, ZenonT(40) DEF Publish
  <2>3. /\ Enter(c, Published(catalog, k, b, activate), {<<k, b>>}, "receipt")
        /\ stateLock = NONE
    BY Zenon, <1>2 DEF Publish
  <2> QED BY <2>1, <2>2, <2>3, EnterSafe, ZenonT(40)
<1>3. ASSUME NEW k \in Keys \cup {NONE}, Activate(c, k)
      PROVE  DiskSafe' /\ NextSafe'
  <2>0. Evolves(catalog, catalog)
    BY <1>0, GenerationsAreNumbers DEF Evolves
  <2>1. CASE k = NONE
    <3> DEFINE n == [catalog EXCEPT !.active = NONE]
    <3>1. n \in Catalog /\ n.active = NONE /\ n.profiles = catalog.profiles
      BY Zenon, <1>0 DEF Catalog
    <3>2. Enter(c, n, {}, "receipt") /\ stateLock = NONE
      BY Zenon, <1>3, <2>1, NoneIsNoValue DEF Activate, Present
    <3> HIDE DEF n
    <3>3. ActiveRunnable(n)
      BY Zenon, <3>1 DEF ActiveRunnable
    <3>4. \A j \in Present(n) : n.profiles[j].head[1] = j
      BY Zenon, <1>0, <3>1 DEF Sound, Present
    <3>5. Evolves(catalog, n)
      BY Zenon, <2>0, <3>1 DEF Evolves
    <3> QED BY <3>1, <3>2, <3>3, <3>4, <3>5, EnterSafe, Zenon
  <2>2. CASE k \in Present(catalog)
    <3> DEFINE n == [catalog EXCEPT !.active = Identity(k, catalog.profiles[k].head)]
    <3>1. k \in Keys /\ k # NONE /\ catalog.profiles[k] \in Profile
      BY ZenonT(40), <1>0, <2>2, CatalogFields, NoneIsNoValue DEF Present
    <3>2. Identity(k, catalog.profiles[k].head) \in ActiveIdentity
      BY Zenon, <3>1, ProfileFields DEF Identity, ActiveIdentity
    <3>3. n \in Catalog /\ n.active = Identity(k, catalog.profiles[k].head)
          /\ n.profiles = catalog.profiles
      BY <1>0, <3>2 DEF Catalog
    <3>4. Enter(c, n, {}, "receipt") /\ stateLock = NONE
          /\ catalog.profiles[k].head[2] \in RuntimeReady
      BY ZenonT(40), <1>3, <3>1 DEF Activate
    <3> HIDE DEF n
    <3>5. ActiveRunnable(n)
      BY <1>0, <2>2, <3>3, <3>4 DEF ActiveRunnable, Sound, Present, Identity
    <3>6. \A j \in Present(n) : n.profiles[j].head[1] = j
      BY Zenon, <1>0, <3>3 DEF Sound, Present
    <3>7. Evolves(catalog, n)
      BY Zenon, <2>0, <3>3 DEF Evolves
    <3> QED BY Zenon, <3>3, <3>4, <3>5, <3>6, <3>7, EnterSafe
  <2> QED BY ZenonT(40), <1>3, <2>1, <2>2 DEF Activate
<1>4. ASSUME NEW k \in Keys, Delete(c, k)
      PROVE  DiskSafe' /\ NextSafe'
  <2> DEFINE n == [catalog EXCEPT !.profiles[k] = NONE,
                                  !.active = IF IsActive(catalog, k) THEN NONE
                                             ELSE catalog.active]
  <2>1. /\ n.profiles = [catalog.profiles EXCEPT ![k] = NONE]
        /\ n.active = IF IsActive(catalog, k) THEN NONE ELSE catalog.active
    BY <1>0 DEF Catalog
  <2>2. n \in Catalog
    <3>1. [catalog.profiles EXCEPT ![k] = NONE] \in [Keys -> Profile \cup {NONE}]
      BY <1>0, CatalogFields
    <3> QED BY <1>0, <3>1, CatalogFields, Zenon DEF Catalog
  <2>3. Enter(c, n, {}, "receipt") /\ stateLock = NONE
    BY Zenon, <1>4 DEF Delete
  <2> HIDE DEF n
  <2>4. n.profiles[k] = NONE /\ \A j \in Keys \ {k} : n.profiles[j] = catalog.profiles[j]
    BY Zenon, <1>0, <2>1, CatalogFields
  <2>5. ActiveRunnable(n)
    BY ZenonT(40), <1>0, <2>1, <2>4 DEF ActiveRunnable, Sound, Present, IsActive
  <2>6. \A j \in Present(n) : n.profiles[j].head[1] = j
    BY Zenon, <1>0, <2>4 DEF Sound, Present
  <2>7. Evolves(catalog, n)
    <3>1. \A j \in Keys : n.profiles[j] \in {catalog.profiles[j], NONE}
      BY Zenon, <2>4
    <3> QED BY Zenon, <1>0, <3>1, KeptEvolves
  <2> QED BY Zenon, <2>2, <2>3, <2>5, <2>6, <2>7, EnterSafe
<1>5. ASSUME NEW k \in Keys, NEW new \in Keys, Rename(c, k, new)
      PROVE  DiskSafe' /\ NextSafe'
  <2>1. k \in Present(catalog) /\ new \notin Present(catalog) /\ stateLock = NONE
        /\ Enter(c, Renamed(catalog, k, new), {<<new, catalog.profiles[k].head[2]>>}, "receipt")
    BY Zenon, <1>5 DEF Rename
  <2>2. Renamed(catalog, k, new) \in Catalog
    BY <1>0, <2>1, RenamedType, Zenon
  <2> QED BY Zenon, <1>0, <2>1, <2>2, RenamedSafe, EnterSafe
<1>6. ASSUME NEW k \in Keys, NEW selections \in SUBSET Selection, Select(c, k, selections)
      PROVE  DiskSafe' /\ NextSafe'
  <2> DEFINE p == [catalog.profiles[k] EXCEPT !.selections = selections,
                                              !.generation = @ + 1]
             n == WithProfile(catalog, k, p)
  <2>1. catalog.profiles[k] \in Profile /\ k \in Present(catalog)
    BY Zenon, <1>0, <1>6, CatalogFields DEF Select, Present
  <2>2. /\ catalog.profiles[k].generation + 1 \in 0..MaxGeneration
        /\ catalog.profiles[k].generation \in Nat
    BY <1>6, <2>1, ProfileFields, StoreConstants DEF Select, CheckedSum
  <2>3. /\ p \in Profile /\ p.head = catalog.profiles[k].head
        /\ p.generation = catalog.profiles[k].generation + 1
        /\ p.secret = catalog.profiles[k].secret
    BY <2>1, <2>2, Zenon DEF Profile
  <2>5. Enter(c, n, {}, "receipt") /\ stateLock = NONE
    BY Zenon, <1>6 DEF Select
  <2> HIDE DEF p
  <2>6. n \in Catalog /\ n.active = catalog.active
        /\ n.profiles = [catalog.profiles EXCEPT ![k] = p]
    BY ZenonT(40), <1>0, <2>3, WithProfileType
  <2> HIDE DEF n
  <2>7. p.generation > catalog.profiles[k].generation
        /\ p.generation >= catalog.profiles[k].generation
    BY Zenon, <2>2, <2>3, NextIsGreater
  <2> QED BY SMTT(60), <1>0, <2>1, <2>3, <2>5, <2>6, <2>7, ProfileChangeSafe, EnterSafe
<1>7. ASSUME NEW k \in Keys, NEW choice \in Selection, SelectProxy(c, k, choice)
      PROVE  DiskSafe' /\ NextSafe'
  <2>1. k \in Present(catalog) /\ catalog.profiles[k] \in Profile
    BY Zenon, <1>0, <1>7, CatalogFields DEF SelectProxy, Present
  <2>2. {s \in Reconciled(catalog, k) : s[1] # choice[1]} \cup {choice} \in SUBSET Selection
    BY Zenon, <2>1, ProfileFields DEF Reconciled
  <2> QED BY Zenon, <1>6, <1>7, <2>2 DEF SelectProxy
<1>8. ASSUME NEW k \in Keys, PrepareSelections(c, k)
      PROVE  DiskSafe' /\ NextSafe'
  <2>1. k \in Present(catalog) /\ catalog.profiles[k] \in Profile
    BY Zenon, <1>0, <1>8, CatalogFields DEF PrepareSelections, Present
  <2>2. Reconciled(catalog, k) \in SUBSET Selection
    BY Zenon, <2>1, ProfileFields DEF Reconciled
  <2> QED BY Zenon, <1>6, <1>8, <2>2 DEF PrepareSelections
<1>9. ASSUME NEW k \in Keys, NEW fresh \in Secrets, EnsureSecret(c, k, fresh)
      PROVE  DiskSafe' /\ NextSafe'
  <2>0. catalog.profiles[k] \in Profile /\ k \in Present(catalog)
    BY ZenonT(40), <1>0, <1>9, CatalogFields DEF EnsureSecret, Present
  <2>1. CASE catalog.profiles[k].secret = NONE
    <3> DEFINE p == [catalog.profiles[k] EXCEPT !.secret = fresh]
               n == WithProfile(catalog, k, p)
    <3>1. /\ p \in Profile /\ p.head = catalog.profiles[k].head
          /\ p.generation = catalog.profiles[k].generation
          /\ p.selections = catalog.profiles[k].selections
      BY <2>0 DEF Profile
    <3>3. Enter(c, n, {}, k) /\ stateLock = NONE
      BY Zenon, <1>9, <2>1 DEF EnsureSecret
    <3> HIDE DEF p
    <3>4. n \in Catalog /\ n.active = catalog.active
          /\ n.profiles = [catalog.profiles EXCEPT ![k] = p]
      BY ZenonT(40), <1>0, <3>1, WithProfileType
    <3> HIDE DEF n
    <3>5. p.generation >= catalog.profiles[k].generation
      BY <2>0, <3>1, ProfileFields, StoreConstants
    <3> QED BY SMTT(60), <1>0, <2>0, <2>1, <3>1, <3>3, <3>4, <3>5, ProfileChangeSafe, EnterSafe
  <2>2. CASE catalog.profiles[k].secret # NONE
    <3>1. \A d \in Clients : Busy(d)' => Busy(d) /\ next'[d] = next[d]
      BY ZenonT(40), <1>9, <2>2 DEF EnsureSecret, Busy, Safe, Typed, TypeOK
    <3> QED BY Zenon, <1>9, <2>2, <3>1, KeepSafe DEF EnsureSecret
  <2> QED BY Zenon, <2>1, <2>2
<1> QED BY Zenon, <1>1, <1>2, <1>3, <1>4, <1>5, <1>7, <1>8, <1>9 DEF Operation
-----------------------------------------------------------------------------
\* The takeover of the legacy layout is a sound successor of the legacy catalog.
LEMMA ConvertedSafe ==
    ASSUME NEW cat \in Catalog, cat.format = "legacy", Sound(cat)
    PROVE  /\ ActiveRunnable(Converted(cat))
           /\ \A j \in Present(Converted(cat)) : Converted(cat).profiles[j].head[1] = j
           /\ Evolves(cat, Converted(cat))
<1> DEFINE n == Converted(cat)
<1>1. /\ n.profiles = [k \in Keys |-> IF k \in LegacyKeys THEN LegacyProfile(k) ELSE NONE]
      /\ n.active = IF LegacyActive \in LegacyKeys
                       /\ LegacyBundle[LegacyActive] \in RuntimeReady
                    THEN Identity(LegacyActive, <<LegacyActive, LegacyBundle[LegacyActive]>>)
                    ELSE NONE
  BY Zenon DEF Converted, Catalog
<1>2. \A k \in LegacyKeys : LegacyProfile(k) # NONE /\ LegacyProfile(k).head = <<k, LegacyBundle[k]>>
  <2> SUFFICES ASSUME NEW k \in LegacyKeys
               PROVE  LegacyProfile(k) # NONE /\ LegacyProfile(k).head = <<k, LegacyBundle[k]>>
    BY Zenon
  <2>1. LegacyProfile(k) \in Profile
    BY SMTT(60), StoreConstants DEF LegacyKeys, LegacyProfile, Profile, Revision
  <2> QED BY Zenon, <2>1, NoneIsNoValue DEF LegacyProfile
<1> HIDE DEF n
<1>3. ActiveRunnable(n)
  BY <1>1, <1>2 DEF ActiveRunnable, Present, Identity, LegacyKeys
<1>4. \A j \in Present(n) : n.profiles[j].head[1] = j
  BY <1>1, <1>2 DEF Present
<1>5. Evolves(cat, n)
  BY Zenon DEF Evolves, Sound, EmptyProfiles
<1> QED BY <1>3, <1>4, <1>5 DEF n

\* Every step of a transaction keeps the disk and what is prepared sound.
LEMMA StepSafe ==
    ASSUME Safe, NEW c \in Clients, Step(c)
    PROVE  DiskSafe' /\ NextSafe'
<1>0. /\ catalog \in Catalog /\ Sound(catalog) /\ catalog \in disk
      /\ Typed /\ DiskSafe /\ NextSafe
  BY ZenonT(40) DEF Safe, DiskSafe, Typed, TypeOK
<1>1. CASE BeginTakeover(c) \/ Make(c) \/ Sync(c)
  <2>1. \A d \in Clients : Busy(d)' => Busy(d) /\ next'[d] = next[d]
    BY Zenon, <1>0, <1>1 DEF BeginTakeover, Make, Sync, Advance, Busy, Typed, TypeOK
  <2> QED BY <1>1, <2>1, KeepSafe DEF BeginTakeover, Make, Sync
<1>2. CASE Takeover(c)
  <2>1. CASE catalog.format = "v2"
    BY ZenonT(40), <1>0, <1>2, <2>1, ReturnKeepsBusy, KeepSafe DEF Takeover
  <2>2. CASE catalog.format = "legacy"
    BY Zenon, <1>0, <1>2, <2>2, ConvertedType, ConvertedSafe, EnterSafe DEF Takeover
  <2> QED BY ZenonT(40), <1>2, <2>1, <2>2 DEF Takeover
<1>3. CASE SyncFails(c) \/ SyncCatalogFails(c) \/ ResyncFails(c) \/ Abandon(c)
  BY Zenon, <1>0, <1>3, ReturnKeepsBusy, KeepSafe
     DEF SyncFails, SyncCatalogFails, ResyncFails, Abandon
<1>4. CASE Commit(c)
  <2> DEFINE n == next[c]
  <2>1. /\ n \in Catalog /\ n.sequence = catalog.sequence + 1
        /\ Sound(n) /\ Evolves(catalog, n) /\ stateLock = c
    BY Zenon, <1>0, <1>4 DEF Commit, Typed, PendingOK, NextSafe, Busy
  <2>2. /\ catalog' = n /\ disk' = disk \cup {n} /\ handed' = StillHanded(n)
        /\ acked' = acked /\ pc' = [pc EXCEPT ![c] = "syncCatalog"]
    BY Zenon, <1>4 DEF Commit
  <2> HIDE DEF n
  <2>3. n.sequence >= acked
    <3>1. catalog.sequence \in 0..MaxSequence /\ acked \in 0..MaxSequence
      BY Zenon, <1>0, CatalogFields DEF Typed, TypeOK
    <3>2. catalog.sequence \in Nat /\ acked \in Nat
      BY <3>1, StoreConstants
    <3>3. catalog.sequence >= acked
      BY Zenon, <1>0 DEF DiskSafe
    <3> QED BY Zenon, <2>1, <3>2, <3>3, NextStaysAbove
  <2>4. ReturnedSecretsSurvive'
    <3> SUFFICES ASSUME NEW k \in Keys, handed'[k] # NONE, NEW cat \in disk'
                 PROVE  cat.profiles[k] # NONE /\ cat.profiles[k].secret = handed'[k]
      BY Zenon DEF ReturnedSecretsSurvive
    <3>1. n.profiles[k] # NONE /\ handed'[k] = handed[k]
      BY Zenon, <2>2 DEF StillHanded
    <3>2. \A old \in disk : old.profiles[k] # NONE /\ old.profiles[k].secret = handed[k]
      BY Zenon, <1>0, <3>1 DEF DiskSafe, ReturnedSecretsSurvive
    <3>3. n.profiles[k].secret = catalog.profiles[k].secret
      BY Zenon, <1>0, <2>1, <3>1, <3>2 DEF Evolves
    <3> QED BY Zenon, <1>0, <2>2, <3>1, <3>2, <3>3
  <2>5. DiskSafe'
    BY Zenon, <1>0, <2>1, <2>2, <2>3, <2>4 DEF DiskSafe
  <2>6. NextSafe'
    <3> SUFFICES ASSUME NEW d \in Clients, Busy(d)' PROVE FALSE
      BY DEF NextSafe
    <3>1. d # c /\ pc'[d] = pc[d]
      BY Zenon, <1>0, <2>2 DEF Busy, Typed, TypeOK
    <3> QED BY Zenon, <1>0, <2>1, <3>1 DEF Busy, Typed, PendingOK
  <2> QED BY ZenonT(40), <2>5, <2>6
<1>5. CASE SyncCatalog(c) \/ Resync(c)
  <2>1. /\ catalog' = catalog /\ disk' = {catalog} /\ Return(c)
        /\ acked' \in {acked, catalog.sequence}
    BY Zenon, <1>5 DEF SyncCatalog, Resync
  <2>2. ReturnedSecretsSurvive'
    <3> SUFFICES ASSUME NEW k \in Keys, handed'[k] # NONE
                 PROVE  catalog.profiles[k] # NONE /\ catalog.profiles[k].secret = handed'[k]
      BY Zenon, <2>1 DEF ReturnedSecretsSurvive
    <3>1. CASE handed'[k] = handed[k]
      BY Zenon, <1>0, <3>1 DEF DiskSafe, ReturnedSecretsSurvive
    <3>2. CASE handed'[k] # handed[k]
      <4>1. purpose[c] = k /\ handed' = Hand(k)
        BY Zenon, <1>0, <1>5, <3>2 DEF SyncCatalog, Resync, Hand, Typed, TypeOK, PendingOK
      <4>2. catalog.profiles[k] # NONE
        BY <1>0, <1>5, <4>1, Zenon DEF SyncCatalog, Resync, Typed, PendingOK
      <4> QED BY ZenonT(40), <1>0, <4>1, <4>2 DEF Hand, Typed, TypeOK
    <3> QED BY Zenon, <3>1, <3>2
  <2>3. catalog.sequence >= acked'
    <3>1. catalog.sequence \in 0..MaxSequence /\ catalog.sequence >= acked
      BY Zenon, <1>0, CatalogFields DEF DiskSafe
    <3>2. catalog.sequence >= catalog.sequence
      BY <3>1, StoreConstants
    <3> QED BY Zenon, <2>1, <3>1, <3>2
  <2>4. DiskSafe'
    BY Zenon, <1>0, <2>1, <2>2, <2>3 DEF DiskSafe
  <2>5. NextSafe'
    BY <1>0, <2>1, ReturnKeepsBusy DEF NextSafe
  <2> QED BY <2>4, <2>5
<1> QED BY <1>1, <1>2, <1>3, <1>4, <1>5 DEF Step

\* A killed client and a power loss keep the disk and what is prepared sound.
LEMMA FailureSafe ==
    ASSUME Safe
    PROVE  /\ \A c \in Clients : Kill(c) => DiskSafe' /\ NextSafe'
           /\ PowerLoss => DiskSafe' /\ NextSafe'
<1>1. ASSUME NEW c \in Clients, Kill(c) PROVE DiskSafe' /\ NextSafe'
  BY Zenon, <1>1, ReturnKeepsBusy, KeepSafe DEF Kill, Safe
<1>2. ASSUME PowerLoss PROVE DiskSafe' /\ NextSafe'
  <2>1. NextSafe'
    BY Zenon, <1>2 DEF PowerLoss, NextSafe, Busy
  <2>2. ReturnedSecretsSurvive'
    BY Zenon, <1>2 DEF PowerLoss, StillHanded, Safe, DiskSafe, ReturnedSecretsSurvive
  <2>3. DiskSafe'
    BY Zenon, <1>2, <2>2 DEF PowerLoss, Safe, DiskSafe
  <2> QED BY Zenon, <2>1, <2>3
<1> QED BY Zenon, <1>1, <1>2

\* The disk and what the clients have prepared are sound in every behaviour.
LEMMA SafeInvariant == Spec => []Safe
<1>1. Init => Safe
  <2> SUFFICES ASSUME Init PROVE Safe
    OBVIOUS
  <2>1. Typed
    BY Zenon, InitTyped
  <2>2. Sound(catalog)
    BY DEF Init, Bare, EmptyProfiles, Sound, ActiveRunnable, Present
  <2>3. DiskSafe
    BY <2>2 DEF Init, DiskSafe, ReturnedSecretsSurvive, Bare
  <2>4. NextSafe
    BY Zenon DEF Init, NextSafe, Busy
  <2> QED BY Zenon, <2>1, <2>3, <2>4 DEF Safe
<1>2. Safe /\ Typed' /\ [Next]_vars => Safe'
  <2> SUFFICES ASSUME Safe, Typed', [Next]_vars PROVE DiskSafe' /\ NextSafe'
    BY Zenon DEF Safe
  <2>1. CASE UNCHANGED vars
    BY Zenon, <2>1, KeepSafe DEF vars, Busy
  <2>2. CASE Next
    BY Zenon, <2>2, OperationSafe, StepSafe, FailureSafe DEF Next
  <2> QED BY Zenon, <2>1, <2>2
<1> QED BY <1>1, <1>2, TypeCorrect, PTL DEF Spec

\* The active identity of every catalog, visible or surviving, is a present
\* profile at its head, and its bundle is ready to run.
THEOREM ActiveHolds == Spec => []ActiveIsRunnableHead
<1>1. Safe => ActiveIsRunnableHead
  BY Zenon DEF Safe, DiskSafe, Sound, ActiveIsRunnableHead
<1> QED BY <1>1, SafeInvariant, PTL

\* A commit reported durable is never rolled back by a power loss.
THEOREM AcknowledgedHolds == Spec => []AcknowledgedCommitsSurvive
<1>1. Safe => AcknowledgedCommitsSurvive
  BY Zenon DEF Safe, DiskSafe, AcknowledgedCommitsSurvive
<1> QED BY <1>1, SafeInvariant, PTL

\* A controller secret given to a caller is in every surviving catalog.
THEOREM SecretsHold == Spec => []ReturnedSecretsSurvive
<1>1. Safe => ReturnedSecretsSurvive
  BY Zenon DEF Safe, DiskSafe
<1> QED BY <1>1, SafeInvariant, PTL

\* A commit replaces the catalog by a sound successor of the one on disk.
LEMMA CommitEvolves ==
    ASSUME Safe, [Next]_vars, Committing
    PROVE  Evolves(catalog, catalog')
<1> PICK c \in Clients : pc[c] = "commit" /\ pc'[c] = "syncCatalog"
  BY DEF Committing
<1>1. CASE UNCHANGED vars
  BY Zenon, <1>1 DEF vars
<1>2. CASE PowerLoss
  BY Zenon, <1>2 DEF PowerLoss
<1>3. ASSUME NEW d \in Clients, Operation(d) \/ Step(d) \/ Kill(d)
      PROVE  catalog' = next[c]
  <2>1. CASE d # c
    <3>1. pc'[c] = pc[c]
      BY <1>3, <2>1, ZenonT(40) DEF Safe, Typed, TypeOK, Operation, Step, Kill, Load, BeginBootstrap,
            Publish, Activate, Delete, Rename, SelectProxy, PrepareSelections, Select,
            EnsureSecret, Enter, BeginTakeover, Takeover, Make, Sync, SyncFails, Advance,
            Commit, SyncCatalog, SyncCatalogFails, Resync, ResyncFails, Abandon, Return
    <3> QED BY Zenon, <3>1
  <2>2. CASE d = c
    <3>1. ~Operation(c)
      BY DEF Operation, Load, BeginBootstrap, Publish, Activate, Delete, Rename,
             SelectProxy, PrepareSelections, Select, EnsureSecret
    <3>2. ~Kill(c)
      BY ZenonT(40) DEF Kill, Return, Safe, Typed, TypeOK
    <3>3. Step(c) => Commit(c)
      BY DEF Step, BeginTakeover, Takeover, Make, Sync, SyncFails, SyncCatalog,
             SyncCatalogFails, Resync, ResyncFails, Abandon
    <3> QED BY <1>3, <2>2, <3>1, <3>2, <3>3, Zenon DEF Commit
  <2> QED BY Zenon, <2>1, <2>2
<1>4. Busy(c)
  BY DEF Busy
<1> QED BY Zenon, <1>1, <1>2, <1>3, <1>4 DEF Next, Safe, NextSafe

\* No commit changes a profile's selections under the same generation, and
\* none lowers a generation.
THEOREM GenerationHolds == Spec => GenerationIdentifiesSelections
<1> DEFINE A == Committing => \A k \in Present(catalog) : catalog'.profiles[k] # NONE =>
                  LET old == catalog.profiles[k]
                      new == catalog'.profiles[k]
                  IN  /\ new.generation >= old.generation
                      /\ new.selections # old.selections => new.generation > old.generation
<1>1. Safe /\ [Next]_vars => [A]_vars
  BY CommitEvolves DEF Evolves, Present
<1> QED BY <1>1, SafeInvariant, PTL DEF Spec, GenerationIdentifiesSelections

\* No commit changes a secret a profile already has.
THEOREM SecretHolds == Spec => SecretNeverRotates
<1> DEFINE A == Committing => \A k \in Present(catalog) :
                  (catalog.profiles[k].secret # NONE /\ catalog'.profiles[k] # NONE)
                     => catalog'.profiles[k].secret = catalog.profiles[k].secret
<1>1. Safe /\ [Next]_vars => [A]_vars
  BY Zenon, CommitEvolves DEF Evolves, Present
<1> QED BY <1>1, SafeInvariant, PTL DEF Spec, SecretNeverRotates
-----------------------------------------------------------------------------
(* The directories and files an operation writes on the way to a head, in   *)
(* the order a power loss respects.  (StoreRetry.cfg shows what a sync that *)
(* fails further up the path does.)                                         *)

\* The entries of the path to e that are made before it.
Before(e) ==
    {KeyEntry(l, e.key) : l \in CASE e.level = "profile" -> {}
                                  [] e.level = "identity" -> {"profile"}
                                  [] e.level = "revisions" -> {"profile", "identity"}
                                  [] OTHER -> {"profile", "identity", "revisions"}}

HeadsInv ==
    /\ HeadsSurvivePowerLoss
    /\ \A e \in entries \ durable :
          e.level = "revision" \/ \E c \in Clients : pc[c] = "sync" /\ at[c] = e
    /\ \A c \in Clients :
          /\ pc[c] = "commit" => todo[c] = {}
          /\ Busy(c) => \A r \in Heads(next[c]) : r \in todo[c] \/ PathTo(r) \subseteq durable
          /\ pc[c] \in {"make", "sync"} => Before(at[c]) \subseteq durable

LevelsSynced == Interruptible \subseteq {"revision", "catalog"}

-----------------------------------------------------------------------------

\* The order in which the path to a revision is made.
LEMMA BeforeOnPath ==
    ASSUME NEW r \in Revision
    PROVE  /\ Before(KeyEntry("profile", r[1])) = {}
           /\ Before(KeyEntry("identity", r[1])) = {KeyEntry("profile", r[1])}
           /\ Before(KeyEntry("revisions", r[1])) =
                 {KeyEntry("profile", r[1]), KeyEntry("identity", r[1])}
           /\ Before(RevisionEntry(r)) \cup {RevisionEntry(r)} = PathTo(r)
BY ZenonT(40) DEF Before, KeyEntry, RevisionEntry, PathTo

\* Entering a transaction schedules the whole path of every new head.
LEMMA EnterHeads ==
    ASSUME Safe, HeadsInv, NEW c \in Clients, NEW n \in Catalog,
           NEW revs \in SUBSET Revision, NEW why,
           Enter(c, n, revs, why), stateLock = NONE,
           Heads(n) \subseteq Heads(catalog) \cup revs
    PROVE  HeadsInv'
<1> DEFINE m == [n EXCEPT !.format = "v2", !.sequence = catalog.sequence + 1]
<1>1. m.profiles = n.profiles
  BY DEF Catalog
<1> HIDE DEF m
<1>2. /\ next' = [next EXCEPT ![c] = m] /\ todo' = [todo EXCEPT ![c] = revs]
      /\ UNCHANGED <<catalog, disk, entries, durable>>
  BY Zenon DEF Enter, m
<1>3. Heads(m) = Heads(n)
  BY Zenon, <1>1 DEF Heads, Present
<1>4. HeadsSurvivePowerLoss'
  BY Zenon, <1>2 DEF HeadsInv, HeadsSurvivePowerLoss
<1>5. \A d \in Clients : pc[d] \notin {"make", "sync", "commit"}
  BY Zenon, NoneIsNoValue DEF Safe, Typed, PendingOK
<1>6. \A e \in entries' \ durable' : e.level = "revision"
  BY Zenon, <1>2, <1>5 DEF HeadsInv
<1>7. ASSUME NEW d \in Clients
      PROVE  /\ pc'[d] = "commit" => todo'[d] = {}
             /\ Busy(d)' => \A r \in Heads(next'[d]) :
                               r \in todo'[d] \/ PathTo(r) \subseteq durable'
             /\ pc'[d] \in {"make", "sync"} => Before(at'[d]) \subseteq durable'
  <2>1. CASE d # c
    BY ZenonT(40), <1>5, <2>1 DEF Enter, Busy, Safe, Typed, TypeOK
  <2>2. CASE d = c
    <3>1. next'[c] = m /\ todo'[c] = revs
      BY ZenonT(40), <1>2 DEF Safe, Typed, TypeOK
    <3>2. \A r \in Heads(catalog) : PathTo(r) \subseteq durable
      BY DEF Safe, DiskSafe, HeadsInv, HeadsSurvivePowerLoss
    <3>3. pc'[c] \in {"make", "sync"} => \E r \in revs : at'[c] = KeyEntry("profile", r[1])
      BY DEF Enter, Safe, Typed, TypeOK
    <3>4. pc'[c] = "commit" => revs = {}
      BY ZenonT(40) DEF Enter, Safe, Typed, TypeOK
    <3> QED BY Zenon, <1>2, <1>3, <2>2, <3>1, <3>2, <3>3, <3>4, BeforeOnPath
  <2> QED BY Zenon, <2>1, <2>2
<1> QED BY <1>4, <1>6, <1>7 DEF HeadsInv

\* A client leaves without having created an entry above the revision.
LEMMA ReturnHeads ==
    ASSUME Safe, HeadsInv, NEW c \in Clients, Return(c), UNCHANGED <<entries, durable>>,
           disk' \subseteq disk, pc[c] = "sync" => at[c].level = "revision"
    PROVE  HeadsInv'
<1>1. \A d \in Clients \ {c} : /\ pc'[d] = pc[d] /\ next'[d] = next[d]
                               /\ todo'[d] = todo[d] /\ at'[d] = at[d]
  BY Zenon DEF Return, Safe, Typed, TypeOK
<1>2. pc'[c] = "idle"
  BY Zenon DEF Return, Safe, Typed, TypeOK
<1>3. HeadsSurvivePowerLoss'
  BY Zenon DEF HeadsInv, HeadsSurvivePowerLoss
<1>4. \A e \in entries' \ durable' :
          e.level = "revision" \/ \E d \in Clients : pc'[d] = "sync" /\ at'[d] = e
  <2> SUFFICES ASSUME NEW e \in entries \ durable, e.level # "revision"
               PROVE  \E d \in Clients : pc'[d] = "sync" /\ at'[d] = e
    BY Zenon
  <2> PICK d \in Clients : pc[d] = "sync" /\ at[d] = e
    BY Zenon DEF HeadsInv
  <2> QED BY Zenon, <1>1
<1>5. ASSUME NEW d \in Clients
      PROVE  /\ pc'[d] = "commit" => todo'[d] = {}
             /\ Busy(d)' => \A r \in Heads(next'[d]) :
                               r \in todo'[d] \/ PathTo(r) \subseteq durable'
             /\ pc'[d] \in {"make", "sync"} => Before(at'[d]) \subseteq durable'
  BY Zenon, <1>1, <1>2 DEF HeadsInv, Busy
<1> QED BY Zenon, <1>3, <1>4, <1>5 DEF HeadsInv

\* A client moves without preparing anything: what is prepared and its order
\* stay as they are.
LEMMA MoveHeads ==
    ASSUME HeadsInv, NEW c \in Clients, HeadsSurvivePowerLoss',
           \A e \in entries' \ durable' :
              e.level = "revision" \/ \E d \in Clients : pc'[d] = "sync" /\ at'[d] = e,
           UNCHANGED <<durable, next, todo, at>>,
           \A d \in Clients : d # c => pc'[d] = pc[d],
           pc'[c] \notin {"make", "sync", "commit"} \/ (pc[c] = "make" /\ pc'[c] = "sync")
    PROVE  HeadsInv'
<1>1. ASSUME NEW d \in Clients
      PROVE  /\ pc'[d] = "commit" => todo'[d] = {}
             /\ Busy(d)' => \A r \in Heads(next'[d]) :
                               r \in todo'[d] \/ PathTo(r) \subseteq durable'
             /\ pc'[d] \in {"make", "sync"} => Before(at'[d]) \subseteq durable'
  <2>1. pc'[d] = "commit" => pc[d] = "commit"
    BY Zenon
  <2>2. Busy(d)' => Busy(d)
    BY Zenon DEF Busy
  <2>3. pc'[d] \in {"make", "sync"} => pc[d] \in {"make", "sync"}
    BY Zenon
  <2> QED BY Zenon, <2>1, <2>2, <2>3 DEF HeadsInv
<1> QED BY Zenon, <1>1 DEF HeadsInv

\* The directories above a revision are named by the profile alone.
LEMMA KeyEntries ==
    ASSUME NEW r \in Revision, NEW e \in PathTo(r), e.level # "revision"
    PROVE  e = KeyEntry(e.level, r[1])
<1>1. RevisionEntry(r).level = "revision"
  BY Zenon DEF RevisionEntry
<1>2. ASSUME NEW l, e = KeyEntry(l, r[1]) PROVE e = KeyEntry(e.level, r[1])
  <2>1. e.level = l
    BY Zenon, <1>2 DEF KeyEntry
  <2> QED BY Zenon, <1>2, <2>1
<1>3. e \in {KeyEntry("profile", r[1]), KeyEntry("identity", r[1]), KeyEntry("revisions", r[1])}
  BY Zenon, <1>1 DEF PathTo
<1>4. CASE e = KeyEntry("profile", r[1])
  BY Zenon, <1>2, <1>4
<1>5. CASE e = KeyEntry("identity", r[1])
  BY Zenon, <1>2, <1>5
<1>6. CASE e = KeyEntry("revisions", r[1])
  BY Zenon, <1>2, <1>6
<1> QED BY Zenon, <1>3, <1>4, <1>5, <1>6

\* Past an entry that is durable, on to the next one.
LEMMA AdvanceHeads ==
    ASSUME Safe, HeadsInv, NEW c \in Clients, pc[c] \in {"make", "sync"}, Advance(c, at[c]),
           entries' = entries, durable \subseteq durable', at[c] \in durable',
           UNCHANGED <<disk, next>>
    PROVE  HeadsInv'
<1> DEFINE e == at[c]
<1>0. PICK r0 \in todo[c] : e \in PathTo(r0)
  BY Zenon DEF Safe, Typed, PendingOK
<1>1. r0 \in Revision /\ todo[c] \subseteq Revision /\ stateLock = c /\ Busy(c)
  BY Zenon DEF Safe, Typed, TypeOK, PendingOK, Busy
<1>2. e.key = r0[1]
  BY Zenon, <1>0, <1>1, PathEntries
<1>3. \A d \in Clients \ {c} : ~Busy(d) /\ pc'[d] = pc[d]
  BY Zenon, <1>1 DEF Safe, Typed, TypeOK, PendingOK, Busy, Advance
<1>4. Before(e) \subseteq durable /\ e \in durable'
  BY Zenon DEF HeadsInv
<1>5. HeadsSurvivePowerLoss'
  BY Zenon DEF HeadsInv, HeadsSurvivePowerLoss
<1>6. \A x \in entries' \ durable' : x.level = "revision"
  <2> SUFFICES ASSUME NEW x \in entries \ durable', x.level # "revision" PROVE FALSE
    BY Zenon
  <2>1. x \in entries \ durable
    BY Zenon
  <2>2. PICK d \in Clients : pc[d] = "sync" /\ at[d] = x
    BY Zenon, <2>1 DEF HeadsInv
  <2>3. d = c
    BY Zenon, <1>3, <2>2 DEF Busy
  <2> QED BY Zenon, <1>4, <2>2, <2>3
<1>7. /\ pc'[c] = "commit" => todo'[c] = {}
      /\ \A r \in Heads(next'[c]) : r \in todo'[c] \/ PathTo(r) \subseteq durable'
      /\ pc'[c] \in {"make", "sync"} => Before(at'[c]) \subseteq durable'
  <2>1. CASE e.level # "revision"
    <3> DEFINE r1 == CHOOSE r \in todo[c] : r[1] = e.key
    <3>1. r1 \in todo[c] /\ r1[1] = e.key /\ r1 \in Revision
      BY Zenon, <1>1, <1>2
    <3>2. /\ todo'[c] = todo[c]
          /\ e.level = "profile" => at'[c] = KeyEntry("identity", e.key)
          /\ e.level = "identity" => at'[c] = KeyEntry("revisions", e.key)
          /\ e.level \notin {"profile", "identity"} => at'[c] = RevisionEntry(r1)
      BY Zenon, <2>1 DEF Advance, Safe, Typed, TypeOK
    <3> HIDE DEF r1
    <3>3. e.level \in {"profile", "identity", "revisions"}
      BY Zenon, <2>1, <1>0, <1>1, PathEntries
    <3>4. e = KeyEntry(e.level, r1[1])
      BY Zenon, <2>1, <1>0, <1>1, <1>2, <3>1, KeyEntries
    <3>5. Before(at'[c]) \subseteq Before(e) \cup {e}
      <4>1. CASE e.level = "profile"
        BY ZenonT(40), <3>1, <3>2, <3>4, <4>1, BeforeOnPath
      <4>2. CASE e.level = "identity"
        <5>1. at'[c] = KeyEntry("revisions", r1[1]) /\ e = KeyEntry("identity", r1[1])
          BY Zenon, <3>1, <3>2, <3>4, <4>2
        <5> QED BY Zenon, <3>1, <5>1, BeforeOnPath
      <4>3. CASE e.level = "revisions"
        <5>1. at'[c] = RevisionEntry(r1) /\ e = KeyEntry("revisions", r1[1])
          BY Zenon, <3>1, <3>2, <3>4, <4>3
        <5>2. Before(RevisionEntry(r1)) = {KeyEntry("profile", r1[1]),
                 KeyEntry("identity", r1[1]), KeyEntry("revisions", r1[1])}
          BY Zenon DEF Before, RevisionEntry, KeyEntry
        <5> QED BY <3>1, <5>1, <5>2, BeforeOnPath, Zenon
      <4> QED BY Zenon, <3>3, <4>1, <4>2, <4>3
    <3>6. pc'[c] = "make"
      BY Zenon, <2>1 DEF Advance, Safe, Typed, TypeOK
    <3> QED BY Zenon, <1>1, <1>4, <3>2, <3>5, <3>6 DEF HeadsInv
  <2>2. CASE e.level = "revision"
    <3>1. e = RevisionEntry(r0) /\ <<e.key, e.bundle>> = r0
      <4>1. e = RevisionEntry(r0)
        BY Zenon, <2>2, <1>0, <1>1, PathEntries
      <4>2. RevisionEntry(r0).key = r0[1] /\ RevisionEntry(r0).bundle = r0[2]
        BY ZenonT(40) DEF RevisionEntry
      <4>3. <<r0[1], r0[2]>> = r0
        BY <1>1 DEF Revision
      <4> QED BY Zenon, <4>1, <4>2, <4>3
    <3>2. PathTo(r0) \subseteq durable'
      BY ZenonT(40), <1>1, <1>4, <3>1, BeforeOnPath
    <3>3. todo'[c] = todo[c] \ {r0}
      BY <2>2, <3>1 DEF Advance, Safe, Typed, TypeOK
    <3>4. pc'[c] \in {"make", "sync"} => \E r \in todo[c] : at'[c] = KeyEntry("profile", r[1])
      BY ZenonT(40), <2>2 DEF Advance, Safe, Typed, TypeOK
    <3>5. pc'[c] \in {"make", "sync"} => Before(at'[c]) = {}
      BY <1>1, <3>4, BeforeOnPath
    <3>6. pc'[c] = "commit" => todo'[c] = {}
      BY Zenon, <2>2 DEF Advance, Safe, Typed, TypeOK
    <3> QED BY Zenon, <1>1, <3>2, <3>3, <3>5, <3>6 DEF HeadsInv
  <2> QED BY Zenon, <2>1, <2>2
<1> QED BY ZenonT(40), <1>3, <1>5, <1>6, <1>7 DEF HeadsInv, Busy
\* Every operation's catalog names only old heads and the revisions it is
\* about to publish.
LEMMA OperationHeads ==
    ASSUME Safe, HeadsInv, NEW c \in Clients, Operation(c)
    PROVE  HeadsInv'
<1> USE DEF Expected
<1>0. catalog \in Catalog
  BY Zenon DEF Safe, Typed, TypeOK
<1>1. CASE Load(c) \/ BeginBootstrap(c)
  <2>1. \A d \in Clients : pc'[d] = pc[d] \/ pc'[d] \in {"legacy", "bootstrap"}
    BY Zenon, <1>1 DEF Load, BeginBootstrap, Safe, Typed, TypeOK
  <2>2. pc[c] = "idle" /\ \A d \in Clients : d # c => pc'[d] = pc[d]
    BY Zenon, <1>1 DEF Load, BeginBootstrap, Safe, Typed, TypeOK
  <2>3. UNCHANGED <<disk, entries, durable, next, todo, at>>
    BY Zenon, <1>1 DEF Load, BeginBootstrap
  <2>4. HeadsSurvivePowerLoss'
    BY Zenon, <2>3 DEF HeadsInv, HeadsSurvivePowerLoss
  <2>5. \A e \in entries' \ durable' :
            e.level = "revision" \/ \E d \in Clients : pc'[d] = "sync" /\ at'[d] = e
    <3> SUFFICES ASSUME NEW e \in entries \ durable, e.level # "revision"
                 PROVE  \E d \in Clients : pc'[d] = "sync" /\ at'[d] = e
      BY Zenon, <2>3
    <3> PICK d \in Clients : pc[d] = "sync" /\ at[d] = e
      BY Zenon DEF HeadsInv
    <3> QED BY Zenon, <2>2, <2>3
  <2>6. pc'[c] \notin {"make", "sync", "commit"}
    BY Zenon, <1>1 DEF Load, BeginBootstrap, Safe, Typed, TypeOK
  <2> QED BY Zenon, <2>2, <2>3, <2>4, <2>5, <2>6, MoveHeads
<1>2. ASSUME NEW k \in Keys, NEW b \in Bundles, NEW activate \in BOOLEAN,
             Publish(c, k, b, activate)
      PROVE  HeadsInv'
  <2> DEFINE n == Published(catalog, k, b, activate)
  <2>1. n \in Catalog
    BY <1>0, <1>2, PublishedType DEF Publish
  <2>2. n.profiles = [catalog.profiles EXCEPT ![k] = NewProfile(catalog.profiles[k], k, b)]
    BY Zenon, <1>0 DEF Published, Catalog
  <2> HIDE DEF n
  <2>3. NewProfile(catalog.profiles[k], k, b).head = <<k, b>>
    BY Zenon DEF NewProfile
  <2>4. Heads(n) \subseteq Heads(catalog) \cup {<<k, b>>}
    BY <1>0, <2>2, <2>3, CatalogFields, Zenon DEF Heads, Present
  <2>5. {<<k, b>>} \in SUBSET Revision
    BY DEF Revision
  <2> QED BY ZenonT(40), <1>2, <2>1, <2>4, <2>5, EnterHeads DEF Publish, n
<1>3. ASSUME NEW k \in Keys \cup {NONE}, Activate(c, k)
      PROVE  HeadsInv'
  <2>1. PICK identity \in ActiveIdentity \cup {NONE} :
           Enter(c, [catalog EXCEPT !.active = identity], {}, "receipt")
    <3>1. CASE k = NONE
      BY Zenon, <1>3, <3>1, NoneIsNoValue DEF Activate, Present
    <3>2. CASE k \in Present(catalog)
      <4>1. k \in Keys /\ k # NONE /\ catalog.profiles[k] \in Profile
        BY Zenon, <1>0, <3>2, CatalogFields, NoneIsNoValue DEF Present
      <4>2. Identity(k, catalog.profiles[k].head) \in ActiveIdentity
        BY <4>1, ProfileFields DEF Identity, ActiveIdentity
      <4> QED BY Zenon, <1>3, <4>1, <4>2 DEF Activate
    <3> QED BY Zenon, <1>3, <3>1, <3>2 DEF Activate
  <2> DEFINE n == [catalog EXCEPT !.active = identity]
  <2>2. n \in Catalog /\ n.profiles = catalog.profiles
    BY Zenon, <1>0 DEF Catalog
  <2> HIDE DEF n
  <2>3. Heads(n) \subseteq Heads(catalog) \cup {}
    BY Zenon, <2>2 DEF Heads, Present
  <2> QED BY Zenon, <1>3, <2>1, <2>2, <2>3, EnterHeads DEF Activate, n
<1>4. ASSUME NEW k \in Keys, Delete(c, k)
      PROVE  HeadsInv'
  <2> DEFINE n == [catalog EXCEPT !.profiles[k] = NONE,
                                  !.active = IF IsActive(catalog, k) THEN NONE
                                             ELSE catalog.active]
  <2>1. n.profiles = [catalog.profiles EXCEPT ![k] = NONE]
    BY Zenon, <1>0 DEF Catalog
  <2>2. n \in Catalog
    <3>1. [catalog.profiles EXCEPT ![k] = NONE] \in [Keys -> Profile \cup {NONE}]
      BY Zenon, <1>0, CatalogFields
    <3> QED BY <1>0, <3>1, CatalogFields, Zenon DEF Catalog
  <2>3. Enter(c, n, {}, "receipt") /\ stateLock = NONE
    BY Zenon, <1>4 DEF Delete
  <2> HIDE DEF n
  <2>4. Heads(n) \subseteq Heads(catalog) \cup {}
    BY ZenonT(40), <1>0, <2>1, CatalogFields DEF Heads, Present
  <2> QED BY Zenon, <2>2, <2>3, <2>4, EnterHeads
<1>5. ASSUME NEW k \in Keys, NEW new \in Keys, Rename(c, k, new)
      PROVE  HeadsInv'
  <2> DEFINE revision == <<new, catalog.profiles[k].head[2]>>
             p == [catalog.profiles[k] EXCEPT !.head = revision]
             n == Renamed(catalog, k, new)
  <2>1. k \in Present(catalog) /\ catalog.profiles[k] \in Profile
    BY Zenon, <1>0, <1>5, CatalogFields DEF Rename, Present
  <2>2. n \in Catalog
    BY <1>0, <2>1, RenamedType, Zenon
  <2>3. p.head = revision /\ revision \in Revision
    BY Zenon, <2>1, ProfileFields DEF Profile, Revision
  <2>4. n.profiles = [catalog.profiles EXCEPT ![k] = NONE, ![new] = p]
    BY Zenon, <1>0 DEF Renamed, Catalog
  <2> HIDE DEF n, p
  <2>5. Heads(n) \subseteq Heads(catalog) \cup {revision}
    BY ZenonT(40), <1>0, <2>3, <2>4, CatalogFields DEF Heads, Present
  <2> QED BY Zenon, <1>5, <2>2, <2>3, <2>5, EnterHeads DEF Rename, n
<1>6. ASSUME NEW k \in Present(catalog), NEW p \in Profile, NEW why,
             p.head = catalog.profiles[k].head, stateLock = NONE,
             Enter(c, WithProfile(catalog, k, p), {}, why)
      PROVE  HeadsInv'
  <2> DEFINE n == WithProfile(catalog, k, p)
  <2>0. k \in Keys
    BY Zenon DEF Present
  <2>1. n.profiles = [catalog.profiles EXCEPT ![k] = p] /\ n \in Catalog
    BY ZenonT(40), <1>0, <2>0, WithProfileType
  <2> HIDE DEF n
  <2>3. Heads(n) \subseteq Heads(catalog) \cup {}
    <3>1. \A j \in Present(n) : j \in Present(catalog)
                                   /\ n.profiles[j].head = catalog.profiles[j].head
      BY Zenon, <1>0, <1>6, <2>0, <2>1, CatalogFields DEF Present
    <3> QED BY Zenon, <3>1 DEF Heads
  <2> QED BY <1>6, <2>1, <2>3, EnterHeads DEF n
<1>7. ASSUME NEW k \in Keys, NEW selections \in SUBSET Selection, Select(c, k, selections)
      PROVE  HeadsInv'
  <2> DEFINE p == [catalog.profiles[k] EXCEPT !.selections = selections,
                                              !.generation = @ + 1]
  <2>1. catalog.profiles[k] \in Profile /\ k \in Present(catalog)
    BY Zenon, <1>0, <1>7, CatalogFields DEF Select, Present
  <2>2. catalog.profiles[k].generation + 1 \in 0..MaxGeneration
    BY <1>7, <2>1, ProfileFields, StoreConstants DEF Select, CheckedSum
  <2>3. p \in Profile /\ p.head = catalog.profiles[k].head
    BY <2>1, <2>2, Zenon DEF Profile
  <2>4. Enter(c, WithProfile(catalog, k, p), {}, "receipt")
        /\ stateLock = NONE
    BY Zenon, <1>7 DEF Select
  <2> HIDE DEF p
  <2> QED BY Zenon, <1>6, <2>1, <2>3, <2>4
<1>8. ASSUME NEW k \in Keys, NEW choice \in Selection, SelectProxy(c, k, choice)
      PROVE  HeadsInv'
  <2>1. k \in Present(catalog) /\ catalog.profiles[k] \in Profile
    BY Zenon, <1>0, <1>8, CatalogFields DEF SelectProxy, Present
  <2>2. {s \in Reconciled(catalog, k) : s[1] # choice[1]} \cup {choice} \in SUBSET Selection
    BY Zenon, <2>1, ProfileFields DEF Reconciled
  <2> QED BY Zenon, <1>7, <1>8, <2>2 DEF SelectProxy
<1>9. ASSUME NEW k \in Keys, PrepareSelections(c, k)
      PROVE  HeadsInv'
  <2>1. k \in Present(catalog) /\ catalog.profiles[k] \in Profile
    BY Zenon, <1>0, <1>9, CatalogFields DEF PrepareSelections, Present
  <2>2. Reconciled(catalog, k) \in SUBSET Selection
    BY Zenon, <2>1, ProfileFields DEF Reconciled
  <2> QED BY Zenon, <1>7, <1>9, <2>2 DEF PrepareSelections
<1>10. ASSUME NEW k \in Keys, NEW fresh \in Secrets, EnsureSecret(c, k, fresh)
       PROVE  HeadsInv'
  <2>0. catalog.profiles[k] \in Profile /\ k \in Present(catalog) /\ stateLock = NONE
    BY Zenon, <1>0, <1>10, CatalogFields DEF EnsureSecret, Present
  <2>1. CASE catalog.profiles[k].secret = NONE
    <3> DEFINE p == [catalog.profiles[k] EXCEPT !.secret = fresh]
    <3>1. p \in Profile /\ p.head = catalog.profiles[k].head
      BY Zenon, <2>0 DEF Profile
    <3>2. Enter(c, WithProfile(catalog, k, p), {}, k)
      BY Zenon, <1>10, <2>1 DEF EnsureSecret
    <3> HIDE DEF p
    <3> QED BY Zenon, <1>6, <2>0, <3>1, <3>2
  <2>2. CASE catalog.profiles[k].secret # NONE
    <3>1. \A d \in Clients : ~Busy(d) /\ pc[d] # "sync"
      BY Zenon, <2>0, NoneIsNoValue DEF Safe, Typed, PendingOK, Busy
    <3>2. \A d \in Clients : pc'[d] \in {pc[d], "resync"}
      BY <1>10, <2>2 DEF EnsureSecret, Safe, Typed, TypeOK
    <3>3. UNCHANGED <<disk, entries, durable>>
      BY Zenon, <1>10, <2>2 DEF EnsureSecret
    <3> QED BY Zenon, <3>1, <3>2, <3>3 DEF HeadsInv, HeadsSurvivePowerLoss, Busy
  <2> QED BY Zenon, <2>1, <2>2
<1> QED BY Zenon, <1>1, <1>2, <1>3, <1>4, <1>5, <1>8, <1>9, <1>10 DEF Operation
-----------------------------------------------------------------------------
\* Every step of a transaction keeps the heads readable after a power loss.
LEMMA StepHeads ==
    ASSUME Safe, HeadsInv, LevelsSynced, NEW c \in Clients, Step(c)
    PROVE  HeadsInv'
<1>0. catalog \in Catalog /\ catalog \in disk /\ Typed
  BY Zenon DEF Safe, DiskSafe, Typed, TypeOK
<1>1. CASE BeginTakeover(c)
  <2>1. pc[c] = "legacy" /\ pc'[c] = "takeover" /\ \A d \in Clients : d # c => pc'[d] = pc[d]
    BY Zenon, <1>0, <1>1 DEF BeginTakeover, Typed, TypeOK
  <2>2. UNCHANGED <<disk, entries, durable, next, todo, at>>
    BY Zenon, <1>1 DEF BeginTakeover
  <2>3. HeadsSurvivePowerLoss'
    BY <2>2 DEF HeadsInv, HeadsSurvivePowerLoss
  <2>4. \A e \in entries' \ durable' :
            e.level = "revision" \/ \E d \in Clients : pc'[d] = "sync" /\ at'[d] = e
    <3> SUFFICES ASSUME NEW e \in entries \ durable, e.level # "revision"
                 PROVE  \E d \in Clients : pc'[d] = "sync" /\ at'[d] = e
      BY Zenon, <2>2
    <3> PICK d \in Clients : pc[d] = "sync" /\ at[d] = e
      BY Zenon DEF HeadsInv
    <3> QED BY Zenon, <2>1, <2>2
  <2> QED BY Zenon, <2>1, <2>2, <2>3, <2>4, MoveHeads
<1>2. CASE Takeover(c)
  <2>1. CASE catalog.format = "v2"
    BY Zenon, <1>2, <2>1, ReturnHeads DEF Takeover
  <2>2. CASE catalog.format = "legacy"
    <3> DEFINE revs == {<<k, LegacyBundle[k]>> : k \in LegacyKeys}
               n == Converted(catalog)
    <3>1. revs \in SUBSET Revision
      BY StoreConstants DEF LegacyKeys, Revision
    <3>2. n \in Catalog
      BY <1>0, ConvertedType
    <3>3. n.profiles = [k \in Keys |-> IF k \in LegacyKeys THEN LegacyProfile(k) ELSE NONE]
      BY Zenon, <1>0 DEF Converted, Catalog
    <3>4. \A k \in LegacyKeys : LegacyProfile(k).head = <<k, LegacyBundle[k]>>
      BY Zenon DEF LegacyProfile
    <3>5. Enter(c, n, revs, "takeover") /\ stateLock = NONE
      BY Zenon, <1>2, <2>2 DEF Takeover
    <3>6. Heads(n) \subseteq Heads(catalog) \cup revs
      <4> HIDE DEF n
      <4>1. \A k \in Present(n) : k \in LegacyKeys /\ n.profiles[k] = LegacyProfile(k)
        BY Zenon, <3>3 DEF Present
      <4>2. \A k \in Present(n) : n.profiles[k].head = <<k, LegacyBundle[k]>>
        BY Zenon, <3>4, <4>1
      <4>3. \A k \in Present(n) : n.profiles[k].head \in revs
        BY <4>1, <4>2, Zenon
      <4> QED BY Zenon, <4>3 DEF Heads
    <3> HIDE DEF n, revs
    <3> QED BY Zenon, <3>1, <3>2, <3>5, <3>6, EnterHeads
  <2> QED BY Zenon, <1>2, <2>1, <2>2 DEF Takeover
<1>3. CASE Make(c)
  <2>0. pc[c] = "make" /\ stateLock = c /\ at[c] \in Entry
    BY <1>0, <1>3 DEF Make, Typed, PendingOK
  <2>1. CASE at[c] \in entries /\ TakenAsItIs(at[c]) /\ Advance(c, at[c]) /\ UNCHANGED entries
    <3>1. at[c] \in durable
      <4> SUFFICES ASSUME at[c] \notin durable PROVE FALSE
        BY Zenon
      <4>1. PICK d \in Clients : pc[d] = "sync" /\ at[d] = at[c]
        BY Zenon, <2>1 DEF HeadsInv, TakenAsItIs
      <4> QED BY Zenon, <1>0, <2>0, <4>1 DEF Typed, PendingOK
    <3> QED BY Zenon, <1>3, <2>0, <2>1, <3>1, AdvanceHeads DEF Make
  <2>2. CASE /\ entries' = entries \cup {at[c]} /\ pc' = [pc EXCEPT ![c] = "sync"]
             /\ UNCHANGED <<at, todo>>
    <3>1. pc'[c] = "sync" /\ \A d \in Clients : d # c => pc'[d] = pc[d]
      BY <1>0, <2>2 DEF Typed, TypeOK
    <3>2. UNCHANGED <<disk, durable, next>>
      BY Zenon, <1>3 DEF Make
    <3>3. HeadsSurvivePowerLoss'
      BY ZenonT(40), <3>2 DEF HeadsInv, HeadsSurvivePowerLoss
    <3>4. \A e \in entries' \ durable' :
              e.level = "revision" \/ \E d \in Clients : pc'[d] = "sync" /\ at'[d] = e
      <4> SUFFICES ASSUME NEW e \in (entries \cup {at[c]}) \ durable, e.level # "revision"
                   PROVE  \E d \in Clients : pc'[d] = "sync" /\ at[d] = e
        BY Zenon, <2>2, <3>2
      <4>1. CASE e = at[c]
        BY Zenon, <3>1, <4>1
      <4>2. CASE e # at[c]
        <5> PICK d \in Clients : pc[d] = "sync" /\ at[d] = e
          BY Zenon, <4>2 DEF HeadsInv
        <5> QED BY Zenon, <2>0, <3>1
      <4> QED BY Zenon, <4>1, <4>2
    <3> QED BY Zenon, <2>0, <2>2, <3>1, <3>2, <3>3, <3>4, MoveHeads
  <2> QED BY ZenonT(40), <1>3, <2>1, <2>2 DEF Make
<1>4. CASE Sync(c)
  <2>1. at[c] \in Siblings(at[c])
    BY Zenon, <1>0, <1>4 DEF Sync, Siblings, Typed, PendingOK
  <2> QED BY ZenonT(40), <1>4, <2>1, AdvanceHeads DEF Sync
<1>5. CASE SyncFails(c)
  <2>1. at[c].level \in {"revision", "catalog"} /\ pc[c] = "sync"
    BY <1>5, Zenon DEF SyncFails, LevelsSynced
  <2>2. PICK r \in todo[c] : at[c] \in PathTo(r)
    BY Zenon, <1>0, <2>1 DEF Typed, PendingOK
  <2>3. at[c].level = "revision"
    BY Zenon, <1>0, <2>1, <2>2, PathEntries DEF Typed, TypeOK
  <2> QED BY Zenon, <1>5, <2>3, ReturnHeads DEF SyncFails
<1>6. CASE SyncCatalog(c) \/ SyncCatalogFails(c) \/ Resync(c) \/ ResyncFails(c) \/ Abandon(c)
  BY <1>0, <1>6, ReturnHeads DEF SyncCatalog, SyncCatalogFails, Resync, ResyncFails, Abandon
<1>7. CASE Commit(c)
  <2>1. /\ pc[c] = "commit" /\ stateLock = c /\ Busy(c)
        /\ disk' = disk \cup {next[c]}
        /\ UNCHANGED <<entries, durable, next, todo, at>>
        /\ pc'[c] = "syncCatalog" /\ \A d \in Clients : d # c => pc'[d] = pc[d]
    BY <1>0, <1>7 DEF Commit, Typed, TypeOK, PendingOK, Busy
  <2>2. todo[c] = {}
    BY <2>1, Zenon DEF HeadsInv
  <2>3. HeadsSurvivePowerLoss'
    BY <2>1, <2>2, Zenon DEF HeadsInv, HeadsSurvivePowerLoss
  <2>4. \A e \in entries' \ durable' : e.level = "revision"
    BY <1>0, <2>1, Zenon DEF HeadsInv, Typed, PendingOK
  <2> QED BY ZenonT(40), <2>1, <2>3, <2>4 DEF HeadsInv, Busy
<1> QED BY Zenon, <1>1, <1>2, <1>3, <1>4, <1>5, <1>6, <1>7 DEF Step

\* A killed client and a power loss keep the heads readable.
LEMMA FailureHeads ==
    ASSUME Safe, HeadsInv, LevelsSynced
    PROVE  /\ \A c \in Clients : Kill(c) => HeadsInv'
           /\ PowerLoss => HeadsInv'
<1>1. ASSUME NEW c \in Clients, Kill(c) PROVE HeadsInv'
  <2>1. ASSUME pc[c] = "sync" PROVE at[c].level = "revision"
    <3>1. at[c].level \in {"revision", "catalog"}
      BY <1>1, <2>1, Zenon DEF Kill, LevelsSynced
    <3>2. PICK r \in todo[c] : at[c] \in PathTo(r)
      BY ZenonT(40), <2>1 DEF Safe, Typed, PendingOK
    <3> QED BY Zenon, <3>1, <3>2, PathEntries DEF Safe, Typed, TypeOK
  <2> QED BY Zenon, <1>1, <2>1, ReturnHeads DEF Kill
<1>2. ASSUME PowerLoss PROVE HeadsInv'
  <2>1. /\ catalog' \in disk /\ disk' = {catalog'}
        /\ durable \subseteq durable' /\ entries' = durable'
        /\ pc' = [c \in Clients |-> "idle"]
    BY ZenonT(40), <1>2 DEF PowerLoss, Safe, Typed, TypeOK
  <2>2. HeadsSurvivePowerLoss'
    BY Zenon, <2>1 DEF HeadsInv, HeadsSurvivePowerLoss
  <2> QED BY Zenon, <2>1, <2>2 DEF HeadsInv, Busy
<1> QED BY ZenonT(40), <1>1, <1>2

\* If a create that misses its sync is always that of a revision or of the
\* catalog, every head of every catalog that may survive a power loss is
\* readable: publish_revision syncs the path before commit names it.
THEOREM HeadsHold == LevelsSynced => (Spec => []HeadsSurvivePowerLoss)
<1> SUFFICES ASSUME LevelsSynced PROVE Spec => []HeadsSurvivePowerLoss
  BY Zenon
<1>1. Init => HeadsInv
  BY DEF Init, HeadsInv, HeadsSurvivePowerLoss, Heads, Present, Bare, EmptyProfiles, Busy
<1>2. Safe /\ HeadsInv /\ [Next]_vars => HeadsInv'
  <2> SUFFICES ASSUME Safe, HeadsInv, [Next]_vars PROVE HeadsInv'
    OBVIOUS
  <2>1. CASE UNCHANGED vars
    BY <2>1, Zenon DEF vars, HeadsInv, HeadsSurvivePowerLoss, Busy
  <2>2. CASE Next
    BY <2>2, OperationHeads, StepHeads, FailureHeads DEF Next
  <2> QED BY Zenon, <2>1, <2>2
<1>3. HeadsInv => HeadsSurvivePowerLoss
  BY Zenon DEF HeadsInv
<1> QED BY <1>1, <1>2, <1>3, SafeInvariant, PTL DEF Spec
=============================================================================
