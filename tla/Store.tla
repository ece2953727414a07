------------------------------- MODULE Store -------------------------------
(***************************************************************************)
(* The profile store (src/store.rs over src/fsutil.rs): one catalog file,  *)
(* replaced atomically under an exclusive file lock after a compare-and-   *)
(* swap on the state token, and a tree of immutable revisions that is      *)
(* written and synced before the catalog that names it.                    *)
(*                                                                         *)
(* A client is a process (a CLI command or the daemon) with an open Store. *)
(* Every durable step is an action of its own, so that a process may be    *)
(* killed, a directory sync may fail and power may be lost between any two *)
(* of them.  Visible state and the state that survives a power loss are    *)
(* kept apart: entries/durable for the revision tree, catalog/disk for the *)
(* catalog.                                                                *)
(*                                                                         *)
(* Data is abstracted to what the operations tell apart.  A bundle is a    *)
(* model value with its readiness and its group members; a revision is the *)
(* pair of key and bundle, because revision_id is a digest of exactly      *)
(* those; a state token is the catalog itself, because the token is a      *)
(* digest of the catalog's canonical bytes.                                *)
(***************************************************************************)
EXTENDS Naturals, FiniteSets

CONSTANTS
    Clients,           \* processes that open the store
    Keys,              \* profile names
    Bundles,           \* captured configurations that pass catalog admission
    Groups, Proxies,   \* names a persisted selection pairs
    Secrets,           \* values of the random controller secret
    RuntimeReady,      \* the bundles for which catalog_ready is Ok(true)
    Members,           \* Members[b]: the <<group, proxy>> pairs b's document lists
    Selectable,        \* Selectable[b]: those Config::select accepts
    InitialFormats,    \* the formats the root directory may hold initially
    LegacyBundle,      \* LegacyBundle[k]: the legacy configuration of k, or NONE
    LegacyActive,      \* the key the legacy metadata calls active, or NONE
    LegacySelections,  \* LegacySelections[k]: its persisted selections
    LegacySelected,    \* the keys whose legacy metadata has a selections field
    Interruptible,     \* levels at which a create may miss its directory sync
    MaxSequence,       \* stands for u64::MAX of Catalog.sequence
    MaxGeneration,     \* stands for u64::MAX of Desired.generation
    NONE

Selection == Groups \X Proxies
Revision == Keys \X Bundles
Formats == {"missing", "legacy", "v2"}

\* The levels of the path to a revision, in the order publish_revision makes
\* them, and the catalog file.
Levels == {"profile", "identity", "revisions", "revision", "catalog"}

\* A directory entry below the root: the profile directory of a key, its
\* identity.json, its revisions directory, or one published revision.
KeyEntry(level, k) == [level |-> level, key |-> k, bundle |-> NONE]
RevisionEntry(r) == [level |-> "revision", key |-> r[1], bundle |-> r[2]]
Entry == [level : Levels, key : Keys, bundle : Bundles \cup {NONE}]

Profile == [head : Revision, generation : 0..MaxGeneration,
            selections : SUBSET Selection, secret : Secrets \cup {NONE}]
ActiveIdentity == [key : Keys, revision : Revision]
Catalog == [format : Formats, sequence : 0..MaxSequence,
            active : ActiveIdentity \cup {NONE},
            profiles : [Keys -> Profile \cup {NONE}]]

ASSUME StoreConstants ==
    /\ RuntimeReady \subseteq Bundles
    /\ Members \in [Bundles -> SUBSET Selection]
    /\ Selectable \in [Bundles -> SUBSET Selection]
    /\ InitialFormats \subseteq {"missing", "legacy"}
    /\ LegacyBundle \in [Keys -> Bundles \cup {NONE}]
    /\ LegacySelections \in [Keys -> SUBSET Selection]
    /\ LegacySelected \subseteq Keys
    /\ LegacyActive \in Keys \cup {NONE}
    /\ Interruptible \subseteq Levels
    /\ MaxSequence \in Nat \ {0}
    /\ MaxGeneration \in Nat \ {0}

ASSUME NoneIsNoValue ==
    /\ NONE \notin Keys \cup Bundles \cup Secrets \cup Clients
    /\ NONE \notin Profile \cup ActiveIdentity \cup Catalog \cup Entry
    /\ Keys \cap {"receipt", "takeover"} = {}

VARIABLES
    catalog,    \* the visible state-v2.json ("missing"/"legacy" when there is none)
    disk,       \* the catalogs a power loss may leave behind
    entries,    \* the visible entries of the revision tree
    durable,    \* those whose directory has been synced since
    stateLock,  \* holder of state-v2.lock, or NONE
    cutover,    \* holder of legacy-cutover.lock, or NONE
    pc,         \* where each client is inside an operation
    view,       \* the snapshot (hence the token) a client holds, or NONE
    next,       \* the catalog a client is about to commit, or NONE
    todo,       \* revisions a client has still to publish before it commits
    at,         \* the entry of the revision tree a client is making, or NONE
    purpose,    \* what the commit is for
    handed,     \* secrets returned to a caller, per key still in the catalog
    acked       \* the sequence of the last commit reported durable

vars == <<catalog, disk, entries, durable, stateLock, cutover, pc, view, next,
          todo, at, purpose, handed, acked>>

EmptyProfiles == [k \in Keys |-> NONE]
Bare(format) == [format |-> format, sequence |-> 0, active |-> NONE,
                 profiles |-> EmptyProfiles]

Init ==
    /\ catalog \in {Bare(f) : f \in InitialFormats}
    /\ disk = {catalog}
    /\ entries = {} /\ durable = {}
    /\ stateLock = NONE /\ cutover = NONE
    /\ pc = [c \in Clients |-> "idle"]
    /\ view = [c \in Clients |-> NONE]
    /\ next = [c \in Clients |-> NONE]
    /\ todo = [c \in Clients |-> {}]
    /\ at = [c \in Clients |-> NONE]
    /\ purpose = [c \in Clients |-> "receipt"]
    /\ handed = [k \in Keys |-> NONE]
    /\ acked = 0

-----------------------------------------------------------------------------
(* Reading.                                                                *)

\* The entries read_revision opens on the way to a revision.
PathTo(r) == {KeyEntry("profile", r[1]), KeyEntry("identity", r[1]),
              KeyEntry("revisions", r[1]), RevisionEntry(r)}

Present(cat) == {k \in Keys : cat.profiles[k] # NONE}
Heads(cat) == {cat.profiles[k].head : k \in Present(cat)}

\* read_bundle succeeds: identity, revision directory and content are there.
\* Content is a function of the revision's name, so presence is enough.
Readable(r) == PathTo(r) \subseteq entries

\* Leave an operation, releasing whatever the client holds.
Return(c) ==
    /\ pc' = [pc EXCEPT ![c] = "idle"]
    /\ next' = [next EXCEPT ![c] = NONE]
    /\ todo' = [todo EXCEPT ![c] = {}]
    /\ at' = [at EXCEPT ![c] = NONE]
    /\ purpose' = [purpose EXCEPT ![c] = "receipt"]
    /\ stateLock' = IF stateLock = c THEN NONE ELSE stateLock
    /\ cutover' = IF cutover = c THEN NONE ELSE cutover

\* Store::load: under the state lock, inspect the catalog and verify every
\* head.  A legacy root drops the guard and goes on to takeover.
Load(c) ==
    /\ pc[c] = "idle" /\ stateLock = NONE
    /\ \/ /\ catalog.format # "legacy"
          /\ \A r \in Heads(catalog) : Readable(r)
          /\ view' = [view EXCEPT ![c] = catalog]
          /\ UNCHANGED pc
       \/ /\ catalog.format = "legacy"
          /\ pc' = [pc EXCEPT ![c] = "legacy"]
          /\ UNCHANGED view
    /\ UNCHANGED <<catalog, disk, entries, durable, stateLock, cutover, next,
                   todo, at, purpose, handed, acked>>

-----------------------------------------------------------------------------
(* Operations: take the lock, compare the token, decide the next catalog.  *)

\* checked_add(1): the sum is representable.
CheckedSum(n, max) == n <= max

\* Store::expected: the bytes under the lock are the bytes that were loaded.
\* (Mutant: no comparison.)
ExpectedAnything(c) == stateLock = NONE /\ view[c] # NONE
Expected(c) == stateLock = NONE /\ view[c] = catalog

\* The operation holds the state lock and has settled on the catalog n; it
\* publishes revs first.  Sequence overflow is refused before any write.
Enter(c, n, revs, why) ==
    /\ CheckedSum(catalog.sequence + 1, MaxSequence)
    /\ stateLock' = c
    /\ next' = [next EXCEPT ![c] =
                  [n EXCEPT !.format = "v2", !.sequence = catalog.sequence + 1]]
    /\ todo' = [todo EXCEPT ![c] = revs]
    /\ purpose' = [purpose EXCEPT ![c] = why]
    /\ \/ /\ revs = {}
          /\ pc' = [pc EXCEPT ![c] = "commit"]
          /\ UNCHANGED at
       \/ \E r \in revs : /\ pc' = [pc EXCEPT ![c] = "make"]
                          /\ at' = [at EXCEPT ![c] = KeyEntry("profile", r[1])]
    /\ UNCHANGED <<catalog, disk, entries, durable, view, handed, acked>>

IsActive(cat, k) == cat.active # NONE /\ cat.active.key = k
Identity(k, r) == [key |-> k, revision |-> r]

\* A publication from the Missing format takes legacy-cutover.lock first.
BeginBootstrap(c) ==
    /\ pc[c] = "idle" /\ view[c] # NONE /\ view[c].format = "missing"
    /\ cutover = NONE
    /\ cutover' = c
    /\ pc' = [pc EXCEPT ![c] = "bootstrap"]
    /\ UNCHANGED <<catalog, disk, entries, durable, stateLock, view, next, todo,
                   at, purpose, handed, acked>>

\* The selections a new document keeps, and the generation that goes with
\* them: dropping one is a new generation.  (Mutant: the old generation.)
Retained(old, b) ==
    IF old = NONE THEN {} ELSE old.selections \cap Members[b]
SameGeneration(old, b) == IF old = NONE THEN 0 ELSE old.generation
RetainedGeneration(old, b) ==
    IF old = NONE THEN 0
    ELSE IF Retained(old, b) = old.selections THEN old.generation
    ELSE old.generation + 1

\* The secret a new revision of a profile inherits.  (Mutant: it is dropped.)
LostSecret(old) == NONE
KeptSecret(old) == IF old = NONE THEN NONE ELSE old.secret

\* The profile and the catalog publish_frozen commits for key k and bundle b.
NewProfile(old, k, b) ==
    [head |-> <<k, b>>,
     generation |-> RetainedGeneration(old, b),
     selections |-> Retained(old, b),
     secret |-> KeptSecret(old)]
Published(cat, k, b, activate) ==
    [cat EXCEPT !.profiles[k] = NewProfile(cat.profiles[k], k, b),
                !.active = IF activate \/ IsActive(cat, k)
                           THEN Identity(k, <<k, b>>) ELSE cat.active]

\* Store::publish_frozen.
Publish(c, k, b, activate) ==
    /\ \/ pc[c] = "idle" /\ view[c] # NONE /\ view[c].format = "v2"
       \/ pc[c] = "bootstrap"
    /\ Expected(c)
    /\ (activate \/ IsActive(catalog, k)) => b \in RuntimeReady
    /\ CheckedSum(RetainedGeneration(catalog.profiles[k], b), MaxGeneration)
    /\ Enter(c, Published(catalog, k, b, activate), {<<k, b>>}, "receipt")
    /\ UNCHANGED cutover

\* Store::activate, for a key or (NONE) for no key.
Activate(c, k) ==
    /\ pc[c] = "idle" /\ Expected(c) /\ catalog.format = "v2"
    /\ \/ /\ k = NONE
          /\ Enter(c, [catalog EXCEPT !.active = NONE], {}, "receipt")
       \/ /\ k \in Present(catalog)
          /\ Readable(catalog.profiles[k].head)
          /\ catalog.profiles[k].head[2] \in RuntimeReady
          /\ Enter(c, [catalog EXCEPT !.active = Identity(k, catalog.profiles[k].head)],
                   {}, "receipt")
    /\ UNCHANGED cutover

\* Store::delete: revisions stay, and the active identity goes with its key.
Delete(c, k) ==
    /\ pc[c] = "idle" /\ Expected(c) /\ k \in Present(catalog)
    /\ Enter(c, [catalog EXCEPT !.profiles[k] = NONE,
                                !.active = IF IsActive(catalog, k) THEN NONE
                                           ELSE catalog.active],
             {}, "receipt")
    /\ UNCHANGED cutover
\* Store::rename: the same bundle under a new key is a new revision; desired
\* state and secret move with it, and the active identity follows.  (Mutant:
\* the active identity keeps the old key.)
RenamedInPlace(cat, k, new) ==
    [cat EXCEPT !.profiles = [@ EXCEPT ![k] = NONE,
                  ![new] = [cat.profiles[k] EXCEPT !.head = <<new, @[2]>>]]]
Renamed(cat, k, new) ==
    LET revision == <<new, cat.profiles[k].head[2]>>
    IN  [cat EXCEPT !.profiles = [@ EXCEPT ![k] = NONE,
                                    ![new] = [cat.profiles[k] EXCEPT !.head = revision]],
                    !.active = IF IsActive(cat, k) THEN Identity(new, revision)
                               ELSE cat.active]

Rename(c, k, new) ==
    /\ pc[c] = "idle" /\ Expected(c)
    /\ new \notin Present(catalog) /\ k \in Present(catalog)
    /\ Readable(catalog.profiles[k].head)
    /\ Enter(c, Renamed(catalog, k, new), {<<new, catalog.profiles[k].head[2]>>},
             "receipt")
    /\ UNCHANGED cutover

WithProfile(cat, k, p) == [cat EXCEPT !.profiles = [@ EXCEPT ![k] = p]]

\* Store::select: replace the selections and bump the generation.
Select(c, k, selections) ==
    /\ pc[c] = "idle" /\ Expected(c) /\ k \in Present(catalog)
    /\ Readable(catalog.profiles[k].head)
    /\ CheckedSum(catalog.profiles[k].generation + 1, MaxGeneration)
    /\ Enter(c, WithProfile(catalog, k, [catalog.profiles[k] EXCEPT
                                           !.selections = selections,
                                           !.generation = @ + 1]),
             {}, "receipt")
    /\ UNCHANGED cutover

\* reconcile_selections: the persisted pairs the head's configuration accepts.
Reconciled(cat, k) ==
    cat.profiles[k].selections \cap Selectable[cat.profiles[k].head[2]]

\* `proxy select`: reconcile, then put one member in place for its group.
SelectProxy(c, k, choice) ==
    /\ k \in Present(catalog)
    /\ choice \in Selectable[catalog.profiles[k].head[2]]
    /\ Select(c, k, {s \in Reconciled(catalog, k) : s[1] # choice[1]} \cup {choice})

\* prepare_loaded: a run persists the reconciled selections when they differ.
PrepareSelections(c, k) ==
    /\ k \in Present(catalog)
    /\ Reconciled(catalog, k) # catalog.profiles[k].selections
    /\ Select(c, k, Reconciled(catalog, k))

\* Store::ensure_auto_controller_secret: an existing secret is only resynced,
\* never replaced; a new one is committed.
EnsureSecret(c, k, fresh) ==
    /\ pc[c] = "idle" /\ Expected(c) /\ k \in Present(catalog)
    /\ Readable(catalog.profiles[k].head)
    /\ \/ /\ catalog.profiles[k].secret = NONE
          /\ Enter(c, WithProfile(catalog, k, [catalog.profiles[k] EXCEPT !.secret = fresh]),
                   {}, k)
       \/ /\ catalog.profiles[k].secret # NONE
          /\ stateLock' = c
          /\ pc' = [pc EXCEPT ![c] = "resync"]
          /\ purpose' = [purpose EXCEPT ![c] = k]
          /\ UNCHANGED <<catalog, disk, entries, durable, view, next, todo, at, handed, acked>>
    /\ UNCHANGED cutover

-----------------------------------------------------------------------------
(* Legacy takeover: cutover lock, then state lock, then look again.        *)

BeginTakeover(c) ==
    /\ pc[c] = "legacy" /\ cutover = NONE
    /\ cutover' = c
    /\ pc' = [pc EXCEPT ![c] = "takeover"]
    /\ UNCHANGED <<catalog, disk, entries, durable, stateLock, view, next, todo,
                   at, purpose, handed, acked>>

LegacyKeys == {k \in Keys : LegacyBundle[k] # NONE}
LegacyProfile(k) ==
    [head |-> <<k, LegacyBundle[k]>>,
     generation |-> IF k \in LegacySelected THEN 1 ELSE 0,
     selections |-> IF k \in LegacySelected THEN LegacySelections[k] ELSE {},
     secret |-> NONE]

\* The catalog of a legacy root; an active profile that cannot run is not active.
Converted(cat) ==
    [cat EXCEPT
       !.profiles = [k \in Keys |-> IF k \in LegacyKeys THEN LegacyProfile(k) ELSE NONE],
       !.active = IF LegacyActive \in LegacyKeys
                     /\ LegacyBundle[LegacyActive] \in RuntimeReady
                  THEN Identity(LegacyActive, <<LegacyActive, LegacyBundle[LegacyActive]>>)
                  ELSE NONE]

\* Store::takeover.  Another client may have converted the root meanwhile.
Takeover(c) ==
    /\ pc[c] = "takeover" /\ stateLock = NONE
    /\ \/ /\ catalog.format = "v2"
          /\ \A r \in Heads(catalog) : Readable(r)
          /\ view' = [view EXCEPT ![c] = catalog]
          /\ Return(c)
          /\ UNCHANGED <<catalog, disk, entries, durable, handed, acked>>
       \/ /\ catalog.format = "legacy"
          /\ Enter(c, Converted(catalog), {<<k, LegacyBundle[k]>> : k \in LegacyKeys},
                   "takeover")
          /\ UNCHANGED cutover

-----------------------------------------------------------------------------
(* Store::publish_revision, one directory entry at a time.                 *)

\* The directory an entry lives in; one sync covers all its entries.
Directory(e) ==
    CASE e.level = "profile" -> <<"profiles">>
      [] e.level \in {"identity", "revisions"} -> <<"profile", e.key>>
      [] OTHER -> <<"revisions", e.key>>
Siblings(e) == {x \in entries : Directory(x) = Directory(e)}

\* What follows the entry e of client c: the next level of the path, the path
\* of another revision, or the commit.
Advance(c, e) ==
    \/ /\ e.level # "revision"
       /\ at' = [at EXCEPT ![c] =
                   CASE e.level = "profile" -> KeyEntry("identity", e.key)
                     [] e.level = "identity" -> KeyEntry("revisions", e.key)
                     [] OTHER -> RevisionEntry(CHOOSE r \in todo[c] : r[1] = e.key)]
       /\ pc' = [pc EXCEPT ![c] = "make"]
       /\ UNCHANGED todo
    \/ /\ e.level = "revision"
       /\ LET rest == todo[c] \ {<<e.key, e.bundle>>}
          IN  /\ todo' = [todo EXCEPT ![c] = rest]
              /\ \/ /\ rest = {}
                    /\ pc' = [pc EXCEPT ![c] = "commit"]
                    /\ at' = [at EXCEPT ![c] = NONE]
                 \/ \E r \in rest :
                       /\ pc' = [pc EXCEPT ![c] = "make"]
                       /\ at' = [at EXCEPT ![c] = KeyEntry("profile", r[1])]

\* (Mutant: an existing revision is not synced either.)
AlwaysAsItIs(e) == TRUE
TakenAsItIs(e) == e.level # "revision"

\* Make the entry unless it is there.  An existing directory or identity is
\* taken as it is (mkdirat's EXIST, verify_identity); an existing revision is
\* verified and synced again.
Make(c) ==
    /\ pc[c] = "make"
    /\ \/ /\ at[c] \in entries /\ TakenAsItIs(at[c])
          /\ Advance(c, at[c])
          /\ UNCHANGED entries
       \/ /\ at[c] \notin entries \/ ~TakenAsItIs(at[c])
          /\ entries' = entries \cup {at[c]}
          /\ pc' = [pc EXCEPT ![c] = "sync"]
          /\ UNCHANGED <<at, todo>>
    /\ UNCHANGED <<catalog, disk, durable, stateLock, cutover, view, next,
                   purpose, handed, acked>>

\* The directory sync after the entry succeeds.
Sync(c) ==
    /\ pc[c] = "sync"
    /\ durable' = durable \cup Siblings(at[c])
    /\ Advance(c, at[c])
    /\ UNCHANGED <<catalog, disk, entries, stateLock, cutover, view, next,
                   purpose, handed, acked>>

\* It fails: publish_revision returns the error, the entry stays visible.
SyncFails(c) ==
    /\ pc[c] = "sync" /\ at[c].level \in Interruptible
    /\ Return(c)
    /\ UNCHANGED <<catalog, disk, entries, durable, view, handed, acked>>
-----------------------------------------------------------------------------
(* Store::commit: an atomic rename, then a sync of the root directory.     *)

\* Secrets are followed as long as their key stays in the catalog.
StillHanded(cat) == [k \in Keys |-> IF cat.profiles[k] = NONE THEN NONE ELSE handed[k]]

Commit(c) ==
    /\ pc[c] = "commit"
    /\ catalog' = next[c]
    /\ disk' = disk \cup {next[c]}
    /\ handed' = StillHanded(next[c])
    /\ pc' = [pc EXCEPT ![c] = "syncCatalog"]
    /\ UNCHANGED <<entries, durable, stateLock, cutover, view, next, todo, at,
                   purpose, acked>>

Hand(k) == [handed EXCEPT ![k] = catalog.profiles[k].secret]

\* The root sync succeeds: the receipt reports no durability error, and a new
\* secret is returned.  The receipt carries the new token.
SyncCatalog(c) ==
    /\ pc[c] = "syncCatalog"
    /\ disk' = {catalog}
    /\ acked' = catalog.sequence
    /\ handed' = IF purpose[c] \in Keys THEN Hand(purpose[c]) ELSE handed
    /\ view' = [view EXCEPT ![c] = catalog]
    /\ Return(c)
    /\ UNCHANGED <<catalog, entries, durable>>

\* It fails after the visible rename: the commit stands, the receipt reports
\* the error (acked does not move), and a secret is not returned.  (Mutant: the
\* receipt reports success.)
SyncFailureAcknowledged(c) ==
    /\ pc[c] = "syncCatalog" /\ "catalog" \in Interruptible
    /\ acked' = catalog.sequence
    /\ view' = [view EXCEPT ![c] = catalog]
    /\ Return(c)
    /\ UNCHANGED <<catalog, disk, entries, durable, handed>>
SyncCatalogFails(c) ==
    /\ pc[c] = "syncCatalog" /\ "catalog" \in Interruptible
    /\ view' = [view EXCEPT ![c] = IF purpose[c] \in Keys THEN @ ELSE catalog]
    /\ Return(c)
    /\ UNCHANGED <<catalog, disk, entries, durable, handed, acked>>

\* An existing secret is returned only after a root sync of its own.
\* (Mutant: without one.)
ResyncSkipped(c) ==
    /\ pc[c] = "resync"
    /\ handed' = Hand(purpose[c])
    /\ Return(c)
    /\ UNCHANGED <<catalog, disk, entries, durable, view, acked>>
Resync(c) ==
    /\ pc[c] = "resync"
    /\ disk' = {catalog}
    /\ handed' = Hand(purpose[c])
    /\ Return(c)
    /\ UNCHANGED <<catalog, entries, durable, view, acked>>

ResyncFails(c) ==
    /\ pc[c] = "resync" /\ "catalog" \in Interruptible
    /\ Return(c)
    /\ UNCHANGED <<catalog, disk, entries, durable, view, handed, acked>>

-----------------------------------------------------------------------------
(* Failures.                                                               *)

\* The lock's deadline passes, or the operation is refused under it.
\* (Mutant: a wait for the state lock without a deadline.)
AbandonWithoutDeadline(c) ==
    /\ pc[c] \in {"legacy", "bootstrap"}
    /\ Return(c)
    /\ UNCHANGED <<catalog, disk, entries, durable, view, handed, acked>>
Abandon(c) ==
    /\ pc[c] \in {"legacy", "bootstrap", "takeover"}
    /\ Return(c)
    /\ UNCHANGED <<catalog, disk, entries, durable, view, handed, acked>>

\* The process dies: its locks are released, what it wrote stays visible.
\* Between a create and its sync this is as harmful as a failed sync.
Kill(c) ==
    /\ pc[c] = "sync" => at[c].level \in Interruptible
    /\ pc[c] = "syncCatalog" => "catalog" \in Interruptible
    /\ Return(c)
    /\ view' = [view EXCEPT ![c] = NONE]
    /\ UNCHANGED <<catalog, disk, entries, durable, handed, acked>>

\* Power is lost: unsynced entries may or may not survive, so may unsynced
\* catalogs, and every process is gone.
PowerLoss ==
    /\ catalog' \in disk
    /\ disk' = {catalog'}
    /\ \E lost \in SUBSET (entries \ durable) :
          /\ entries' = entries \ lost
          /\ durable' = entries \ lost
    /\ handed' = StillHanded(catalog')
    /\ stateLock' = NONE /\ cutover' = NONE
    /\ pc' = [c \in Clients |-> "idle"]
    /\ view' = [c \in Clients |-> NONE]
    /\ next' = [c \in Clients |-> NONE]
    /\ todo' = [c \in Clients |-> {}]
    /\ at' = [c \in Clients |-> NONE]
    /\ purpose' = [c \in Clients |-> "receipt"]
    /\ UNCHANGED acked

-----------------------------------------------------------------------------

\* The steps a client takes once it is inside an operation.
Step(c) ==
    \/ BeginTakeover(c) \/ Takeover(c) \/ Make(c) \/ Sync(c) \/ SyncFails(c)
    \/ Commit(c) \/ SyncCatalog(c) \/ SyncCatalogFails(c) \/ Resync(c)
    \/ ResyncFails(c) \/ Abandon(c)

Operation(c) ==
    \/ Load(c)
    \/ BeginBootstrap(c)
    \/ \E k \in Keys, b \in Bundles, activate \in BOOLEAN : Publish(c, k, b, activate)
    \/ \E k \in Keys \cup {NONE} : Activate(c, k)
    \/ \E k \in Keys : Delete(c, k)
    \/ \E k, new \in Keys : Rename(c, k, new)
    \/ \E k \in Keys, choice \in Selection : SelectProxy(c, k, choice)
    \/ \E k \in Keys : PrepareSelections(c, k)
    \/ \E k \in Keys, fresh \in Secrets : EnsureSecret(c, k, fresh)

Next ==
    \/ \E c \in Clients : Operation(c) \/ Step(c) \/ Kill(c)
    \/ PowerLoss

\* A client that is inside an operation keeps going: every wait has a deadline
\* (lock_timeout) and nothing else in an operation blocks.
Fairness == \A c \in Clients : WF_vars(Step(c))

Spec == Init /\ [][Next]_vars /\ Fairness

-----------------------------------------------------------------------------
(* Properties.                                                             *)

TypeOK ==
    /\ catalog \in Catalog
    /\ disk \subseteq Catalog
    /\ entries \subseteq Entry /\ durable \subseteq entries
    /\ stateLock \in Clients \cup {NONE} /\ cutover \in Clients \cup {NONE}
    /\ pc \in [Clients -> {"idle", "bootstrap", "legacy", "takeover", "make",
                           "sync", "commit", "syncCatalog", "resync"}]
    /\ view \in [Clients -> Catalog \cup {NONE}]
    /\ next \in [Clients -> Catalog \cup {NONE}]
    /\ todo \in [Clients -> SUBSET Revision]
    /\ at \in [Clients -> Entry \cup {NONE}]
    /\ purpose \in [Clients -> {"receipt", "takeover"} \cup Keys]
    /\ handed \in [Keys -> Secrets \cup {NONE}]
    /\ acked \in 0..MaxSequence

\* The active identity always names a profile of the catalog at its current
\* head, and that head can run: publish, activate, rename, delete and takeover
\* together keep a start from ever finding an active profile it must refuse.
ActiveRunnable(cat) ==
    cat.active # NONE =>
        /\ cat.active.key \in Present(cat)
        /\ cat.profiles[cat.active.key].head = cat.active.revision
        /\ cat.active.revision[1] = cat.active.key
        /\ cat.active.revision[2] \in RuntimeReady
ActiveIsRunnableHead == \A cat \in disk \cup {catalog} : ActiveRunnable(cat)

\* Whatever a power loss leaves behind, every head of the surviving catalog
\* can be read: publish_revision syncs a revision before commit names it.
HeadsSurvivePowerLoss ==
    \A cat \in disk : \A r \in Heads(cat) : PathTo(r) \subseteq durable

\* A commit whose receipt reported no durability error is never lost: no
\* catalog a power loss may leave is older than it.
AcknowledgedCommitsSurvive == \A cat \in disk : cat.sequence >= acked

\* A secret that was returned to a caller is the one every surviving catalog
\* holds, for as long as its profile is not deleted or renamed.
ReturnedSecretsSurvive ==
    \A k \in Keys : handed[k] # NONE =>
        \A cat \in disk : cat.profiles[k] # NONE /\ cat.profiles[k].secret = handed[k]

\* A step that replaces the catalog while power stays on.
Committing == \E c \in Clients : pc[c] = "commit" /\ pc'[c] = "syncCatalog"

\* The store implements the compare-and-swap register: an operation commits
\* only if the catalog is still the one its client loaded, so no update is
\* lost, a sequence is used once, and a legacy root is converted once however
\* many clients race for it.
Register == INSTANCE CasRegister
    WITH value <- catalog, survivors <- disk, seen <- view,
         Initial <- {Bare(f) : f \in InitialFormats}
ImplementsRegister == Register!RegisterSpec

\* Persisted selections never change without a new generation, and a
\* generation never goes back, as long as the profile stays: a generation
\* number stands for one set of selections.
GenerationIdentifiesSelections ==
    [][Committing => \A k \in Present(catalog) : catalog'.profiles[k] # NONE =>
          LET old == catalog.profiles[k]
              new == catalog'.profiles[k]
          IN  /\ new.generation >= old.generation
              /\ new.selections # old.selections => new.generation > old.generation]_vars

\* A controller secret is never rotated: once a profile has one, no commit
\* changes it, whatever happened to the sync that followed it.
SecretNeverRotates ==
    [][Committing => \A k \in Present(catalog) :
          (catalog.profiles[k].secret # NONE /\ catalog'.profiles[k] # NONE)
             => catalog'.profiles[k].secret = catalog.profiles[k].secret]_vars

\* An operation that has begun comes to an end.
OperationsEnd == \A c \in Clients : pc[c] # "idle" ~> pc[c] = "idle"
=============================================================================
