---------------------------- MODULE ProviderSync ----------------------------
(***************************************************************************)
(* sync_http_assets, src/src/config_provider.rs: the caches of the remote  *)
(* rule providers of a configuration file are brought up to date before    *)
(* an instance is prepared.  Two preparations in one directory share the   *)
(* caches and take a lock only around each write.                          *)
(*                                                                         *)
(* A file is a slot of the directory: on a file system that folds names    *)
(* two paths may be one slot.  What a body holds is "plain", "wide" (valid *)
(* rules, but two of them exceed what one configuration may expand to) or  *)
(* "bad"; every body has size 1.                                           *)
(***************************************************************************)
EXTENDS Integers, FiniteSets, FiniteSetsExt

CONSTANTS
    Syncs,          \* processes that prepare the configuration
    Remote,         \* HTTP providers, numbers in the order of their names
    LocalProvider,  \* a provider that is a file
    MAX_SOURCE,     \* MAX_SOURCE_BYTES, of one body
    MAX_AGGREGATE,  \* MAX_AGGREGATE_BYTES, of all that a sync reads
    Removals        \* bound: cache files the user removes

ASSUME RemoteAssumption == Remote \subseteq Nat \ {0} /\ LocalProvider \in Nat \ (Remote \cup {0})
ASSUME LimitAssumption == MAX_SOURCE \in Nat \ {0} /\ MAX_AGGREGATE \in Nat \ {0}

VARIABLES
    layout,  \* where the providers' paths lead
    disk,    \* the files: [slot -> file]
    used,    \* inode numbers given out, and files removed
    sync     \* the state of each preparation

syncVars == <<layout, disk, used, sync>>

Source == 0        \* the slot of the configuration file
Slots == {Source, LocalProvider} \cup Remote
Providers == Remote \cup {LocalProvider}
Bodies == {"plain", "wide", "bad"}
Absent == [id |-> 0, body |-> "none", fresh |-> FALSE, by |-> 0, provider |-> 0]
File == [id : Nat, body : Bodies \cup {"none", "source"}, fresh : BOOLEAN,
         by : Syncs \cup {0}, provider : Providers \cup {0}]

Slot(p) ==
    CASE layout = "apart" -> p
      [] layout \in {"alias", "same"} /\ p \in Remote -> Min(Remote)
      [] layout = "local" /\ p = Max(Remote) -> LocalProvider
      [] layout = "source" /\ p = Max(Remote) -> Source
      [] OTHER -> p
Exists(slot) == disk[slot].id # 0

SyncStages == {"idle", "check", "download", "parse", "publish", "ok", "failed"}
Sync == [pc : SyncStages, eager : BOOLEAN, todo : SUBSET Remote, total : Nat,
         ids : SUBSET (Nat \X Providers), seen : BOOLEAN,
         assets : [Remote -> Bodies \cup {"none", "source"}],
         pending : SUBSET Remote, wrote : SUBSET Remote]

SyncTypeOK ==
    /\ layout \in {"apart", "alias", "same", "local", "source"}
    /\ disk \in [Slots -> File]
    /\ used \in [ids : Nat, removed : Nat]
    /\ sync \in [Syncs -> Sync]

IdleSync == [pc |-> "idle", eager |-> FALSE, todo |-> Remote, total |-> 0, ids |-> {},
             seen |-> FALSE, assets |-> [p \in Remote |-> "none"], pending |-> {}, wrote |-> {}]

\* The configuration and the local provider exist, each cache may.
SyncInit ==
    /\ layout \in {"apart", "alias", "same", "local", "source"}
    /\ \E cached \in SUBSET {r \in Remote : Slot(r) \in Remote}, body \in Bodies, fresh \in BOOLEAN :
           disk = [s \in Slots |->
               IF s = Source \/ s = LocalProvider
               THEN [Absent EXCEPT !.id = s + 1, !.body = IF s = Source THEN "source" ELSE "plain"]
               ELSE IF s \in {Slot(r) : r \in cached}
               THEN [Absent EXCEPT !.id = s + 1, !.body = body, !.fresh = fresh]
               ELSE Absent]
    /\ used = [ids |-> Max(Slots) + 1, removed |-> 0]
    /\ sync = [s \in Syncs |-> IdleSync]

-----------------------------------------------------------------------------

StageOf(s) == sync[s].pc
FailCharged(s, charge) ==
    /\ sync' = [sync EXCEPT ![s].pc = "failed", ![s].ids = {}, ![s].total = @ + charge]
    /\ UNCHANGED <<layout, disk, used>>
FailSync(s) == FailCharged(s, 0)

\* reject_source_collision
SourceCollision(p) == Slot(p) = Source

\* Two providers with one path, or with one existing file, and one of them remote.
Collision(p, q) ==
    /\ p # q /\ {p, q} \cap Remote # {}
    /\ (layout = "same" /\ {p, q} \subseteq Remote) \/ (Slot(p) = Slot(q) /\ Exists(Slot(p)))

\* The checks before any network access; the files found are held open.
StartSync(s, eager) ==
    /\ StageOf(s) = "idle"
    /\ IF (\E p, q \in Providers : Collision(p, q)) \/ (\E p \in Remote : SourceCollision(p))
       THEN FailSync(s)
       ELSE /\ sync' = [sync EXCEPT ![s].pc = "check", ![s].eager = eager,
                ![s].total = 1,
                ![s].ids = {<<disk[Slot(p)].id, p>> : p \in {q \in Providers : Exists(Slot(q))}}]
            /\ UNCHANGED <<layout, disk, used>>

-----------------------------------------------------------------------------
(* One provider after the other. *)

Limit(s) == Min({MAX_SOURCE, MAX_AGGREGATE - sync[s].total})

\* The provider's bytes are decided; validate_candidate has accepted them.
Accept(s, p, body, charge, candidate) ==
    LET rest == sync[s].todo \ {p}
    IN  sync' = [sync EXCEPT ![s].todo = rest, ![s].assets[p] = body,
                     ![s].total = @ + charge, ![s].seen = FALSE,
                     ![s].pending = IF candidate THEN @ \cup {p} ELSE @,
                     ![s].pc = IF rest = {} THEN "parse" ELSE "check"]

\* read_cache with what the budget leaves after `charge`, then the validation.
ReadCache(s, p, charge) ==
    LET file == disk[Slot(p)]
    IN  IF file.id = 0 \/ file.body = "bad" \/ sync[s].total + charge >= MAX_AGGREGATE
        THEN FailCharged(s, charge)
        ELSE Accept(s, p, file.body, charge + 1, FALSE) /\ UNCHANGED <<layout, disk, used>>

\* The cache's metadata: fresh bytes are read, else the download begins.
CheckCache(s) ==
    /\ StageOf(s) = "check"
    /\ LET p == Min(sync[s].todo)
       IN  IF SourceCollision(p) THEN FailSync(s)
           ELSE IF Exists(Slot(p)) /\ (~sync[s].eager \/ disk[Slot(p)].fresh)
           THEN ReadCache(s, p, 0)
           ELSE IF Limit(s) = 0 THEN FailSync(s)
           ELSE /\ sync' = [sync EXCEPT ![s].pc = "download", ![s].seen = Exists(Slot(p))]
                /\ UNCHANGED <<layout, disk, used>>

\* download: a body with status 200; a transport error, which costs all that it
\* might have read; another status, which costs what it read; or too large a body.
Downloaded(s) ==
    /\ StageOf(s) = "download"
    /\ \E body \in Bodies :
           IF body = "bad" THEN FailCharged(s, 1)
           ELSE /\ Accept(s, Min(sync[s].todo), body, 1, TRUE)
                /\ UNCHANGED <<layout, disk, used>>
DownloadFails(s) ==
    /\ StageOf(s) = "download"
    /\ \E charge \in {Limit(s), 1} :
           IF sync[s].seen THEN ReadCache(s, Min(sync[s].todo), charge)
           ELSE FailCharged(s, charge)
DownloadTooLarge(s) ==
    /\ StageOf(s) = "download"
    /\ FailSync(s)

-----------------------------------------------------------------------------
(* All of them. *)

\* Config::parse_with_assets, as far as the providers' rules decide it.
Whole(assets) == Cardinality({p \in Remote : assets[p] = "wide"}) <= 1

ParseNothing(s) ==
    /\ StageOf(s) = "parse"
    /\ sync' = [sync EXCEPT ![s].pc = IF sync[s].pending = {} THEN "ok" ELSE "publish"]
    /\ UNCHANGED <<layout, disk, used>>
Parse(s) ==
    /\ StageOf(s) = "parse"
    /\ IF sync[s].pending = {}
       THEN sync' = [sync EXCEPT ![s].pc = "ok", ![s].ids = {}] /\ UNCHANGED <<layout, disk, used>>
       ELSE IF Whole(sync[s].assets)
       THEN sync' = [sync EXCEPT ![s].pc = "publish"] /\ UNCHANGED <<layout, disk, used>>
       ELSE FailSync(s)

\* The next candidate, under .provider-cache.lock: the file that is there now
\* must not be the source, nor a file known to belong to another provider.
Known(s, slot) == {q \in Providers : Exists(slot) /\ <<disk[slot].id, q>> \in sync[s].ids}
WriteCache(s, p) ==
    disk' = [disk EXCEPT ![Slot(p)] = [id |-> used.ids + 1, body |-> sync[s].assets[p],
                                       fresh |-> TRUE, by |-> s, provider |-> p]]
Publish(s) ==
    /\ StageOf(s) = "publish"
    /\ LET p == Min(sync[s].pending)
           last == sync[s].pending = {p}
       IN  IF SourceCollision(p) \/ Known(s, Slot(p)) \ {p} # {}
           THEN FailSync(s)
           ELSE /\ WriteCache(s, p)
                /\ used' = [used EXCEPT !.ids = @ + 1]
                /\ sync' = [sync EXCEPT ![s].wrote = @ \cup {p}, ![s].pending = @ \ {p},
                                ![s].ids = IF last THEN {} ELSE @ \cup {<<used.ids + 1, p>>},
                                ![s].pc = IF last THEN "ok" ELSE @]
                /\ UNCHANGED layout

\* The lock is not had, a write fails, or the new file cannot be opened again:
\* what was written before stays.
PublishFails(s) ==
    /\ StageOf(s) = "publish"
    /\ FailSync(s)
PublishUnheld(s) ==
    /\ StageOf(s) = "publish"
    /\ LET p == Min(sync[s].pending)
       IN  /\ ~SourceCollision(p) /\ Known(s, Slot(p)) \subseteq {p}
           /\ WriteCache(s, p)
           /\ used' = [used EXCEPT !.ids = @ + 1]
           /\ sync' = [sync EXCEPT ![s].wrote = @ \cup {p}, ![s].ids = {}, ![s].pc = "failed"]
           /\ UNCHANGED layout

\* The user removes a cache file while a download is awaited.
RemoveCache(slot) ==
    /\ \E s \in Syncs : StageOf(s) = "download"
    /\ slot \in Remote /\ Exists(slot) /\ used.removed < Removals
    /\ disk' = [disk EXCEPT ![slot] = Absent]
    /\ used' = [used EXCEPT !.removed = @ + 1]
    /\ UNCHANGED <<layout, sync>>

SyncNext ==
    \/ \E s \in Syncs :
           \/ \E eager \in BOOLEAN : StartSync(s, eager)
           \/ CheckCache(s) \/ Downloaded(s) \/ DownloadFails(s) \/ DownloadTooLarge(s)
           \/ Parse(s) \/ Publish(s) \/ PublishFails(s) \/ PublishUnheld(s)
    \/ \E slot \in Slots : RemoveCache(slot)

-----------------------------------------------------------------------------
(* Properties. *)

\* The bytes of all providers have been validated together before the first of
\* them is written: a malformed one later on leaves every cache as it was.
WholeBeforeWrite ==
    \A s \in Syncs : sync[s].wrote # {} =>
        Whole(sync[s].assets) /\ \A p \in Remote : sync[s].assets[p] \notin {"bad", "none"}

\* A sync never writes one provider's bytes over the file that it has itself
\* just written for another, although neither existed when it began.
OwnOutputKept ==
    [][\A s \in Syncs, slot \in Slots :
           (disk'[slot] # disk[slot] /\ disk'[slot].by = s /\ disk[slot].by = s) =>
               disk'[slot].provider = disk[slot].provider]_syncVars

\* The configuration and a local provider keep their bytes, wherever the
\* paths of the remote ones lead.
SourcesKept == disk[Source].body = "source" /\ disk[LocalProvider].by = 0

\* What a sync has charged never exceeds the aggregate limit, so that the
\* difference download and read_cache take of the two never wraps.
BudgetHolds == \A s \in Syncs : sync[s].total <= MAX_AGGREGATE

=============================================================================
