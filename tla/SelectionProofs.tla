-------------------------- MODULE SelectionProofs --------------------------
(***************************************************************************)
(* What an instance publishes and what commands report as applied, for any *)
(* number of commands, groups, revisions and instances.                    *)
(***************************************************************************)
EXTENDS Selection, TLAPS

\* What a selection under way has done so far; the catalog is locked meanwhile.
WorkInv ==
    /\ stateLocked <=> work # NONE
    /\ work # NONE =>
        /\ instance # NONE
        /\ work.next.nonce = instance.nonce /\ work.next.head = instance.head
        /\ work.next.generation > instance.generation
        /\ work.next.generation = catalog.generation /\ work.next.selections = catalog.selections
        /\ work.step \in {"save", "switch"} => work.previous = instance.selections
        /\ work.step = "publish" => instance.selections = work.next.selections
        /\ work.step # "save" => work.next \in files
        /\ work.step = "discard" => instance.selections = work.next.selections

\* What the descriptor says of the instance.
DescriptorInv ==
    /\ descriptor # NONE => descriptor \in files /\ descriptor.nonce <= launched
    /\ captured # NONE => captured.nonce <= launched
    /\ instance # NONE =>
        /\ descriptor # NONE
        /\ descriptor.nonce = instance.nonce /\ descriptor.head = instance.head
        /\ IF work = NONE \/ work.step \in {"save", "switch"}
           THEN descriptor.generation = instance.generation /\ descriptor.selections = instance.selections
           ELSE IF work.step = "publish"
           THEN descriptor.generation = instance.generation /\ descriptor.selections = work.previous
           ELSE descriptor = work.next

Applying == {"committed", "observed", "waiting", "answered"}

\* What a command has loaded, committed and seen.
CommandInv(v) ==
    /\ v.pc # "done" => v.outcome = NONE
    /\ v.pc \in Applying \cup {"loaded"} => v.view # NONE /\ v.view.head # NONE
    /\ v.pc \in Applying =>
        /\ v.group # NONE /\ v.selections # NONE /\ v.selections[v.group] # NONE
        /\ v.generation > 0
    /\ v.pc \in Applying \ {"committed"} => v.seen # NONE

\* Every generation that somebody refers to, with the selections it stands for.
Claim(s) == <<s.generation, s.selections>>
Claims ==
    {Claim(catalog)} \cup {Claim(s) : s \in {descriptor, captured} \ {NONE}}
        \cup {Claim(client[c]) : c \in {c \in Clients : client[c].pc \in Applying}}

\* A generation stands for one choice of selections, and none is ahead of the catalog's.
Unambiguous ==
    /\ \A x \in Claims : x[1] <= catalog.generation
    /\ \A x, y \in Claims : x[1] = y[1] => x = y

SelectionInv ==
    /\ TypeOK /\ WorkInv /\ DescriptorInv
    /\ \A c \in Clients : CommandInv(client[c])
    /\ ~reborn => Unambiguous
-----------------------------------------------------------------------------
(* Claims. *)

\* A claim is a generation and selections.
LEMMA ClaimsAreTyped ==
    ASSUME TypeOK
    PROVE  /\ Claims \subseteq (0 .. MaxGeneration) \X Selections \cup {<<g, NONE>> : g \in 0 .. MaxGeneration}
           /\ Claim(catalog) \in Claims
           /\ catalog.generation \in 0 .. MaxGeneration /\ catalog.selections \in Selections
<1>1. ASSUME NEW s \in Catalog PROVE s.generation \in 0 .. MaxGeneration /\ s.selections \in Selections
  BY DEF Catalog
<1>2. ASSUME NEW s \in Snapshot PROVE s.generation \in 0 .. MaxGeneration /\ s.selections \in Selections
  BY DEF Snapshot
<1>3. ASSUME NEW s \in Command PROVE s.generation \in 0 .. MaxGeneration /\ s.selections \in Selections \cup {NONE}
  BY DEF Command
<1>4. catalog \in Catalog /\ {descriptor, captured} \ {NONE} \subseteq Snapshot /\ client \in [Clients -> Command]
  BY DEF TypeOK
<1> QED BY <1>1, <1>2, <1>3, <1>4 DEF Claims, Claim

\* No new claim.
LEMMA ClaimsStay ==
    ASSUME TypeOK, Unambiguous, catalog'.generation = catalog.generation, Claims' \subseteq Claims
    PROVE  Unambiguous'
BY DEF Unambiguous

\* The only new claim is that of the catalog's next generation.
LEMMA ClaimsGrow ==
    ASSUME TypeOK, TypeOK', Unambiguous, catalog'.generation > catalog.generation,
           Claims' \subseteq Claims \cup {Claim(catalog)'}
    PROVE  Unambiguous'
<1>1. /\ catalog.generation \in Nat /\ \A x \in Claims : x[1] \in Nat
      /\ catalog'.generation \in Nat /\ Claim(catalog)'[1] = catalog'.generation
  BY BoundsAssumption, ClaimsAreTyped DEF TypeOK, Catalog, Claim
<1>2. \A x \in Claims : x[1] < catalog'.generation
  BY <1>1 DEF Unambiguous
<1> QED BY <1>1, <1>2 DEF Unambiguous
-----------------------------------------------------------------------------
(* Commands. *)

\* What the steps of a command leave alone.
LEMMA DaemonStays ==
    ASSUME SelectionInv, UNCHANGED <<catalog, daemonVars>>
    PROVE  WorkInv' /\ DescriptorInv'
BY DEF SelectionInv, WorkInv, DescriptorInv, daemonVars

\* A command that moves on while descriptor and catalog stay.
LEMMA CommandChanges ==
    ASSUME SelectionInv, NEW c \in Clients, NEW s \in Command, client' = [client EXCEPT ![c] = s],
           CommandInv(s), s.pc \in Applying => Claim(s) \in Claims,
           UNCHANGED <<catalog, reborn, descriptor, captured>>, TypeOK', WorkInv', DescriptorInv'
    PROVE  SelectionInv'
<1>1. \A d \in Clients : client'[d] = IF d = c THEN s ELSE client[d]
  BY DEF SelectionInv, TypeOK
<1>2. ASSUME NEW d \in Clients PROVE CommandInv(client[d])'
  BY <1>1 DEF SelectionInv, CommandInv
<1>3. Claims' \subseteq Claims
  BY <1>1 DEF Claims, Claim
<1>4. ~reborn' => Unambiguous'
  BY <1>3, ClaimsStay DEF SelectionInv
<1> QED BY Zenon, <1>2, <1>4 DEF SelectionInv

\* A command that moves on without a commit.
LEMMA CommandMoves ==
    ASSUME SelectionInv, NEW c \in Clients, NEW s \in Command, client' = [client EXCEPT ![c] = s],
           CommandInv(s), s.pc \in Applying => Claim(s) \in Claims,
           UNCHANGED <<catalog, reborn, daemonVars>>,
           requests' \subseteq Requests, replies' \in [Clients -> BOOLEAN \cup {NONE}]
    PROVE  SelectionInv'
<1>1. TypeOK'
  BY Zenon DEF SelectionInv, TypeOK, daemonVars
<1> QED BY Zenon, <1>1, DaemonStays, CommandChanges DEF daemonVars

\* What is left of a command that ends.
LEMMA Ended ==
    ASSUME SelectionInv, NEW c \in Clients, NEW outcome \in Outcomes, Ends(c, outcome)
    PROVE  \E s \in Command : /\ s.pc \notin Applying /\ CommandInv(s)
                              /\ client' = [client EXCEPT ![c] = s]
<1>1. PICK v \in Command : v = client[c]
  BY DEF SelectionInv, TypeOK
<1>2. PICK s : s = [Idle EXCEPT !.pc = "done", !.outcome = outcome, !.group = v.group, !.selections = v.selections]
  OBVIOUS
<1>3. s \in Command /\ s.pc = "done"
  <2>1. s = [pc |-> "done", view |-> NONE, group |-> v.group, selections |-> v.selections,
             generation |-> 0, seen |-> NONE, outcome |-> outcome]
    BY Zenon, <1>2 DEF Idle
  <2>3. 0 \in 0 .. MaxGeneration
    BY BoundsAssumption
  <2>2. v.group \in Groups \cup {NONE} /\ v.selections \in Selections \cup {NONE}
    BY DEF Command
  <2> QED BY <2>1, <2>2, <2>3 DEF Command
<1>4. client' = [client EXCEPT ![c] = s]
  BY <1>1, <1>2 DEF Ends, Step
<1> QED BY Zenon, <1>3, <1>4 DEF CommandInv, Applying

\* A command that ends.
LEMMA CommandEnds ==
    ASSUME SelectionInv, NEW c \in Clients, NEW outcome \in Outcomes, Ends(c, outcome),
           UNCHANGED <<catalog, reborn, daemonVars>>,
           requests' \subseteq Requests, replies' \in [Clients -> BOOLEAN \cup {NONE}]
    PROVE  SelectionInv'
<1>1. PICK s \in Command : s.pc \notin Applying /\ CommandInv(s) /\ client' = [client EXCEPT ![c] = s]
  BY Zenon, Ended
<1> QED BY Zenon, <1>1, CommandMoves

\* A command that gives up: its request and the work on it go on without it.
LEMMA TimeoutInv ==
    ASSUME SelectionInv, NEW c \in Clients, RequestTimeout(c)
    PROVE  SelectionInv'
<1>1. "controller_unavailable" \in Outcomes /\ Ends(c, "controller_unavailable")
  BY Zenon DEF Outcomes, RequestTimeout
<1>2. PICK s \in Command : s.pc \notin Applying /\ CommandInv(s) /\ client' = [client EXCEPT ![c] = s]
  BY Zenon, <1>1, Ended
<1>3. requests' \subseteq Requests
  <2>1. ASSUME NEW m \in Requests PROVE Abandoned(c, m) \in Requests
    BY DEF Abandoned, Requests
  <2> QED BY Zenon, <2>1 DEF RequestTimeout, SelectionInv, TypeOK
<1>4. \/ work = NONE /\ work' = NONE
      \/ /\ work \in Works /\ work' \in Works /\ work # NONE /\ work' # NONE
         /\ work'.step = work.step /\ work'.next = work.next /\ work'.previous = work.previous
  <2>1. ASSUME NEW w \in Works
        PROVE  /\ Abandoned(c, w) \in Works /\ Abandoned(c, w).step = w.step
               /\ Abandoned(c, w).next = w.next /\ Abandoned(c, w).previous = w.previous
    BY DEF Abandoned, Works
  <2>2. /\ work \in Works \cup {NONE} /\ NONE \notin Works
        /\ work' = IF work = NONE THEN NONE ELSE Abandoned(c, work)
    BY Zenon, NoneIsNoValue DEF RequestTimeout, SelectionInv, TypeOK
  <2> QED BY Zenon, <2>1, <2>2
<1>5. TypeOK'
  <2>1. client' \in [Clients -> Command] /\ work' \in Works \cup {NONE}
    BY Zenon, <1>2, <1>4 DEF SelectionInv, TypeOK
  <2> QED BY Zenon, <1>3, <2>1 DEF RequestTimeout, SelectionInv, TypeOK
<1>6. WorkInv' /\ DescriptorInv'
  BY Zenon, <1>4 DEF RequestTimeout, SelectionInv, WorkInv, DescriptorInv
<1> QED BY Zenon, <1>2, <1>5, <1>6, CommandChanges DEF RequestTimeout

\* The steps of zc proxy select before its commit.
LEMMA LoadInv ==
    ASSUME SelectionInv, NEW c \in Clients, Load(c) \/ SelectFails(c) \/ Return(c)
    PROVE  SelectionInv'
<1>0. TypeOK
  BY DEF SelectionInv
<1>1. CASE Load(c)
  <2>1. PICK s : s = [Idle EXCEPT !.pc = "loaded", !.view = catalog]
    OBVIOUS
  <2>2. s \in Command /\ s.pc = "loaded" /\ s.view = catalog /\ s.outcome = NONE
    <3>1. s = [pc |-> "loaded", view |-> catalog, group |-> NONE, selections |-> NONE,
               generation |-> 0, seen |-> NONE, outcome |-> NONE]
      BY Zenon, <2>1 DEF Idle
    <3>3. 0 \in 0 .. MaxGeneration
      BY BoundsAssumption
    <3>2. catalog \in Catalog
      BY <1>0 DEF TypeOK
    <3> QED BY <3>1, <3>2, <3>3 DEF Command
  <2>3. CommandInv(s) /\ s.pc \notin Applying
    BY <1>0, <1>1, <2>2, NoneIsNoValue DEF CommandInv, Applying, Load, TypeOK
  <2>4. replies' \in [Clients -> BOOLEAN \cup {NONE}] /\ requests' \subseteq Requests
    BY <1>0, <1>1 DEF Load, TypeOK
  <2> QED BY Zenon, <1>1, <2>1, <2>2, <2>3, <2>4, CommandMoves DEF Load, Step
<1>2. CASE SelectFails(c)
  BY <1>0, <1>2, CommandEnds DEF SelectFails, Outcomes, TypeOK
<1>3. CASE Return(c)
  <2>1. Idle \in Command /\ CommandInv(Idle) /\ Idle.pc \notin Applying
    BY BoundsAssumption DEF Idle, Command, CommandInv, Applying
  <2> QED BY Zenon, <1>0, <1>3, <2>1, CommandMoves DEF Return, Step, TypeOK
<1> QED BY <1>1, <1>2, <1>3

\* apply_selection: what is observed, sent, answered and verified.
LEMMA ApplySelectionInv ==
    ASSUME SelectionInv, NEW c \in Clients,
           ObserveRuntime(c) \/ Send(c) \/ Receive(c) \/ Verify(c)
    PROVE  SelectionInv'
<1>0. PICK v \in Command : v = client[c] /\ CommandInv(v)
  BY DEF SelectionInv, TypeOK
<1>t. requests \subseteq Requests /\ replies \in [Clients -> BOOLEAN \cup {NONE}] /\ descriptor \in Snapshot \cup {NONE}
  BY Zenon DEF SelectionInv, TypeOK
<1>m. ASSUME NEW s \in Command, v.pc \in Applying, CommandInv(s), s.generation = v.generation,
             s.selections = v.selections, client' = [client EXCEPT ![c] = s],
             UNCHANGED <<catalog, reborn, daemonVars, replies>>, requests' \subseteq Requests
      PROVE  SelectionInv'
  <2>1. Claim(s) \in Claims
    BY Zenon, <1>0, <1>m DEF Claims, Claim
  <2> QED BY Zenon, <1>m, <1>t, <2>1, CommandMoves
<1>1. CASE ObserveRuntime(c)
  <2>1. CASE \E outcome \in Outcomes : Ends(c, outcome)
    BY Zenon, <1>1, <1>t, <2>1, CommandEnds DEF ObserveRuntime
  <2>2. CASE Observed # NONE /\ Step(c, [client[c] EXCEPT !.pc = "observed", !.seen = Observed])
    <3>1. PICK s : s = [v EXCEPT !.pc = "observed", !.seen = descriptor]
      OBVIOUS
    <3>2. Observed = descriptor /\ descriptor \in Snapshot
      BY <2>2, <1>t DEF Observed
    <3>3. /\ s \in Command /\ s.pc = "observed" /\ s.seen = descriptor
          /\ s.generation = v.generation /\ s.selections = v.selections /\ s.group = v.group
          /\ s.view = v.view /\ s.outcome = v.outcome
      BY Zenon, <3>1, <3>2 DEF Command
    <3>4. CommandInv(s) /\ v.pc \in Applying
      BY Zenon, <1>0, <1>1, <2>2, <3>2, <3>3 DEF CommandInv, Applying, ObserveRuntime
    <3> QED BY Zenon, <1>0, <1>1, <1>t, <1>m, <2>2, <3>1, <3>2, <3>3, <3>4 DEF ObserveRuntime, Step
  <2> QED BY Zenon, <1>1, <2>1, <2>2 DEF ObserveRuntime, Outcomes
<1>2. CASE Send(c)
  <2>1. CASE UNCHANGED requests /\ (Ends(c, "instance_changed") \/ Ends(c, "runtime_unverifiable"))
    BY Zenon, <1>2, <1>t, <2>1, CommandEnds DEF Send, Outcomes
  <2>2. ASSUME NEW g \in First(c), Step(c, [client[c] EXCEPT !.pc = "waiting"]),
               requests' = requests \cup
                  {[for |-> c, nonce |-> client[c].seen.nonce, head |-> client[c].view.head,
                    generation |-> client[c].generation, group |-> g, proxy |-> client[c].selections[g]]}
        PROVE  SelectionInv'
    <3>1. PICK s : s = [v EXCEPT !.pc = "waiting"]
      BY Zenon
    <3>2. /\ s \in Command /\ s.pc = "waiting" /\ s.seen = v.seen
          /\ s.generation = v.generation /\ s.selections = v.selections /\ s.group = v.group
          /\ s.view = v.view /\ s.outcome = v.outcome
      BY Zenon, <3>1 DEF Command
    <3>3. CommandInv(s) /\ v.pc = "observed"
      BY Zenon, <1>0, <1>2, <3>2 DEF CommandInv, Applying, Send
    <3>4. v.seen \in Snapshot /\ v.view \in Catalog /\ v.view.head # NONE /\ v.group \in Groups
          /\ v.selections \in Selections /\ v.selections[v.group] # NONE /\ v.generation > 0
          /\ v.generation \in 0 .. MaxGeneration
      BY Zenon, <1>0, <3>3 DEF CommandInv, Command, Applying
    <3>5. v.seen.nonce \in 1 .. MaxInstances /\ v.view.head \in Heads /\ v.generation \in 1 .. MaxGeneration
      BY <3>4, BoundsAssumption DEF Snapshot, Catalog
    <3>6. g \in Groups /\ v.selections[g] \in Proxies
      BY Zenon, <1>0, <2>2, <3>4 DEF First, Selections
    <3>7. requests' \subseteq Requests
      BY <1>0, <1>t, <2>2, <3>5, <3>6 DEF Requests
    <3> QED BY Zenon, <1>0, <1>2, <1>m, <2>2, <3>1, <3>2, <3>3, <3>7 DEF Send, Step, Applying
  <2> QED BY Zenon, <1>2, <2>1, <2>2 DEF Send
<1>4. CASE Receive(c)
  <2>1. CASE Ends(c, "controller_rejected")
    BY <1>4, <1>t, <2>1, CommandEnds DEF Receive, Outcomes
  <2>2. CASE Step(c, [client[c] EXCEPT !.pc = "answered"])
    <3>1. PICK s : s = [v EXCEPT !.pc = "answered"]
      BY Zenon
    <3>3. /\ s \in Command /\ s.pc = "answered" /\ s.seen = v.seen
          /\ s.generation = v.generation /\ s.selections = v.selections /\ s.group = v.group
          /\ s.view = v.view /\ s.outcome = v.outcome
      BY Zenon, <3>1 DEF Command
    <3>4. CommandInv(s) /\ v.pc \in Applying
      BY <1>0, <1>4, <3>3 DEF CommandInv, Applying, Receive
    <3> QED BY Zenon, <1>0, <1>4, <1>t, <1>m, <2>2, <3>1, <3>3, <3>4 DEF Receive, Step
  <2> QED BY <1>4, <2>1, <2>2 DEF Receive
<1>5. CASE Verify(c)
  <2>1. Verified(c) \in Outcomes
    BY DEF Verified, Outcomes
  <2> QED BY <1>5, <1>t, <2>1, CommandEnds DEF Verify
<1> QED BY <1>1, <1>2, <1>4, <1>5
-----------------------------------------------------------------------------
(* Commits. *)

\* A commit stores what it is given under the next version.
LEMMA Committed ==
    ASSUME catalog \in Catalog, NEW next \in Catalog, Commit(next)
    PROVE  /\ catalog' \in Catalog /\ catalog'.head = next.head
           /\ catalog'.generation = next.generation /\ catalog'.selections = next.selections
<1>1. catalog.version + 1 \in 0 .. MaxCommits
  BY BoundsAssumption DEF Catalog, Commit
<1> QED BY Zenon, <1>1 DEF Commit, Catalog

\* No selection is under way when the catalog changes.
LEMMA CommitKeeps ==
    ASSUME SelectionInv, ~stateLocked, catalog' \in Catalog, UNCHANGED <<daemonVars, requests, replies>>,
           client' \in [Clients -> Command], reborn' \in BOOLEAN
    PROVE  TypeOK' /\ WorkInv' /\ DescriptorInv'
<1>1. TypeOK'
  BY Zenon DEF SelectionInv, TypeOK, daemonVars
<1>2. work = NONE /\ work' = NONE /\ ~stateLocked'
  BY Zenon DEF SelectionInv, WorkInv, daemonVars
<1> QED BY <1>1, <1>2 DEF SelectionInv, WorkInv, DescriptorInv, daemonVars

\* Store::select: the new selections get a generation of their own.
LEMMA SelectInv ==
    ASSUME SelectionInv, NEW c \in Clients, NEW g \in Groups, NEW p \in Proxies, Select(c, g, p)
    PROVE  SelectionInv'
<1>0. PICK v \in Command : v = client[c] /\ CommandInv(v) /\ v.pc = "loaded"
  BY DEF SelectionInv, TypeOK, Select
<1>1. PICK selections : selections = [catalog.selections EXCEPT ![g] = p]
  BY Zenon
<1>2. PICK next : next = [catalog EXCEPT !.generation = catalog.generation + 1, !.selections = selections]
  BY Zenon
<1>3. /\ catalog \in Catalog /\ catalog.generation \in 0 .. MaxGeneration /\ catalog.selections \in Selections
      /\ catalog.generation + 1 \in 0 .. MaxGeneration
  BY BoundsAssumption DEF SelectionInv, TypeOK, Catalog, Select
<1>4. selections \in Selections /\ selections[g] = p
  BY <1>1, <1>3 DEF Selections
<1>5. next \in Catalog /\ next.generation = catalog.generation + 1 /\ next.selections = selections
  BY Zenon, <1>2, <1>3, <1>4 DEF Catalog
<1>6. Commit(next)
  BY <1>1, <1>2 DEF Select, NextGeneration
<1>7. /\ catalog' \in Catalog /\ catalog'.generation = catalog.generation + 1
      /\ catalog'.selections = selections
  BY <1>3, <1>5, <1>6, Committed
<1>8. PICK s : s = [v EXCEPT !.pc = "committed", !.group = g, !.selections = selections,
                             !.generation = catalog.generation + 1]
  OBVIOUS
<1>9. /\ s \in Command /\ s.pc = "committed" /\ s.group = g /\ s.selections = selections
      /\ s.generation = catalog.generation + 1 /\ s.view = v.view /\ s.outcome = v.outcome
  BY Zenon, <1>3, <1>4, <1>8 DEF Command
<1>10. client' = [client EXCEPT ![c] = s]
  BY Zenon, <1>0, <1>1, <1>8 DEF Select, Step, NextGeneration
<1>11. client' \in [Clients -> Command] /\ \A d \in Clients : client'[d] = IF d = c THEN s ELSE client[d]
  BY Zenon, <1>9, <1>10 DEF SelectionInv, TypeOK
<1>12. TypeOK' /\ WorkInv' /\ DescriptorInv'
  BY Zenon, <1>6, <1>7, <1>11, CommitKeeps DEF Select, Commit, SelectionInv, TypeOK
<1>13. ASSUME NEW d \in Clients PROVE CommandInv(client[d])'
  <2>1. CommandInv(s)
    <3>1. s.generation > 0 /\ s.selections # NONE /\ s.group # NONE /\ s.selections[s.group] # NONE
      BY <1>3, <1>4, <1>9, NoneAssumption, NoneIsNoValue
    <3> QED BY Zenon, <1>0, <1>9, <3>1 DEF CommandInv, Applying
  <2> QED BY ZenonT(40), <1>11, <2>1 DEF SelectionInv, CommandInv
<1>14. ~reborn' => Unambiguous'
  <2>1. Claims' \subseteq Claims \cup {Claim(catalog)'}
    BY <1>7, <1>9, <1>11 DEF Claims, Claim, Select, daemonVars
  <2>2. catalog'.generation > catalog.generation /\ UNCHANGED reborn
    BY <1>3, <1>7 DEF Select
  <2> QED BY Zenon, <1>12, <2>1, <2>2, ClaimsGrow DEF SelectionInv
<1> QED BY <1>12, <1>13, <1>14 DEF SelectionInv

\* config update, delete and load.
LEMMA CatalogInv ==
    ASSUME SelectionInv, Delete \/ \E h \in Heads : Republish(h) \/ Import(h)
    PROVE  SelectionInv'
<1>0. /\ catalog \in Catalog /\ catalog.generation \in 0 .. MaxGeneration /\ catalog.selections \in Selections
      /\ NoSelection \in Selections /\ 0 \in 0 .. MaxGeneration
  BY BoundsAssumption DEF SelectionInv, TypeOK, Catalog, NoSelection, Selections
<1>1. ASSUME NEW next \in Catalog, Commit(next), UNCHANGED <<daemonVars, requests, replies, client>>,
             reborn' \in BOOLEAN,
             ~reborn' => /\ ~reborn
                         /\ \/ next.generation = catalog.generation /\ next.selections = catalog.selections
                            \/ next.generation > catalog.generation
      PROVE  SelectionInv'
  <2>1. /\ catalog' \in Catalog /\ catalog'.generation = next.generation
        /\ catalog'.selections = next.selections
    BY Zenon, <1>0, <1>1, Committed
  <2>2. TypeOK' /\ WorkInv' /\ DescriptorInv'
    BY Zenon, <1>1, <2>1, CommitKeeps DEF Commit, SelectionInv, TypeOK
  <2>3. ASSUME NEW d \in Clients PROVE CommandInv(client[d])'
    BY Zenon, <1>1 DEF SelectionInv, CommandInv
  <2>4. Claims' \subseteq Claims \cup {Claim(catalog)'}
    BY <1>1 DEF Claims, Claim, daemonVars
  <2>5. ~reborn' => Unambiguous'
    <3>1. CASE next.generation = catalog.generation /\ next.selections = catalog.selections
      <4>1. Claim(catalog)' = Claim(catalog)
        BY Zenon, <2>1, <3>1 DEF Claim
      <4>2. Claims' \subseteq Claims
        BY <2>4, <4>1 DEF Claims
      <4> QED BY <1>1, <2>1, <3>1, <4>2, ClaimsStay DEF SelectionInv
    <3>2. CASE next.generation > catalog.generation
      BY <1>1, <2>1, <2>2, <2>4, <3>2, ClaimsGrow DEF SelectionInv
    <3> QED BY <1>1, <3>1, <3>2
  <2> QED BY <2>2, <2>3, <2>5 DEF SelectionInv
<1>2. CASE Delete
  <2>1. PICK next : next = [catalog EXCEPT !.head = NONE, !.generation = 0, !.selections = NoSelection]
    OBVIOUS
  <2>2. next \in Catalog
    BY Zenon, <1>0, <2>1 DEF Catalog
  <2> QED BY <1>1, <1>2, <2>1, <2>2 DEF Delete
<1>3. ASSUME NEW h \in Heads, Import(h) PROVE SelectionInv'
  <2>1. PICK next : next = [catalog EXCEPT !.head = h]
    BY Zenon
  <2>2. next \in Catalog /\ next.generation = catalog.generation /\ next.selections = catalog.selections
    BY Zenon, <1>0, <2>1 DEF Catalog
  <2> QED BY Zenon, <1>1, <1>3, <2>1, <2>2 DEF Import, SelectionInv, TypeOK
<1>4. ASSUME NEW h \in Heads, Republish(h) PROVE SelectionInv'
  <2>1. PICK dropped : dropped = IF Retained(h) = catalog.selections THEN 0 ELSE 1
    OBVIOUS
  <2>2. PICK next : next = [catalog EXCEPT !.head = h, !.generation = catalog.generation + dropped,
                                           !.selections = Retained(h)]
    OBVIOUS
  <2>3. Retained(h) \in Selections
    BY <1>0, OffersAssumption DEF Retained, Selections
  <2>4. catalog.generation + dropped \in 0 .. MaxGeneration
    <3>1. dropped \in {0, 1}
      BY <2>1
    <3>2. catalog.generation + dropped <= MaxGeneration
      BY <1>4, <2>1, Zenon DEF Republish
    <3> QED BY <1>0, <3>1, <3>2, BoundsAssumption
  <2>5. /\ next \in Catalog /\ next.generation = catalog.generation + dropped
        /\ next.selections = Retained(h)
    BY Zenon, <1>0, <2>2, <2>3, <2>4 DEF Catalog
  <2>6. \/ next.generation = catalog.generation /\ next.selections = catalog.selections
        \/ next.generation > catalog.generation
    BY <1>0, <2>1, <2>5
  <2> QED BY Zenon, <1>1, <1>4, <2>1, <2>2, <2>5, <2>6 DEF Republish, SelectionInv, TypeOK
<1> QED BY <1>2, <1>3, <1>4
-----------------------------------------------------------------------------
(* The instance. *)

\* Steps of the instance refer to generations that were referred to before.
LEMMA InstanceMoves ==
    ASSUME SelectionInv, UNCHANGED <<catalog, reborn, client>>, TypeOK', WorkInv', DescriptorInv',
           descriptor' # NONE => Claim(descriptor)' \in Claims,
           captured' # NONE => Claim(captured)' \in Claims
    PROVE  SelectionInv'
<1>1. ASSUME NEW d \in Clients PROVE CommandInv(client[d])'
  BY Zenon DEF SelectionInv, CommandInv
<1>2. Claims' \subseteq Claims
  BY DEF Claims, Claim
<1>3. ~reborn' => Unambiguous'
  BY <1>2, ClaimsStay DEF SelectionInv
<1> QED BY Zenon, <1>1, <1>3 DEF SelectionInv

\* Descriptor and captured snapshot are referred to.
LEMMA PublishedClaims ==
    /\ descriptor # NONE => Claim(descriptor) \in Claims
    /\ captured # NONE => Claim(captured) \in Claims
    /\ Claim(catalog) \in Claims
BY DEF Claims

\* An answer is delivered to the command that waits for it, or to nobody.
LEMMA ReplyTyped ==
    ASSUME TypeOK, NEW c, NEW ok \in BOOLEAN, Reply(c, ok)
    PROVE  replies' \in [Clients -> BOOLEAN \cup {NONE}]
BY Zenon DEF TypeOK, Reply

\* Control::select: a request that agrees with instance and catalog is taken up
\* under the state lock, any other is refused.
LEMMA AcceptInv ==
    ASSUME SelectionInv, NEW m \in requests, Accept(m) \/ Lose(m)
    PROVE  SelectionInv'
<1>0. TypeOK /\ m \in Requests /\ m.for \in Clients \cup {NONE} /\ requests \ {m} \subseteq Requests
      /\ m.generation \in 0 .. MaxGeneration
  BY BoundsAssumption DEF SelectionInv, TypeOK, Requests
<1>1. CASE Lose(m)
  <2>1. TypeOK' /\ UNCHANGED <<catalog, daemonVars>>
    BY Zenon, <1>0, <1>1 DEF Lose, TypeOK, daemonVars
  <2> QED BY <1>1, <2>1, DaemonStays, InstanceMoves, PublishedClaims DEF Lose, daemonVars, Claim
<1>2. CASE Accept(m) /\ UNCHANGED <<work, stateLocked>> /\ Reply(m.for, FALSE)
  <2>1. replies' \in [Clients -> BOOLEAN \cup {NONE}]
    BY ZenonT(40), <1>0, <1>2, ReplyTyped
  <2>2. TypeOK' /\ UNCHANGED <<catalog, daemonVars>>
    BY Zenon, <1>0, <1>2, <2>1 DEF Accept, TypeOK, daemonVars
  <2> QED BY <1>2, <2>2, DaemonStays, InstanceMoves, PublishedClaims DEF Accept, daemonVars, Claim
<1>3. CASE Accept(m) /\ Acceptable(m) /\ UNCHANGED replies
           /\ work' = [step |-> "save", for |-> m.for, previous |-> instance.selections,
                      next |-> [nonce |-> instance.nonce, head |-> instance.head,
                                generation |-> m.generation,
                                selections |-> catalog.selections]]
           /\ stateLocked' = TRUE
  <2>1. /\ instance \in Instance /\ catalog \in Catalog /\ work = NONE
        /\ catalog.selections \in Selections /\ instance.selections \in Selections
        /\ instance.nonce \in 1 .. MaxInstances /\ instance.head \in Heads
    BY <1>0, <1>3 DEF Accept, TypeOK, Instance, Catalog
  <2>2. work' \in Works
    BY Zenon, <1>0, <1>3, <2>1 DEF Works, Snapshot
  <2>3. TypeOK'
    BY Zenon, <1>0, <1>3, <2>2 DEF Accept, TypeOK
  <2>4. WorkInv'
    BY ZenonT(40), <1>3, <2>1, <2>2, NoneIsNoValue DEF WorkInv, Accept, Acceptable
  <2>5. DescriptorInv'
    BY <1>3, <2>1, <2>2, NoneIsNoValue DEF DescriptorInv, SelectionInv, Accept
  <2> QED BY Zenon, <1>3, <2>3, <2>4, <2>5, InstanceMoves, PublishedClaims DEF Accept, Claim
<1> QED BY Zenon, <1>1, <1>2, <1>3 DEF Accept

\* Saving, switching, publishing and discarding, and what is undone when one fails.
LEMMA ApplyInv ==
    ASSUME SelectionInv, Apply
    PROVE  SelectionInv'
<1>0. PICK w \in Works : w = work /\ work # NONE
  BY Zenon DEF SelectionInv, TypeOK, Apply, SaveSnapshot, PrepareFails, SwitchSelections, Publish,
         PublishFails, DiscardPrevious, At
<1>1. PICK i \in Instance : i = instance /\ instance # NONE
  BY <1>0 DEF SelectionInv, TypeOK, WorkInv
<1>2. /\ w.for \in Clients \cup {NONE} /\ w.next \in Snapshot /\ w.previous \in Selections
      /\ w.next.generation \in 0 .. MaxGeneration /\ w.next.selections \in Selections
  BY DEF Works, Snapshot
<1>t. TypeOK /\ WorkInv /\ DescriptorInv
  BY DEF SelectionInv
<1>r. ASSUME NEW ok \in BOOLEAN, Reply(work.for, ok)
      PROVE  replies' \in [Clients -> BOOLEAN \cup {NONE}]
  BY Zenon, <1>t, <1>r, ReplyTyped
<1>3. CASE SaveSnapshot
  <2>1. PICK s : s = [w EXCEPT !.step = "switch"]
    BY Zenon
  <2>2. /\ s \in Works /\ s.step = "switch" /\ s.next = w.next /\ s.previous = w.previous
        /\ work' = s /\ s # NONE /\ w.step = "save" /\ files' = files \cup {w.next}
    BY Zenon, <1>0, <1>2, <1>3, <2>1, NoneIsNoValue DEF Works, SaveSnapshot, At
  <2>3. TypeOK'
    BY Zenon, <1>t, <1>2, <1>3, <2>2 DEF TypeOK, SaveSnapshot
  <2>4. WorkInv' /\ DescriptorInv'
    BY ZenonT(40), <1>t, <1>0, <1>3, <2>2 DEF WorkInv, DescriptorInv, SaveSnapshot
  <2> QED BY <1>3, <2>3, <2>4, InstanceMoves, PublishedClaims DEF SaveSnapshot, Claim
<1>4. CASE PrepareFails
  <2>1. replies' \in [Clients -> BOOLEAN \cup {NONE}]
    BY Zenon, <1>4, <1>r DEF PrepareFails
  <2>2. TypeOK'
    BY Zenon, <1>t, <1>4, <2>1 DEF TypeOK, PrepareFails
  <2>3. WorkInv' /\ DescriptorInv'
    BY <1>t, <1>4 DEF WorkInv, DescriptorInv, PrepareFails, At
  <2> QED BY <1>4, <2>2, <2>3, InstanceMoves, PublishedClaims DEF PrepareFails, Claim
<1>5. CASE SwitchSelections
  <2>1. PICK s : s = [w EXCEPT !.step = "publish"]
    BY Zenon
  <2>2. /\ s \in Works /\ s.step = "publish" /\ s.next = w.next /\ s.previous = w.previous
        /\ work' = s /\ s # NONE /\ w.step = "switch"
    BY <1>0, <1>2, <1>5, <2>1, NoneIsNoValue DEF Works, SwitchSelections, At
  <2>3. PICK j : j = [i EXCEPT !.selections = w.next.selections]
    BY Zenon
  <2>4. /\ j \in Instance /\ j.nonce = i.nonce /\ j.head = i.head /\ j.generation = i.generation
        /\ j.selections = w.next.selections /\ instance' = j /\ j # NONE
    BY <1>0, <1>1, <1>2, <1>5, <2>3, NoneIsNoValue DEF Instance, SwitchSelections
  <2>5. TypeOK'
    BY Zenon, <1>t, <1>5, <2>2, <2>4 DEF TypeOK, SwitchSelections
  <2>6. WorkInv'
    BY <1>t, <1>0, <1>1, <1>5, <2>2, <2>4 DEF WorkInv, SwitchSelections
  <2>7. DescriptorInv'
    BY <1>t, <1>0, <1>1, <1>5, <2>2, <2>4 DEF WorkInv, DescriptorInv, SwitchSelections
  <2> QED BY <1>5, <2>5, <2>6, <2>7, InstanceMoves, PublishedClaims DEF SwitchSelections, Claim
<1>6. CASE Publish
  <2>1. PICK s : s = [w EXCEPT !.step = "discard"]
    BY Zenon
  <2>2. /\ s \in Works /\ s.step = "discard" /\ s.next = w.next /\ s.previous = w.previous
        /\ work' = s /\ s # NONE /\ w.step = "publish" /\ descriptor' = w.next
    BY <1>0, <1>2, <1>6, <2>1, NoneIsNoValue DEF Works, Publish, At
  <2>3. TypeOK'
    BY Zenon, <1>t, <1>2, <1>6, <2>2 DEF TypeOK, Publish
  <2>4. WorkInv'
    BY <1>t, <1>0, <1>6, <2>2 DEF WorkInv, Publish
  <2>5. descriptor # NONE /\ descriptor.nonce = instance.nonce /\ descriptor.nonce <= launched
    BY Zenon, <1>t, <1>1 DEF DescriptorInv
  <2>6. DescriptorInv'
    BY Zenon, <1>t, <1>0, <1>1, <1>2, <1>6, <2>2, <2>5, NoneIsNoValue DEF WorkInv, DescriptorInv, Publish
  <2>7. Claim(descriptor)' = Claim(catalog)
    BY Zenon, <1>t, <1>0, <2>2 DEF Claim, WorkInv
  <2> QED BY <1>6, <2>3, <2>4, <2>6, <2>7, InstanceMoves, PublishedClaims DEF Publish, Claim
<1>7. CASE PublishFails
  <2>1. replies' \in [Clients -> BOOLEAN \cup {NONE}]
    BY Zenon, <1>7, <1>r DEF PublishFails
  <2>2. PICK j : j = [i EXCEPT !.selections = w.previous, !.stopped = TRUE]
    OBVIOUS
  <2>3. /\ j \in Instance /\ j.nonce = i.nonce /\ j.head = i.head /\ j.generation = i.generation
        /\ j.selections = w.previous /\ instance' = j /\ j # NONE /\ w.step = "publish"
    BY ZenonT(60), <1>0, <1>1, <1>2, <1>7, <2>2, NoneIsNoValue DEF Instance, PublishFails, Restored, At
  <2>4. TypeOK'
    BY Zenon, <1>t, <1>7, <2>1, <2>3 DEF TypeOK, PublishFails
  <2>5. WorkInv' /\ DescriptorInv'
    BY Zenon, <1>t, <1>0, <1>1, <1>7, <2>3 DEF WorkInv, DescriptorInv, PublishFails
  <2> QED BY <1>7, <2>4, <2>5, InstanceMoves, PublishedClaims DEF PublishFails, Claim
<1>8. CASE DiscardPrevious
  <2>1. replies' \in [Clients -> BOOLEAN \cup {NONE}]
    BY Zenon, <1>8, <1>r DEF DiscardPrevious
  <2>2. PICK j : j = [i EXCEPT !.generation = w.next.generation]
    BY Zenon
  <2>3. /\ j \in Instance /\ j.nonce = i.nonce /\ j.head = i.head /\ j.generation = w.next.generation
        /\ j.selections = i.selections /\ instance' = j /\ j # NONE /\ w.step = "discard"
    BY <1>0, <1>1, <1>2, <1>8, <2>2, NoneIsNoValue DEF Instance, DiscardPrevious, At
  <2>4. TypeOK'
    BY Zenon, <1>t, <1>8, <2>1, <2>3 DEF TypeOK, DiscardPrevious
  <2>5. descriptor = w.next /\ w.next.generation > i.generation /\ w.next.selections = i.selections
    BY Zenon, <1>t, <1>0, <1>1, <2>3 DEF WorkInv, DescriptorInv
  <2>6. descriptor \notin OldSnapshots
    <3>1. i.generation \in 0 .. MaxGeneration
      BY DEF Instance
    <3> QED BY <1>0, <1>1, <1>2, <2>5, <3>1 DEF OldSnapshots
  <2>7. WorkInv'
    BY <1>8 DEF WorkInv, DiscardPrevious
  <2>8. DescriptorInv'
    BY Zenon, <1>t, <1>0, <1>1, <1>8, <2>3, <2>5, <2>6 DEF DescriptorInv, DiscardPrevious
  <2> QED BY <1>8, <2>4, <2>7, <2>8, InstanceMoves, PublishedClaims DEF DiscardPrevious, Claim
<1> QED BY Zenon, <1>3, <1>4, <1>5, <1>6, <1>7, <1>8 DEF Apply

\* A new instance publishes what it starts from, under a nonce nobody had.
LEMMA PublishesNew ==
    ASSUME SelectionInv, work = NONE, NEW s \in Snapshot, s.nonce = launched + 1,
           launched < MaxInstances, launched' = launched + 1,
           files' = (files \ {descriptor}) \cup {s}, descriptor' = s,
           instance' = [nonce |-> s.nonce, head |-> s.head, generation |-> s.generation,
                        selections |-> s.selections, stopped |-> FALSE],
           captured' \in {captured, NONE}, Claim(s) \in Claims,
           UNCHANGED <<catalog, reborn, work, stateLocked, requests, replies, client>>
    PROVE  SelectionInv'
<1>1. TypeOK /\ launched \in 0 .. MaxInstances /\ launched \in Nat
  BY BoundsAssumption DEF SelectionInv, TypeOK
<1>2. PICK j : j = instance'
  BY Zenon
<1>s. /\ s.nonce \in 1 .. MaxInstances /\ s.head \in Heads /\ s.generation \in 0 .. MaxGeneration
      /\ s.selections \in Selections /\ s # NONE
  BY Zenon, NoneIsNoValue DEF Snapshot
<1>i. /\ j \in Instance /\ j.nonce = s.nonce /\ j.head = s.head
      /\ j.generation = s.generation /\ j.selections = s.selections
  BY Zenon, <1>2, <1>s DEF Instance
<1>3. j # NONE
  BY Zenon, <1>i, NoneIsNoValue
<1>4. launched' \in 0 .. MaxInstances
  BY SMTT(40), <1>1, BoundsAssumption
<1>5. TypeOK'
  BY Zenon, <1>1, <1>2, <1>i, <1>4 DEF TypeOK
<1>6. WorkInv'
  BY Zenon DEF SelectionInv, WorkInv
<1>7. captured # NONE => captured.nonce <= launched /\ captured.nonce \in Nat
  BY SMTT(40), <1>1, BoundsAssumption DEF SelectionInv, DescriptorInv, TypeOK, Snapshot
<1>8. DescriptorInv'
  <2>1. captured' # NONE => captured'.nonce <= launched'
    BY <1>1, <1>7
  <2>2. descriptor' \in files' /\ descriptor'.nonce <= launched'
    BY <1>1
  <2> QED BY Zenon, <1>2, <1>s, <1>i, <2>1, <2>2 DEF DescriptorInv
<1>9. captured' # NONE => Claim(captured)' \in Claims
  BY Zenon, PublishedClaims DEF Claim
<1>10. Claim(descriptor)' \in Claims
  BY DEF Claim
<1> QED BY ZenonT(40), <1>5, <1>6, <1>8, <1>9, <1>10, InstanceMoves

\* Launch, capture, restore, stop and death of an instance.
LEMMA LifeInv ==
    ASSUME SelectionInv, LaunchFromCatalog \/ CaptureRestart \/ RestoreCaptured \/ Stop \/ Kill
    PROVE  SelectionInv'
<1>0. /\ TypeOK /\ WorkInv /\ DescriptorInv /\ launched \in 0 .. MaxInstances /\ catalog \in Catalog
      /\ launched \in Nat
  BY SMTT(40), BoundsAssumption DEF SelectionInv, TypeOK
<1>1. CASE LaunchFromCatalog
  <2>1. PICK s : s = [nonce |-> launched + 1, head |-> catalog.head, generation |-> catalog.generation,
                      selections |-> catalog.selections]
    BY Zenon
  <2>2. launched + 1 \in 1 .. MaxInstances /\ catalog.head \in Heads
    BY <1>0, <1>1, BoundsAssumption DEF LaunchFromCatalog, Launch, Catalog
  <2>3. /\ s \in Snapshot /\ s.nonce = launched + 1 /\ s.head = catalog.head
        /\ s.generation = catalog.generation /\ s.selections = catalog.selections
    BY Zenon, <1>0, <2>1, <2>2 DEF Snapshot, Catalog
  <2>4. work = NONE
    BY <1>0, <1>1 DEF LaunchFromCatalog, Launch, WorkInv
  <2>5. Claim(s) \in Claims
    BY Zenon, <2>3, PublishedClaims DEF Claim
  <2>6. /\ launched < MaxInstances /\ launched' = launched + 1
        /\ files' = (files \ {descriptor}) \cup {s} /\ descriptor' = s
        /\ instance' = [nonce |-> s.nonce, head |-> s.head, generation |-> s.generation,
                        selections |-> s.selections, stopped |-> FALSE]
        /\ UNCHANGED <<catalog, reborn, captured, work, stateLocked, requests, replies, client>>
    BY Zenon, <1>1, <2>1, <2>3 DEF LaunchFromCatalog, Launch
  <2> QED BY Zenon, <2>3, <2>4, <2>5, <2>6, PublishesNew
<1>2. CASE CaptureRestart
  <2>1. TypeOK' /\ WorkInv' /\ DescriptorInv'
    BY Zenon, <1>0, <1>2 DEF TypeOK, WorkInv, DescriptorInv, CaptureRestart
  <2> QED BY Zenon, <1>2, <2>1, InstanceMoves, PublishedClaims DEF CaptureRestart, Claim
<1>3. CASE RestoreCaptured
  <2>0. captured \in Snapshot /\ captured # NONE
    BY <1>0, <1>3 DEF RestoreCaptured, TypeOK
  <2>1. PICK s : s = [captured EXCEPT !.nonce = launched + 1]
    BY Zenon
  <2>2. launched + 1 \in 1 .. MaxInstances
    BY <1>0, <1>3, BoundsAssumption DEF RestoreCaptured
  <2>3. /\ s \in Snapshot /\ s.nonce = launched + 1
        /\ s.generation = captured.generation /\ s.selections = captured.selections
    BY Zenon, <2>0, <2>1, <2>2 DEF Snapshot
  <2>4. Claim(s) \in Claims
    BY <2>0, <2>3, PublishedClaims DEF Claim
  <2> QED BY Zenon, <1>3, <2>1, <2>3, <2>4, PublishesNew DEF RestoreCaptured
<1>4. CASE Stop
  <2>1. TypeOK' /\ WorkInv' /\ DescriptorInv'
    BY Zenon, <1>0, <1>4 DEF TypeOK, WorkInv, DescriptorInv, Stop
  <2> QED BY Zenon, <1>4, <2>1, InstanceMoves DEF Stop
<1>5. CASE Kill
  <2>1. TypeOK' /\ WorkInv' /\ DescriptorInv'
    BY Zenon, <1>0, <1>5 DEF TypeOK, WorkInv, DescriptorInv, Kill
  <2> QED BY Zenon, <1>5, <2>1, InstanceMoves, PublishedClaims DEF Kill, Claim
<1> QED BY Zenon, <1>1, <1>2, <1>3, <1>4, <1>5
-----------------------------------------------------------------------------
(* The invariant and what follows from it. *)

\* The first states: an imported profile, nothing selected, nothing running.
LEMMA SelectionInitInv ==
    ASSUME Init
    PROVE  SelectionInv
<1>1. catalog \in Catalog
  BY SMTT(60), BoundsAssumption DEF Init, Catalog, NoSelection, Selections
<1>2. Idle \in Command /\ CommandInv(Idle) /\ Idle.pc \notin Applying
  BY BoundsAssumption DEF Idle, Command, CommandInv, Applying
<1>3. TypeOK
  <2>1. launched \in 0 .. MaxInstances
    BY BoundsAssumption DEF Init
  <2>2. client \in [Clients -> Command] /\ replies \in [Clients -> BOOLEAN \cup {NONE}]
    BY Zenon, <1>2 DEF Init
  <2> QED BY Zenon, <1>1, <2>1, <2>2 DEF Init, TypeOK
<1>4. WorkInv /\ DescriptorInv /\ \A c \in Clients : CommandInv(client[c])
  BY Zenon, <1>2 DEF Init, WorkInv, DescriptorInv
<1>5. Claims = {Claim(catalog)}
  BY Zenon, <1>2 DEF Init, Claims
<1>6. Unambiguous
  BY <1>1, <1>5, BoundsAssumption DEF Unambiguous, Claim, Catalog
<1> QED BY Zenon, <1>3, <1>4, <1>6 DEF SelectionInv

\* Every step of a command, of the instance and of the catalog's users keeps the invariant.
LEMMA SelectionStepInv ==
    ASSUME SelectionInv, [Next]_vars
    PROVE  SelectionInv'
<1>1. CASE UNCHANGED vars
  <2>1. TypeOK' /\ UNCHANGED <<catalog, reborn, daemonVars, client>>
    BY Zenon, <1>1 DEF vars, daemonVars, SelectionInv, TypeOK
  <2> QED BY Zenon, <2>1, DaemonStays, InstanceMoves, PublishedClaims DEF daemonVars, Claim
<1>2. ASSUME NEW c \in Clients, ClientStep(c) \/ RequestTimeout(c) PROVE SelectionInv'
  BY Zenon, <1>2, LoadInv, SelectInv, ApplySelectionInv, TimeoutInv DEF ClientStep
<1>3. ASSUME NEW m \in requests, Accept(m) \/ Lose(m) PROVE SelectionInv'
  BY <1>3, AcceptInv
<1> QED BY Zenon, <1>1, <1>2, <1>3, ApplyInv, LifeInv, CatalogInv DEF Next

\* The inductive invariant of the selection protocol.
THEOREM SelectionInvariant == Spec => []SelectionInv
BY SelectionInitInv, SelectionStepInv, PTL DEF Spec

\* Between two requests the running instance, its descriptor and snapshot, and
\* what the catalog says of the same generation agree.
THEOREM PublishedHolds == Spec => []RuntimeIsPublished
<1>1. SelectionInv => RuntimeIsPublished
  <2> SUFFICES ASSUME SelectionInv PROVE RuntimeIsPublished
    BY Zenon
  <2>1. TypeOK /\ PublishedIsRecoverable /\ InForceIsPublished
    BY DEF SelectionInv, DescriptorInv, PublishedIsRecoverable, InForceIsPublished
  <2>2. SameGenerationSameSelections
    <3> SUFFICES ASSUME descriptor # NONE, descriptor.generation = catalog.generation, ~reborn
                 PROVE  descriptor.selections = catalog.selections
      BY Zenon DEF SameGenerationSameSelections
    <3>1. Claim(descriptor) = Claim(catalog)
      BY Zenon, PublishedClaims DEF SelectionInv, Unambiguous, Claim
    <3> QED BY Zenon, <3>1 DEF Claim
  <2> QED BY Zenon, <2>1, <2>2 DEF RuntimeIsPublished
<1> QED BY <1>1, SelectionInvariant, PTL

\* A command that has its answer goes on to verify it; nobody else moves it.
LEMMA AnsweredVerifies ==
    ASSUME SelectionInv, [Next]_vars, NEW c \in Clients, client[c].pc = "answered",
           client'[c] # client[c]
    PROVE  Verify(c)
<1>1. client \in [Clients -> Command]
  BY Zenon DEF SelectionInv, TypeOK
<1>2. ASSUME NEW d \in Clients, ClientStep(d) \/ RequestTimeout(d) PROVE Verify(c)
  <2>1. \E s : client' = [client EXCEPT ![d] = s]
    BY Zenon, <1>2 DEF ClientStep, RequestTimeout, Load, Select, SelectFails, ObserveRuntime, Send, Receive,
                Verify, Return, Step, Ends
  <2>2. d = c
    BY Zenon, <1>1, <2>1
  <2> QED BY ZenonT(40), <1>2, <2>2 DEF ClientStep, RequestTimeout, Load, Select, SelectFails, ObserveRuntime,
                            Send, Receive, Return
<1>3. UNCHANGED client \/ \E d \in Clients : ClientStep(d) \/ RequestTimeout(d)
  BY Zenon DEF Next, vars, Accept, Lose, Apply, SaveSnapshot, PrepareFails, SwitchSelections, Publish,
         PublishFails, DiscardPrevious, LaunchFromCatalog, Launch, CaptureRestart, RestoreCaptured,
         Stop, Kill, Republish, Import, Delete
<1> QED BY <1>2, <1>3

\* What is verified as applied is in force: the generation the command committed
\* and the one the descriptor carries stand for the same selections.
LEMMA AppliedStep ==
    ASSUME SelectionInv, [Next]_vars, NEW c \in Clients, client[c].pc = "answered",
           client'[c].outcome = "applied", ~reborn
    PROVE  Confirmed(c)
<1>1. client \in [Clients -> Command] /\ CommandInv(client[c]) /\ Unambiguous
  BY Zenon DEF SelectionInv, TypeOK
<1>2. client[c].outcome = NONE /\ NONE # "applied"
  BY Zenon, <1>1, NoneIsNoValue DEF CommandInv, Outcomes
<1>3. Verify(c)
  BY <1>2, AnsweredVerifies
<1>4. client'[c].outcome = Verified(c)
  BY <1>1, <1>3 DEF Verify, Ends, Step, Idle
<1>5. descriptor # NONE /\ descriptor.generation = client[c].generation
  BY ZenonT(40), <1>4 DEF Verified, Observed
<1>6. Claim(client[c]) \in Claims /\ Claim(descriptor) \in Claims
  BY Zenon, <1>5, PublishedClaims DEF Claims, Applying
<1>7. Claim(client[c]) = Claim(descriptor)
  BY Zenon, <1>1, <1>5, <1>6 DEF Unambiguous, Claim
<1>8. descriptor.selections = client[c].selections
  BY <1>7 DEF Claim
<1> QED BY Zenon, <1>5, <1>8 DEF Confirmed

\* The descriptor of an instance is replaced by its own next generation only.
LEMMA ForwardStep ==
    ASSUME SelectionInv, [Next]_vars
    PROVE  \/ descriptor = NONE \/ descriptor' = NONE
           \/ descriptor'.nonce # descriptor.nonce
           \/ descriptor' = descriptor
           \/ descriptor'.generation > descriptor.generation
<1>1. CASE Publish
  <2>1. work # NONE /\ instance # NONE /\ work.step = "publish"
    BY Zenon, <1>1 DEF Publish, At, SelectionInv, WorkInv
  <2>2. descriptor.generation = instance.generation /\ work.next.generation > instance.generation
    BY <2>1 DEF SelectionInv, WorkInv, DescriptorInv
  <2> QED BY <1>1, <2>2 DEF Publish
<1>2. CASE LaunchFromCatalog \/ RestoreCaptured
  <2>1. /\ captured # NONE => captured \in Snapshot
        /\ descriptor # NONE => descriptor.nonce \in Nat /\ descriptor.nonce <= launched
        /\ launched \in Nat
    BY BoundsAssumption DEF SelectionInv, TypeOK, DescriptorInv, Snapshot
  <2>2. descriptor'.nonce = launched + 1
    <3>1. CASE LaunchFromCatalog
      BY <3>1 DEF LaunchFromCatalog, Launch
    <3>2. CASE RestoreCaptured
      BY Zenon, <2>1, <3>2 DEF RestoreCaptured, Snapshot
    <3> QED BY Zenon, <1>2, <3>1, <3>2
  <2> QED BY SMTT(60), <2>1, <2>2
<1>3. CASE Stop
  BY Zenon, <1>3 DEF Stop
<1>4. \/ UNCHANGED descriptor
      \/ Publish \/ LaunchFromCatalog \/ RestoreCaptured \/ Stop
  BY Zenon DEF Next, vars, daemonVars, ClientStep, RequestTimeout, Load, Select, SelectFails, ObserveRuntime,
         Send, Receive, Verify, Return, Accept, Lose, Apply, SaveSnapshot, PrepareFails,
         SwitchSelections, PublishFails, DiscardPrevious, CaptureRestart, Kill, Republish, Import, Delete
<1> QED BY Zenon, <1>1, <1>2, <1>3, <1>4

\* Selections reach the instance in the order of their generations, and a
\* command that reports its selection as applied is right, as long as the profile
\* was not deleted and imported again.
THEOREM ForwardHolds == Spec => SelectionsMoveForward
<1>1. SelectionInv /\ [Next]_vars =>
        [\A c \in Clients : client[c].pc = "answered" /\ client'[c].outcome = "applied" /\ ~reborn
            => Confirmed(c)]_vars
  BY AppliedStep
<1>2. SelectionInv /\ [Next]_vars =>
        [\/ descriptor = NONE \/ descriptor' = NONE
         \/ descriptor'.nonce # descriptor.nonce
         \/ descriptor' = descriptor
         \/ descriptor'.generation > descriptor.generation]_vars
  BY ForwardStep
<1> QED BY <1>1, <1>2, SelectionInvariant, PTL
        DEF Spec, SelectionsMoveForward, AppliedUnlessReborn, GenerationMovesForward
=============================================================================
