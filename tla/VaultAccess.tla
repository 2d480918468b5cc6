------------------------------ MODULE VaultAccess ------------------------------
(***************************************************************************)
(* The record of the vaults that were used last (core/vault-access.ts, with *)
(* its callers in cli/vault.ts, mcp.ts and snapshot-store.ts).  Every       *)
(* command, MCP call and pin reads vault-access.json, drops what is too old *)
(* for its own environment, adds its vault and renames a new file into      *)
(* place, with no lock; a daemon that starts ranks its stores by the file.  *)
(***************************************************************************)
EXTENDS Integers, FiniteSets, SequencesExt

CONSTANTS Process,            \* who records: commands, MCP servers, daemons
          AgeOf,              \* OPTSIDIAN_SEARCH_VAULT_ACCESS_MAX_AGE_DAYS of each
          Vaults,             \* the vaults are 1..Vaults, in the order of their paths
          MaxEntries,         \* VAULT_ACCESS_MAX_ENTRIES
          MaxTime, MaxRecords, MaxFaults   \* bounds

VARIABLES now,      \* the clock
          file,     \* vault-access.json: entries [vault, at]
          there,    \* the vaults that are on disk
          op,       \* the recording that each process is in
          last,     \* when each vault was last recorded (of the model, as the rest)
          excused,  \* vaults whose entry was dropped or set back by an overlap, or lost with the file
          spent     \* how many recordings and faults there were

vars == <<now, file, there, op, last, excused, spent>>

Vault == 1..Vaults
Idle == [step |-> "idle", vault |-> 0, at |-> 0, copy |-> {}, missed |-> {}]

Init ==
  /\ now = 1 /\ file = {} /\ there = Vault
  /\ op = [p \in Process |-> Idle]
  /\ last = [v \in Vault |-> 0]
  /\ excused = {}
  /\ spent = [records |-> 0, faults |-> 0]

\* As recentVaultEntries, but the limit is applied before the order.
Recent_Unsorted(entries, at, age) ==
  LET young == {e \in entries : at - e.at <= age}
  IN {e \in young : Cardinality({f \in young : f.vault < e.vault}) < MaxEntries}

\* recentVaultEntries: young enough, the youngest first, and no more than the limit.
Before(e, f) == e.at > f.at \/ (e.at = f.at /\ e.vault < f.vault)
Recent(entries, at, age) ==
  LET young == {e \in entries : at - e.at <= age}
  IN {e \in young : Cardinality({f \in young : Before(f, e)}) < MaxEntries}

-----------------------------------------------------------------------------
\* A process takes the time and the path of its vault,
Begin(p, v) ==
  /\ op[p] = Idle
  /\ v \in there
  /\ spent.records < MaxRecords
  /\ spent' = [spent EXCEPT !.records = @ + 1]
  /\ op' = [op EXCEPT ![p] = [Idle EXCEPT !.step = "begun", !.vault = v, !.at = now]]
  /\ UNCHANGED <<now, file, there, last, excused>>

\* reads the file,
ReadFile(p) ==
  /\ op[p].step = "begun"
  /\ op' = [op EXCEPT ![p].step = "read", ![p].copy = Recent(file, op[p].at, AgeOf[p])]
  /\ UNCHANGED <<now, file, there, last, excused, spent>>

\* puts its own entry in the place of an older one,
Added(p) ==
  {e \in op[p].copy : e.vault # op[p].vault} \cup {[vault |-> op[p].vault, at |-> op[p].at]}

\* and renames a new file into place.
Replace(p) ==
  LET vault == op[p].vault IN
  /\ op[p].step = "read"
  /\ file' = Recent(Added(p), op[p].at, AgeOf[p])
  /\ op' = [q \in Process |->
       IF q = p THEN Idle
       ELSE IF op[q].step = "read" \/ op[q].vault = vault THEN [op[q] EXCEPT !.missed = @ \cup {vault}]
       ELSE op[q]]
  /\ last' = [last EXCEPT ![vault] = Max({@, op[p].at})]
  /\ excused' = (excused \ {vault}) \cup op[p].missed
  /\ UNCHANGED <<now, there, spent>>

\* As recentVaultAccessRoots, but with the vaults that are gone.
Roots_Gone(p) == Recent(file, now, AgeOf[p])

\* recentVaultAccessRoots
Roots(p) == {e \in Recent(file, now, AgeOf[p]) : e.vault \in there}

\* applyVaultAccessRecency gives them falling times.
Ranked(p) ==
  LET roots == SetToSortSeq(Roots(p), Before)
  IN [i \in DOMAIN roots |-> roots[i].vault]

-----------------------------------------------------------------------------
\* A process dies; what it has not renamed is left aside.
Die(p) ==
  /\ op[p] # Idle
  /\ spent.faults < MaxFaults
  /\ spent' = [spent EXCEPT !.faults = @ + 1]
  /\ op' = [op EXCEPT ![p] = Idle]
  /\ UNCHANGED <<now, file, there, last, excused>>

\* The file is damaged or of another version, and read as if it were not there.
Damage ==
  /\ spent.faults < MaxFaults
  /\ spent' = [spent EXCEPT !.faults = @ + 1]
  /\ file' = {} /\ excused' = Vault
  /\ UNCHANGED <<now, there, op, last>>

\* A vault is removed.
Vanish(v) ==
  /\ spent.faults < MaxFaults
  /\ spent' = [spent EXCEPT !.faults = @ + 1]
  /\ there' = there \ {v}
  /\ UNCHANGED <<now, file, op, last, excused>>

Tick ==
  /\ now < MaxTime
  /\ now' = now + 1
  /\ UNCHANGED <<file, there, op, last, excused, spent>>

Next ==
  \/ \E p \in Process :
       \/ \E v \in Vault : Begin(p, v)
       \/ ReadFile(p) \/ Replace(p) \/ Die(p)
  \/ Damage \/ Tick \/ \E v \in Vault : Vanish(v)

Spec == Init /\ [][Next]_vars

-----------------------------------------------------------------------------
LastUse(v) == [vault |-> v, at |-> last[v]]

\* The vaults that a process of this age must find: recorded, not overlapped, and among the last used.
Due(age) ==
  {v \in Vault \ excused :
     /\ last[v] > 0 /\ now - last[v] <= age
     /\ Cardinality({u \in Vault : Before(LastUse(u), LastUse(v))}) < MaxEntries}

\* The last use of a vault stays in the file until it is too old for somebody, or as many others as
\* the file holds were used later, unless a recording that overlapped another has dropped it.
LastUsesAreKept ==
  \A v \in Due(Min({AgeOf[p] : p \in Process})) : LastUse(v) \in file

\* A daemon that starts ranks every vault that is due and on disk, no vault that is not on disk, and
\* those that were not overlapped in the order of their last use.
RanksTheLastUsed ==
  \A p \in Process :
    LET list == Ranked(p) IN
    /\ Due(Min({AgeOf[q] : q \in Process})) \cap there \subseteq ToSet(list)
    /\ ToSet(list) \subseteq there
    /\ \A i, j \in DOMAIN list :
         i < j /\ {list[i], list[j]} \cap excused = {} => last[list[i]] >= last[list[j]]

\* The promises of the record together.
LastUsedAreFound == LastUsesAreKept /\ RanksTheLastUsed
=============================================================================
