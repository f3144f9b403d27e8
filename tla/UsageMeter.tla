------------------------------ MODULE UsageMeter ------------------------------
(***************************************************************************)
(* The usage meter of internal/usage and the table it writes: counts are   *)
(* buffered in memory per (tenant, kind, hour), taken out and written in   *)
(* one statement by a goroutine that flushes at every tick, put back when  *)
(* the write fails, and flushed a last time on the way to a reload.  Scrub *)
(* submissions are added to the same table directly.                       *)
(***************************************************************************)
EXTENDS Naturals

CONSTANTS
  Sends,       \* (tenant, hour) buckets of the emails sent
  Checks,      \* those of the addresses submitted to Scrub
  Billable,    \* the buckets of a tenant; the others are install-level messages
  Amounts,     \* how much one call adds
  MaxAdds,     \* how many calls add to the meter, in all
  MaxFaults,   \* failing writes
  MaxDoubts,   \* writes that are applied and reported as failed
  MaxStarts    \* processes, one after the other

Keys == Sends \cup Checks

ASSUME ConstantsAssumption ==
  /\ Sends \cap Checks = {}
  /\ Checks \subseteq Billable
  /\ Billable \subseteq Keys
  /\ Amounts \subseteq Nat \ {0}
  /\ {MaxAdds, MaxFaults, MaxDoubts, MaxStarts} \subseteq Nat

VARIABLES
  pending,  \* Meter.pending, 0 for a key it does not hold
  batch,    \* the map a Flush took, until its write is decided
  flush,    \* where Flush is: "idle", "writing", "restoring"
  loop,     \* the Run goroutine: "running", "returned"
  closer,   \* Close: "open", "stopping", "final", "closed", "failed"
  table,    \* usage_counters
  counted,  \* what was counted, ever
  lost,     \* what went down with a process
  twice,    \* what a write in doubt added once more
  due,      \* what had been counted when Close was called, 0 before
  budget

buffers == <<pending, batch>>
vars == <<pending, batch, flush, loop, closer, table, counted, lost, twice, due,
          budget>>

Zero == [k \in Keys |-> 0]
Plus(f, g) == [k \in Keys |-> f[k] + g[k]]

Init ==
  /\ pending = Zero
  /\ batch = Zero
  /\ flush = "idle"
  /\ loop = "running"
  /\ closer = "open"
  /\ table = Zero
  /\ counted = Zero
  /\ lost = Zero
  /\ twice = Zero
  /\ due = Zero
  /\ budget = [adds |-> 0, faults |-> 0, doubts |-> 0, starts |-> 1]

Spend(what, limit) ==
  /\ budget[what] < limit
  /\ budget' = [budget EXCEPT ![what] = @ + 1]

(* Meter.Add, which ignores what is no tenant's usage.  Workers call it as *)
(* long as the process lives, after Close too: closing the campaign        *)
(* manager does not wait for them.                                         *)
CountedAny(k) == TRUE  \* mutant: no tenant check
CountedKey(k) == k \in Billable
Add(k, n) ==
  /\ CountedKey(k)
  /\ Spend("adds", MaxAdds)
  /\ pending' = [pending EXCEPT ![k] = @ + n]
  /\ counted' = [counted EXCEPT ![k] = @ + n]
  /\ UNCHANGED <<batch, flush, loop, closer, table, lost, twice, due>>

(* add-usage-counters: an upsert that adds.                                *)
Upsert(rows) == Plus(table, rows)

(* addUsage for the validations of a Scrub batch, which skips the meter.   *)
(* When its write fails they are left unbilled.                            *)
AddDirectly(k, n) ==
  /\ Spend("adds", MaxAdds)
  /\ table' = Upsert([Zero EXCEPT ![k] = n])
  /\ counted' = [counted EXCEPT ![k] = @ + n]
  /\ UNCHANGED <<buffers, flush, loop, closer, lost, twice, due>>

(* Flush takes the map, at a tick of Run or as Close's last act.           *)
Flusher == \/ loop = "running"
           \/ closer = "final"
Take ==
  /\ flush = "idle"
  /\ Flusher
  /\ pending # Zero
  /\ batch' = pending
  /\ pending' = Zero
  /\ flush' = "writing"
  /\ UNCHANGED <<loop, closer, table, counted, lost, twice, due, budget>>

(* Flush returns, and so does Close if it was Close that called it, with   *)
(* what Flush returned.                                                    *)
Returns(outcome) ==
  /\ flush' = "idle"
  /\ closer' = IF closer = "final" THEN outcome ELSE closer
  /\ batch' = Zero

TakeNothing ==
  /\ closer = "final"
  /\ flush = "idle"
  /\ pending = Zero
  /\ Returns("closed")
  /\ UNCHANGED <<pending, loop, table, counted, lost, twice, due, budget>>

Write ==
  /\ flush = "writing"
  /\ table' = Upsert(batch)
  /\ Returns("closed")
  /\ UNCHANGED <<pending, loop, counted, lost, twice, due, budget>>

(* AddUsage returns an error: nothing was written, or everything was and   *)
(* the answer got lost.                                                    *)
WriteFails ==
  /\ flush = "writing"
  /\ flush' = "restoring"
  /\ \/ /\ Spend("faults", MaxFaults)
        /\ UNCHANGED <<table, twice>>
     \/ /\ Spend("doubts", MaxDoubts)
        /\ table' = Upsert(batch)
        /\ twice' = Plus(twice, batch)
  /\ UNCHANGED <<buffers, loop, closer, counted, lost, due>>

(* What was taken goes back on top of what was added meanwhile.            *)
RestoredOver == batch  \* mutant: instead of it
RestoredNothing == pending  \* mutant: it is dropped
Restored == Plus(pending, batch)
Restore ==
  /\ flush = "restoring"
  /\ pending' = Restored
  /\ Returns("failed")
  /\ UNCHANGED <<loop, table, counted, lost, twice, due, budget>>

(* Close tells Run to stop and waits for it.  (The last process the bound  *)
(* allows is not closed, since none would replace it.)                     *)
Close ==
  /\ closer = "open"
  /\ budget.starts < MaxStarts
  /\ closer' = "stopping"
  /\ due' = counted
  /\ UNCHANGED <<buffers, flush, loop, table, counted, lost, twice, budget>>

(* Run looks at the stop channel between two flushes only, and Close waits *)
(* for it to return before it flushes.                                     *)
RunReturnsLater ==  \* mutant: Close does not wait for it
  /\ closer = "stopping"
  /\ loop' = "returned"
  /\ closer' = "final"
  /\ UNCHANGED <<buffers, flush, table, counted, lost, twice, due, budget>>
RunReturns ==
  /\ closer = "stopping"
  /\ flush = "idle"
  /\ loop' = "returned"
  /\ closer' = "final"
  /\ UNCHANGED <<buffers, flush, table, counted, lost, twice, due, budget>>

(* The process is replaced: by a reload once Close returned, after a       *)
(* closer that took too long, or by a crash.  What is in memory is gone; a *)
(* write that was under way may still be applied.                          *)
Restart ==
  /\ Spend("starts", MaxStarts)
  /\ \/ /\ lost' = Plus(lost, Plus(pending, batch))
        /\ UNCHANGED table
     \/ /\ flush = "writing"
        /\ lost' = Plus(lost, pending)
        /\ table' = Upsert(batch)
  /\ pending' = Zero
  /\ batch' = Zero
  /\ flush' = "idle"
  /\ loop' = "running"
  /\ closer' = "open"
  /\ due' = Zero
  /\ UNCHANGED <<counted, twice>>

Flush == Take \/ TakeNothing \/ Write \/ Restore

Next ==
  \/ \E k \in Sends, n \in Amounts : Add(k, n)
  \/ \E k \in Checks, n \in Amounts : AddDirectly(k, n)
  \/ Flush \/ WriteFails
  \/ Close \/ RunReturns
  \/ Restart

Spec == Init /\ [][Next]_vars

(* Run ticks for as long as it is not told to stop, a write is answered,   *)
(* Run sees the stop, and a process that closed its meter is replaced.     *)
FairSpec ==
  /\ Spec
  /\ WF_vars(Flush)
  /\ WF_vars(RunReturns)
  /\ WF_vars(closer \in {"closed", "failed"} /\ Restart)

-----------------------------------------------------------------------------
Counts == {f \in [Keys -> Nat] : \A k \in Keys \ Billable : f[k] = 0}

TypeOK ==
  /\ pending \in Counts /\ batch \in Counts
  /\ table \in Counts /\ counted \in Counts /\ due \in Counts
  /\ lost \in Counts /\ twice \in Counts
  /\ flush \in {"idle", "writing", "restoring"}
  /\ loop \in {"running", "returned"}
  /\ closer \in {"open", "stopping", "final", "closed", "failed"}
  /\ budget \in [{"adds", "faults", "doubts", "starts"} -> Nat]

(* Nothing counted is dropped and nothing is billed twice, whatever is     *)
(* added while a flush is writing, failing or putting its counts back:     *)
(* usage.go:95, "on failure the increments are put back so the next Flush  *)
(* retries them, rather than being dropped".                               *)
Conserved ==
  \A k \in Keys :
    table[k] + pending[k] + batch[k] + lost[k] = counted[k] + twice[k]

(* usage.go:140, "so a clean shutdown loses nothing": once Close returned  *)
(* without an error, all that was counted before it was called is in the   *)
(* table or went down with an earlier process, whatever Run was writing or *)
(* putting back meanwhile and whoever kept counting.  (What is counted     *)
(* after the final flush took the map is not covered.)                     *)
CleanShutdownLosesNothing ==
  closer = "closed" => \A k \in Keys : table[k] + lost[k] >= due[k] + twice[k]

(* Whatever was counted by now is in the table in the end, beside what is  *)
(* there twice, or was lost with a process.                                *)
Lands(k, n) == counted[k] >= n ~> table[k] + lost[k] >= n + twice[k]
EveryCountLands == \A k \in Billable, n \in 1..MaxAdds : Lands(k, n)
===============================================================================
