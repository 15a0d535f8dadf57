--------------------------- MODULE ProbeLogWindow ---------------------------
(***************************************************************************)
(* One bounded collection of a probe's access-log records on an Agent,     *)
(* internal/kube/probe_logs.go: collectProbeWindow reads the log of every  *)
(* Pod of a gateway (or one mounted file) again and again, merges what it  *)
(* reads into a cache of record occurrences, and ends when the records     *)
(* have settled, the window is over, the probe is canceled or a read       *)
(* fails.  Meanwhile the gateway writes, logs are rotated and truncated    *)
(* and the clock runs.                                                     *)
(*                                                                         *)
(* A line is one unit of size.  Parsing a line is abstracted to what the   *)
(* collection uses of it: whether it is a record of this probe, which      *)
(* request context it belongs to, and whether it is a redirect.            *)
(***************************************************************************)
EXTENDS Selection, SequencesExt

CONSTANTS
    Sources,        \* the Pods' logs, or the mounted file
    FileBacked,     \* TRUE: probeLogFile is set
    Lines,          \* what the gateway writes: records of this probe ...
    Other,          \* ... and a line that is none
    Context,        \* Context[l]: request start time and addresses, or None
    Redirects,      \* the records marked as internal redirects
    None,
    ReadLimit,      \* maxProbeLogBytes
    Window,         \* the window collectProbeWindow is given
    Interval,       \* time between two reads
    Settle          \* how long nothing may change

CONSTANTS
    MaxLog,         \* bound on the lines a source writes
    MaxRotations,   \* bound on rotations, truncations and losses
    MaxTime         \* bound on the clock

ASSUME LineAssumption ==
    /\ Other \notin Lines /\ None \notin Lines
    /\ Redirects \subseteq Lines
    /\ DOMAIN Context = Lines
ASSUME SourceCount == FileBacked \in BOOLEAN /\ (FileBacked => Cardinality(Sources) = 1)
ASSUME LimitAssumption ==
    /\ ReadLimit \in Nat \ {0} /\ Window \in Nat \ {0} /\ Interval \in Nat \ {0}
    /\ Settle \in Nat /\ MaxLog \in Nat \ {0} /\ MaxRotations \in Nat /\ MaxTime \in Nat
    /\ Window + Interval <= MaxTime

VARIABLES
    log,            \* log[s]: every line s ever wrote
    start,          \* start[s]: how many of them are gone
    inode,          \* inode[s]: identity of the file
    rotations,
    now, canceled,  \* the clock and the probe's context
    hops,           \* hops[s]: keys of the occurrences of s, by LogSequence
    previous,       \* previous[s]: the keys of the last snapshot of s
    fileInfo,       \* fileInfo[s]: identity and size at the last read
    generation,     \* generation[s]: how often the file was seen to change
    fileOffset,     \* where the reader starts in the file
    issues,         \* ProbeIssue codes of the collection
    pc, changed, failed,    \* collectProbeWindow between two steps
    stableSince, wake,
    state, endedAt, \* ProbeCollection
    lastRead,       \* lastRead[s]: the records of the last snapshot of s
    lastChange      \* when a record was last added

world == <<log, start, inode, rotations>>
cache == <<hops, previous, fileInfo, generation, fileOffset, lastRead, lastChange>>
result == <<state, endedAt>>
vars == <<world, now, canceled, cache, issues, pc, changed, failed, stableSince, wake, result>>

Breaking == {"log-source-rotated", "log-window-truncated", "log-order-unconfirmed"}
Ends == {"settled", "window-ended", "cancelled", "read-error"}
IssueCodes == Breaking \cup {"collection-window-ended", "collection-cancelled", "log-read-error"}

\* The identity of an occurrence within its source: in a Pod's log the how
\* manieth equal line it is, in a file its generation and place.
Key(g, n, l) == [generation |-> g, place |-> n, line |-> l]
Keys == [generation : Nat, place : Nat, line : Lines]
Infos == [inode : Nat, size : Nat]
ASSUME InfoAssumption == None \notin Infos

TypeOK ==
    /\ log \in [Sources -> Seq(Lines \cup {Other})]
    /\ start \in [Sources -> 0..MaxLog] /\ inode \in [Sources -> 0..MaxRotations]
    /\ rotations \in 0..MaxRotations
    /\ now \in 0..MaxTime /\ canceled \in BOOLEAN
    /\ hops \in [Sources -> Seq(Keys)] /\ previous \in [Sources -> Seq(Keys)]
    /\ fileInfo \in [Sources -> Infos \cup {None}] /\ generation \in [Sources -> Nat]
    /\ fileOffset \in 0..MaxLog
    /\ issues \subseteq IssueCodes
    /\ pc \in {"top", "check", "wait", "done"} /\ changed \in BOOLEAN /\ failed \in BOOLEAN
    /\ stableSince \in 0..MaxTime \cup {None} /\ wake \in Nat
    /\ state \in Ends \cup {"collecting"} /\ endedAt \in 0..MaxTime
    /\ lastRead \in [Sources -> Seq(Lines)] /\ lastChange \in 0..MaxTime

\* ExecuteProbe starts at the end of the file, ObserveProbe at its beginning.
Init ==
    /\ log \in [Sources -> {<<>>, <<Other>>}]
    /\ start = [s \in Sources |-> 0] /\ inode = [s \in Sources |-> 0] /\ rotations = 0
    /\ now = 0 /\ canceled = FALSE
    /\ hops = [s \in Sources |-> <<>>] /\ previous = [s \in Sources |-> <<>>]
    /\ fileInfo = [s \in Sources |-> None] /\ generation = [s \in Sources |-> 0]
    /\ fileOffset \in {0} \cup (IF FileBacked THEN {Len(log[s]) : s \in Sources} ELSE {})
    /\ issues = {} /\ pc = "top" /\ changed = FALSE /\ failed = FALSE
    /\ stableSince = None /\ wake = 0
    /\ state = "collecting" /\ endedAt = 0
    /\ lastRead = [s \in Sources |-> <<>>] /\ lastChange = 0

-----------------------------------------------------------------------------
(* The world                                                               *)

collector == <<cache, issues, pc, changed, failed, stableSince, wake, result>>

Write(s, l) ==
    /\ pc # "done"
    /\ Len(log[s]) < MaxLog
    /\ log' = [log EXCEPT ![s] = Append(@, l)]
    /\ UNCHANGED <<start, inode, rotations, now, canceled, collector>>

\* A Pod's log loses its oldest lines when the kubelet rotates it; a file is
\* renamed and opened anew, or truncated in place.
Rotate(s) ==
    /\ pc # "done"
    /\ rotations < MaxRotations
    /\ rotations' = rotations + 1
    /\ start[s] < Len(log[s])
    /\ IF FileBacked
       THEN /\ start' = [start EXCEPT ![s] = Len(log[s])]
            /\ inode' \in {inode, [inode EXCEPT ![s] = @ + 1]}
       ELSE /\ \E n \in start[s] + 1 .. Len(log[s]) : start' = [start EXCEPT ![s] = n]
            /\ UNCHANGED inode
    /\ UNCHANGED <<log, now, canceled, collector>>

Tick ==
    /\ pc # "done"
    /\ now < MaxTime
    /\ now' = now + 1
    /\ UNCHANGED <<world, canceled, collector>>

Cancel ==
    /\ pc # "done"
    /\ ~canceled
    /\ canceled' = TRUE
    /\ UNCHANGED <<world, now, collector>>

-----------------------------------------------------------------------------
(* Reading and merging                                                     *)

Visible(s) == SubSeq(log[s], start[s] + 1, Len(log[s]))
Info(s) == [inode |-> inode[s], size |-> Len(Visible(s))]

\* The file is another one, or has become shorter, since the last read.
Replaced(s) ==
    /\ fileInfo[s] # None
    /\ \/ Info(s).inode # fileInfo[s].inode
       \/ Info(s).size < fileInfo[s].size

\* Where the reader starts in the file, and in a file longer than the limit.
OffsetOf(s) == IF Info(s).size < fileOffset \/ Replaced(s) THEN 0 ELSE fileOffset
SeekTo(s) ==
    IF Info(s).size - OffsetOf(s) > ReadLimit THEN Info(s).size - ReadLimit ELSE OffsetOf(s)

\* A snapshot of s: its content, where that begins and whether it is all.
FileSnapshot(s) ==
    [content |-> SubSeq(Visible(s), SeekTo(s) + 1, Info(s).size),
     offset |-> SeekTo(s), incomplete |-> SeekTo(s) # OffsetOf(s)]
PodSnapshot(s, n) ==
    [content |-> SubSeq(Visible(s), 1, IF n < ReadLimit THEN n ELSE ReadLimit),
     offset |-> 0, incomplete |-> n > ReadLimit]

\* Mutant: a record is known by what it says.
OccurrenceByContent(snap, g, i) == Key(g, 0, snap.content[i])

\* Mutant: a record is known by its place in the snapshot.
OccurrenceByPlace(snap, g, i) == Key(g, i, snap.content[i])

\* The key of the i-th line of a snapshot read in file generation g.
Occurrence(snap, g, i) ==
    IF FileBacked THEN Key(g, snap.offset + i, snap.content[i])
    ELSE Key(0, Cardinality({j \in 1..i : snap.content[j] = snap.content[i]}), snap.content[i])

\* The places of the records in a snapshot.
Records(snap) == {i \in DOMAIN snap.content : snap.content[i] # Other}

\* Mutant: every line is a record.
KeysOfAll(snap, g) == [i \in DOMAIN snap.content |-> Occurrence(snap, g, i)]

\* The keys of the records in a snapshot, in order.
KeysOf(snap, g) ==
    At([i \in DOMAIN snap.content |-> Occurrence(snap, g, i)], Records(snap))

\* Mutant: a snapshot need not continue the last one.
AlwaysContinues(s, keys) == TRUE

\* Every record of the last snapshot is still where it was.
Continues(s, keys) == IsPrefix(previous[s], keys)

\* The file generation a snapshot of s belongs to, the keys it shows, and those of
\* them the cache does not have.
GenerationOf(s) == generation[s] + (IF FileBacked /\ Replaced(s) THEN 1 ELSE 0)
KeysRead(s, snap) == KeysOf(snap, GenerationOf(s))
NewKeys(s, snap) ==
    LET keys == KeysRead(s, snap)
    IN  At(keys, {n \in DOMAIN keys : keys[n] \notin ToSet(hops[s])})

\* merge, for the sources that brought a snapshot: snaps[s].
Merge(snaps) ==
    LET codes == {c \in Breaking : \E s \in DOMAIN snaps :
                    \/ c = "log-source-rotated" /\ FileBacked /\ Replaced(s)
                    \/ c = "log-window-truncated" /\ snaps[s].incomplete
                    \/ c = "log-order-unconfirmed" /\ ~Continues(s, KeysRead(s, snaps[s]))}
        over(f, read) == [s \in Sources |-> IF s \in DOMAIN snaps THEN read[s] ELSE f[s]]
    IN  /\ hops' = over(hops, [s \in DOMAIN snaps |-> hops[s] \o NewKeys(s, snaps[s])])
        /\ previous' = over(previous, [s \in DOMAIN snaps |-> KeysRead(s, snaps[s])])
        /\ generation' = over(generation, [s \in DOMAIN snaps |-> GenerationOf(s)])
        /\ fileInfo' = IF FileBacked THEN over(fileInfo, [s \in DOMAIN snaps |-> Info(s)])
                       ELSE fileInfo
        /\ issues' = issues \cup codes
        /\ lastRead' = over(lastRead,
                            [s \in DOMAIN snaps |-> At(snaps[s].content, Records(snaps[s]))])
        /\ changed' = (\E s \in DOMAIN snaps : NewKeys(s, snaps[s]) # <<>>)
        /\ lastChange' = IF changed' THEN now ELSE lastChange

\* One read of all the sources, and the merge of what it brought.  The sources
\* are independent, so reading them at one instant loses nothing.  Stat and ReadAll
\* of the file are one instant too, and the reader's previousFile is the fileInfo
\* that merge keeps: both are what the last read that succeeded saw.  A file that
\* cannot be opened brings nothing; a Pod whose stream fails brings nothing or
\* the beginning of its log.
Read ==
    /\ IF FileBacked
       THEN \/ /\ failed' = FALSE
               /\ \E s \in Sources : fileOffset' = OffsetOf(s)
               /\ Merge([s \in Sources |-> FileSnapshot(s)])
            \/ /\ failed' = TRUE
               /\ changed' = FALSE
               /\ UNCHANGED <<cache, issues>>
       ELSE \E bad \in SUBSET Sources : \E cut \in SUBSET bad :
              \E n \in [cut -> 0..MaxLog] :
                /\ \A s \in cut : n[s] <= Len(Visible(s))
                /\ failed' = (bad # {})
                /\ Merge([s \in (Sources \ bad) \cup cut |->
                           PodSnapshot(s, IF s \in cut THEN n[s] ELSE Len(Visible(s)))])
                /\ UNCHANGED fileOffset
    /\ UNCHANGED <<world, now, canceled, stableSince, wake, result>>

-----------------------------------------------------------------------------
(* The window                                                              *)

\* Mutant: only the caller's context ends the loop.
OnlyCanceled == canceled

\* windowCtx.Err() is not nil.
WindowOver == canceled \/ now >= Window

Finish(end, codes) ==
    /\ state' = end
    /\ endedAt' = now
    /\ issues' = issues \cup codes
    /\ pc' = "done"
    /\ UNCHANGED <<world, now, canceled, cache, changed, failed, stableSince, wake>>

FinishOver ==
    \/ canceled /\ Finish("cancelled", {"collection-cancelled"})
    \/ ~canceled /\ Finish("window-ended", {"collection-window-ended"})

\* The records collected of request context x in source s.
InContext(s, x) == SelectSeq(hops[s], LAMBDA k : Context[k.line] = x)

\* There are records, all with a runtime and a context; no source has lost its
\* order; and every context ends in its only record that is no redirect.
CanSettle ==
    /\ ~FileBacked      \* a mounted file does not tell the runtime
    /\ \E s \in Sources : hops[s] # <<>>
    /\ issues \cap Breaking = {}
    /\ \A s \in Sources : \A i \in DOMAIN hops[s] :
         LET x == Context[hops[s][i].line]
             rs == InContext(s, x)
         IN  /\ x # None
             /\ Last(rs).line \notin Redirects
             /\ \A j \in 1 .. Len(rs) - 1 : rs[j].line \in Redirects

\* The loop's head: the window may be over before the next read.
Top ==
    /\ pc = "top"
    /\ \/ WindowOver /\ FinishOver
       \/ ~WindowOver /\ pc' = "check" /\ Read

\* Mutant: a new record does not start the settling again.
StableThrough == stableSince # None /\ CanSettle

\* The cache has been able to settle since stableSince, and has not changed.
StableStill == stableSince # None /\ CanSettle /\ ~changed

Settled == StableStill /\ now - stableSince >= Settle

\* After a read: the window may be over by now, the read may have failed, the
\* records may have settled.
Check ==
    /\ pc = "check"
    /\ \/ WindowOver /\ FinishOver
       \/ ~WindowOver /\ failed /\ Finish("read-error", {"log-read-error"})
       \/ /\ ~WindowOver /\ ~failed
          /\ Settled
          /\ Finish("settled", {})
       \/ /\ ~WindowOver /\ ~failed
          /\ ~Settled
          /\ stableSince' = IF StableStill THEN stableSince ELSE IF CanSettle THEN now ELSE None
          /\ wake' = now + Interval
          /\ pc' = "wait"
          /\ UNCHANGED <<world, now, canceled, cache, issues, changed, failed, result>>

Wait ==
    /\ pc = "wait"
    /\ WindowOver \/ now >= wake
    /\ pc' = "top"
    /\ UNCHANGED <<world, now, canceled, cache, issues, changed, failed, stableSince, wake, result>>

-----------------------------------------------------------------------------

Next ==
    \/ \E s \in Sources, l \in Lines \cup {Other} : Write(s, l)
    \/ \E s \in Sources : Rotate(s)
    \/ Tick \/ Cancel
    \/ Top \/ Check \/ Wait

Spec == Init /\ [][Next]_vars

\* The clock runs and the collector's goroutine is scheduled; reads run under
\* windowCtx and come back.
FairSpec == Spec /\ WF_vars(Tick) /\ WF_vars(Top \/ Check \/ Wait)

-----------------------------------------------------------------------------
(* Properties                                                              *)

Count(seq, l) == Cardinality({i \in DOMAIN seq : seq[i] = l})
Collected(s) == [i \in DOMAIN hops[s] |-> hops[s][i].line]

\* Reading the same records again, in whatever part of a log that rotates under
\* the reader, never counts one of them twice.
NoDoubleCount ==
    \A s \in Sources, l \in Lines : Count(Collected(s), l) <= Count(log[s], l)

\* Equal records are not merged into one: whatever a snapshot shows is kept.
AllReadIsKept ==
    \A s \in Sources, l \in Lines : Count(Collected(s), l) >= Count(lastRead[s], l)

\* A settled collection returns, for every source, exactly the records of its
\* last snapshot in their order: no source was rotated or cut on the way.
SettledIsComplete ==
    state = "settled" => \A s \in Sources : Collected(s) = lastRead[s]

\* Settled means: nothing new for the settle time, within the window, and not
\* canceled, however late a read came back.
SettledInTime ==
    state = "settled" =>
        lastChange + Settle <= endedAt /\ endedAt < Window /\ ~canceled

\* The collection ends, also when no record ever comes.
WindowEnds == <>(pc = "done")

-----------------------------------------------------------------------------
(* Why the counts are right                                                *)

\* What is gone of a log was written, and a file is replaced by a rotation only.
LogBounds ==
    \A s \in Sources :
        start[s] <= Len(log[s]) /\ Len(log[s]) <= MaxLog /\ inode[s] <= rotations

\* The cache has no key twice and all keys of the last snapshot; that snapshot's
\* keys are those of its records.
KeysKept ==
    \A s \in Sources :
        /\ IsInjective(hops[s]) /\ IsInjective(previous[s])
        /\ ToSet(previous[s]) \subseteq ToSet(hops[s])
        /\ lastRead[s] = [n \in DOMAIN previous[s] |-> previous[s][n].line]

\* As long as every snapshot continued the one before, the cache is the last one.
OrderKept ==
    issues \cap Breaking = {} => \A s \in Sources : hops[s] = previous[s]

\* In a Pod's log an occurrence is one of the equal lines that were written.
PodPlaces ==
    ~FileBacked => \A s \in Sources : \A k \in ToSet(hops[s]) :
                       k.generation = 0 /\ k.place \in 1..Count(log[s], k.line)

\* In a file every key has a line of its own: one that is gone, or the one at the
\* key's place in the file that the last read saw.
FilePlaces ==
    FileBacked => \A s \in Sources : \E f \in [ToSet(hops[s]) -> DOMAIN log[s]] :
        /\ IsInjective(f)
        /\ \A k \in ToSet(hops[s]) :
             /\ log[s][f[k]] = k.line
             /\ f[k] > start[s] =>
                  /\ fileInfo[s] # None /\ ~Replaced(s)
                  /\ k.generation = generation[s] /\ k.place = f[k] - start[s]

\* No record since the settling began, unless the read just made brought one.
SettlingTrue ==
    /\ lastChange <= now
    /\ stableSince # None => /\ stableSince <= now
                             /\ lastChange <= stableSince \/ (pc \in {"check", "done"} /\ changed)
    /\ state = "collecting" <=> pc # "done"
    /\ state = "settled" => issues \cap Breaking = {}

\* Every key stands for a line that was written, and none for two.
Accounted ==
    LogBounds /\ KeysKept /\ OrderKept /\ PodPlaces /\ FilePlaces /\ SettlingTrue

=============================================================================
