---------------------------- MODULE AuditLedger -----------------------------
(***************************************************************************)
(* The append-only hash chain of internal/audit: Ledger (ledger.go) in the *)
(* processes that open one file, and VerifyLedgerReader (verify.go).       *)
(*                                                                         *)
(* The file is a sequence of lines.  A line is a record or Bad, bytes that *)
(* do not parse; the last line may lack its newline, and whatever is       *)
(* written next then runs into it.  A record whose datum is long makes a   *)
(* line of more than 64 KiB, at which bufio.Scanner stops with an error:   *)
(* Append writes it, NewLedger and the verifier refuse to read on.         *)
(* Append's Write and its Sync are two steps, so that a process may die,   *)
(* or another one write, between them.  A hash value is the tuple of what  *)
(* was hashed, that is, SHA-256 without collisions.  The datum of a record *)
(* is the string of bytes it feeds to the hash between the sequence number *)
(* and the end (timestamp, resource, state, runbook, payload digest, in    *)
(* one piece); host_uuid is not hashed and is left out.                    *)
(***************************************************************************)
EXTENDS Naturals, Sequences

CONSTANTS
  Writer,      \* processes with a Ledger on the file
  Data,        \* what records say
  LongData,    \* the data whose records the scanner does not read
  MaxLines,    \* bound on the file, for model checking
  LedgerFaults

\* crash: the process dies in Append; torn, newline: what was being written is cut
\* inside the record or before its newline.  write: Append's Write fails before
\* the first byte; short: after some of them; sync: Sync fails after Write.
FaultKinds == {"crash", "torn", "newline", "write", "short", "sync"}

ASSUME LedgerAssumption ==
  /\ MaxLines \in Nat
  /\ LongData \subseteq Data
  /\ LedgerFaults \subseteq FaultKinds

VARIABLES
  lines,       \* the file
  unended,     \* its last line has no newline
  isOpen,      \* processes with the file open
  lastHash,    \* Ledger.lastHash of each
  nextSeq,     \* Ledger.nextSeq of each
  unsynced,    \* the record each has written and not synced, in a set
  acked,       \* records whose Append returned no error
  flaw         \* history: the first line left by an Append that failed, was cut
               \* short or wrote more than the scanner reads; 0 if there is none

ledgerVars ==
  <<lines, unended, isOpen, lastHash, nextSeq, unsynced, acked, flaw>>

-----------------------------------------------------------------------------
Bad == [malformed |-> TRUE]

NoHash == <<>>

\* Derived from the host's name in the daemon and from a fixed one in
\* remediation-ctl; the verifier leaves the first prev free, so one value will do.
GenesisHash == <<"INIT">>

ComputeRecordHash(h, n, d) == <<h, n, d>>

Entry(p, d) ==
  [seq |-> nextSeq[p], prev |-> lastHash[p], data |-> d,
   hash |-> ComputeRecordHash(lastHash[p], nextSeq[p], d)]

LedgerInit ==
  /\ lines = <<>>
  /\ unended = FALSE
  /\ isOpen = {}
  /\ lastHash = [p \in Writer |-> NoHash]
  /\ nextSeq = [p \in Writer |-> 0]
  /\ unsynced = [p \in Writer |-> {}]
  /\ acked = {}
  /\ flaw = 0

\* The bytes x of a line reach the end of the file.
Write(x) ==
  lines' = IF unended THEN [lines EXCEPT ![Len(lines)] = Bad]
                      ELSE Append(lines, x)

\* History: the line at the end of the file is flawed, if none was before.
Flawed == flaw' = IF flaw = 0 THEN Len(lines') ELSE flaw

\* The scanner returns the line, and json.Unmarshal accepts it.
Scans(x) == x # Bad /\ x.data \notin LongData

\* The links VerifyLedgerReader follows at line i: the sequence number counts
\* from 0, prev is the hash of the line before (the first one is free), and the
\* stored hash is the one it recomputes.
Links(s, i) ==
  /\ s[i].seq = i - 1
  /\ i > 1 => s[i].prev = s[i - 1].hash
  /\ s[i].hash = ComputeRecordHash(s[i].prev, s[i].seq, s[i].data)

\* Seeded defect, of VerifyLedgerReader: prev is not compared.
VerifyUnlinked(s) ==
  \A i \in 1..Len(s) :
    /\ Scans(s[i])
    /\ s[i].hash = ComputeRecordHash(s[i].prev, s[i].seq, s[i].data)

\* Seeded defect, of VerifyLedgerReader: what does not parse is skipped.
VerifySkipping(s) == \A i \in 1..Len(s) : Scans(s[i]) => Links(s, i)

VerifyLedgerReader(s) == \A i \in 1..Len(s) : Scans(s[i]) /\ Links(s, i)

-----------------------------------------------------------------------------
\* Seeded defect, of NewLedger: the chain of an empty file is not rooted.
NewLedgerNoGenesis(p) ==
  /\ p \notin isOpen
  /\ \A i \in 1..Len(lines) : Scans(lines[i])
  /\ isOpen' = isOpen \cup {p}
  /\ lastHash' = [lastHash EXCEPT ![p] = IF lines = <<>> THEN NoHash
                                         ELSE lines[Len(lines)].hash]
  /\ nextSeq' = [nextSeq EXCEPT ![p] = IF lines = <<>> THEN 0
                                       ELSE lines[Len(lines)].seq + 1]
  /\ UNCHANGED <<lines, unended, unsynced, acked, flaw>>

\* Seeded defect, of NewLedger: numbering restarts when the file is reopened.
NewLedgerFromZero(p) ==
  /\ p \notin isOpen
  /\ \A i \in 1..Len(lines) : Scans(lines[i])
  /\ isOpen' = isOpen \cup {p}
  /\ lastHash' = [lastHash EXCEPT ![p] = IF lines = <<>> THEN GenesisHash
                                         ELSE lines[Len(lines)].hash]
  /\ nextSeq' = [nextSeq EXCEPT ![p] = 0]
  /\ UNCHANGED <<lines, unended, unsynced, acked, flaw>>

\* NewLedger scans to the tail; a line that does not parse or is too long is fatal.
NewLedger(p) ==
  /\ p \notin isOpen
  /\ \A i \in 1..Len(lines) : Scans(lines[i])
  /\ isOpen' = isOpen \cup {p}
  /\ lastHash' = [lastHash EXCEPT ![p] = IF lines = <<>> THEN GenesisHash
                                         ELSE lines[Len(lines)].hash]
  /\ nextSeq' = [nextSeq EXCEPT ![p] = IF lines = <<>> THEN 0
                                       ELSE lines[Len(lines)].seq + 1]
  /\ UNCHANGED <<lines, unended, unsynced, acked, flaw>>

\* The process is not in Append: the mutex is free.
Idle(p) == p \in isOpen /\ unsynced[p] = {}

\* Ledger.Append: the record and its newline are written ...
AppendWrite(p, d) ==
  /\ Idle(p)
  /\ Len(lines) < MaxLines
  /\ Write(Entry(p, d))
  /\ unended' = FALSE
  /\ unsynced' = [unsynced EXCEPT ![p] = {Entry(p, d)}]
  /\ IF d \in LongData THEN Flawed ELSE UNCHANGED flaw
  /\ UNCHANGED <<isOpen, lastHash, nextSeq, acked>>

\* ... synced, and acknowledged.
AppendSync(p) ==
  \E e \in unsynced[p] :
    /\ acked' = acked \cup {e}
    /\ lastHash' = [lastHash EXCEPT ![p] = e.hash]
    /\ nextSeq' = [nextSeq EXCEPT ![p] = @ + 1]
    /\ unsynced' = [unsynced EXCEPT ![p] = {}]
    /\ UNCHANGED <<lines, unended, isOpen, flaw>>

\* A write cut short: inside the record, or between it and its newline.
ShortWrite(p, d) ==
  /\ Len(lines) < MaxLines
  /\ unended' = TRUE
  /\ \/ "torn" \in LedgerFaults /\ Write(Bad)
     \/ "newline" \in LedgerFaults /\ Write(Entry(p, d))
  /\ Flawed

\* Append's error returns.  Ledger's memory stays where it was, and the engine
\* discards the error.
WriteError(p, d) ==
  /\ Idle(p)
  /\ \/ "write" \in LedgerFaults /\ UNCHANGED <<lines, unended, flaw>>
     \/ "short" \in LedgerFaults /\ ShortWrite(p, d)
  /\ UNCHANGED <<isOpen, lastHash, nextSeq, unsynced, acked>>

SyncError(p) ==
  /\ "sync" \in LedgerFaults
  /\ unsynced[p] # {}
  /\ unsynced' = [unsynced EXCEPT ![p] = {}]
  /\ UNCHANGED <<lines, unended, isOpen, lastHash, nextSeq, acked>>
  /\ Flawed

CloseLedger(p) ==
  /\ Idle(p)
  /\ isOpen' = isOpen \ {p}
  /\ UNCHANGED <<lines, unended, lastHash, nextSeq, unsynced, acked, flaw>>

\* The process or the machine dies: before Append's write, inside it or after it.
CrashWriter(p) ==
  /\ "crash" \in LedgerFaults
  /\ p \in isOpen
  /\ isOpen' = isOpen \ {p}
  /\ unsynced' = [unsynced EXCEPT ![p] = {}]
  /\ \/ UNCHANGED <<lines, unended, flaw>>
     \/ unsynced[p] = {} /\ \E d \in Data : ShortWrite(p, d)
  /\ UNCHANGED <<lastHash, nextSeq, acked>>

LedgerNext ==
  \E p \in Writer :
    \/ NewLedger(p)
    \/ \E d \in Data : AppendWrite(p, d) \/ WriteError(p, d)
    \/ AppendSync(p) \/ SyncError(p)
    \/ CloseLedger(p)
    \/ CrashWriter(p)

LedgerSpec == LedgerInit /\ [][LedgerNext]_ledgerVars

-----------------------------------------------------------------------------
LedgerTypeOK ==
  /\ \A i \in 1..Len(lines) :
       lines[i] # Bad => lines[i].seq \in Nat /\ lines[i].data \in Data
  /\ unended \in BOOLEAN /\ (unended => lines # <<>>)
  /\ isOpen \subseteq Writer
  /\ nextSeq \in [Writer -> Nat]
  /\ \A p \in isOpen : lastHash[p] # NoHash
  /\ \A p \in Writer : \A r \in unsynced[p] : r.seq \in Nat /\ r.data \in Data
  /\ \A r \in acked : r.seq \in Nat /\ r.data \in Data
  /\ flaw \in Nat

\* "An append-only SHA-256 recurrence hash chain": what one process at a time
\* appends, through any number of restarts and crashes, is a chain the verifier
\* accepts, up to the first line that an Append which failed, was cut short by a
\* crash or wrote more than 64 KiB left behind.  From there on the code promises
\* nothing: it does not cut such a line off, and writes on behind it.
ChainValid ==
  VerifyLedgerReader(IF flaw = 0 THEN lines ELSE SubSeq(lines, 1, flaw - 1))

\* A record whose Append returned without error does not get lost unseen: in a file
\* the verifier accepts it stands at the line its sequence number says, whatever
\* writes and syncs failed, whoever died in Append and however many processes
\* appended.
LostIsSeen ==
  VerifyLedgerReader(lines) =>
    \A r \in acked : r.seq < Len(lines) /\ lines[r.seq + 1] = r

\* Of a file that it accepts, the verifier rejects what is left when one record's
\* datum was changed, a line other than the last dropped, or two exchanged.
TamperEvident ==
  VerifyLedgerReader(lines) =>
    \A i \in 1..Len(lines) :
      /\ \A d \in Data \ {lines[i].data} :
           ~VerifyLedgerReader([lines EXCEPT ![i].data = d])
      /\ i < Len(lines) =>
           ~VerifyLedgerReader(SubSeq(lines, 1, i - 1)
                                 \o SubSeq(lines, i + 1, Len(lines)))
      /\ \A j \in (i + 1)..Len(lines) :
           ~VerifyLedgerReader([lines EXCEPT ![i] = lines[j], ![j] = lines[i]])

\* "Append-only, hash-chained audit journal": a file that only Append has written
\* to, without any failure, is one the verifier accepts.
AppendedVerifies == VerifyLedgerReader(lines)

=============================================================================
