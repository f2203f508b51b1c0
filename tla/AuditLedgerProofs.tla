-------------------------- MODULE AuditLedgerProofs -------------------------
(***************************************************************************)
(* AuditLedger for a file of any length: its types, that no acknowledged   *)
(* record is lost unseen and that tampering shows, for any number of       *)
(* processes and every fault; and the chain that one process at a time     *)
(* writes, through any number of restarts, crashes and failures.           *)
(***************************************************************************)
EXTENDS AuditLedger, SequenceTheorems, TLAPS

\* A finite sequence, of whatever elements.
IsSeq(s) == \E S : s \in Seq(S)

\* A line that parses carries a number, a datum and a hash.
RecordOK(x) ==
  /\ "data" \in DOMAIN x
  /\ x.seq \in Nat /\ x.data \in Data /\ x.hash # NoHash

LinesOK(s) ==
  /\ IsSeq(s)
  /\ \A i \in 1..Len(s) : s[i] # Bad => RecordOK(s[i])

TInv ==
  /\ LinesOK(lines)
  /\ unended \in BOOLEAN /\ (unended => Len(lines) > 0)
  /\ isOpen \subseteq Writer
  /\ nextSeq \in [Writer -> Nat]
  /\ DOMAIN lastHash = Writer
  /\ \A p \in isOpen : lastHash[p] # NoHash
  /\ DOMAIN unsynced = Writer
  /\ \A p \in Writer : \A r \in unsynced[p] : RecordOK(r) /\ r # Bad
  /\ \A r \in acked : RecordOK(r) /\ r # Bad
  /\ flaw \in Nat

-----------------------------------------------------------------------------
\* Appending a line to the file keeps the lines that were there.
LEMMA AppendLine ==
  ASSUME NEW s, IsSeq(s), NEW x
  PROVE  /\ IsSeq(Append(s, x))
         /\ Len(s) \in Nat
         /\ Len(Append(s, x)) = Len(s) + 1
         /\ \A i \in 1..Len(s) : Append(s, x)[i] = s[i]
         /\ Append(s, x)[Len(s) + 1] = x
<1>0. PICK S : s \in Seq(S)
  BY DEF IsSeq
<1> DEFINE T == S \cup {x}
<1>1. s \in Seq(T)
  BY <1>0
<1>2. Append(s, x) \in Seq(T) /\ x \in T
  BY <1>1
<1>3. IsSeq(Append(s, x))
  BY <1>2, Zenon DEF IsSeq
<1> QED
  BY <1>1, <1>2, <1>3

\* Changing one line of a sequence changes that line and nothing else.
LEMMA ReplaceLine ==
  ASSUME NEW s, IsSeq(s), NEW i \in 1..Len(s), NEW x
  PROVE  /\ IsSeq([s EXCEPT ![i] = x])
         /\ Len([s EXCEPT ![i] = x]) = Len(s)
         /\ [s EXCEPT ![i] = x][i] = x
         /\ \A j \in 1..Len(s) : j # i => [s EXCEPT ![i] = x][j] = s[j]
<1>1. PICK S : s \in Seq(S)
  BY DEF IsSeq
<1> DEFINE T == S \cup {x}
           t == [s EXCEPT ![i] = x]
<1>2. Len(s) \in Nat /\ s \in [1..Len(s) -> T]
  BY <1>1
<1>3. t \in [1..Len(s) -> T]
  BY <1>2
<1>4. t \in Seq(T) /\ Len(t) = Len(s)
  BY <1>2, <1>3
<1>5. IsSeq(t)
  BY <1>4, Zenon DEF IsSeq
<1> QED
  BY <1>2, <1>4, <1>5

\* What is left when line i is cut out has the line that followed at place i.
LEMMA CutLine ==
  ASSUME NEW s, IsSeq(s), NEW i \in 1..Len(s), i < Len(s),
         NEW t, t = SubSeq(s, 1, i - 1) \o SubSeq(s, i + 1, Len(s))
  PROVE  i \in 1..Len(t) /\ t[i] = s[i + 1]
<1>1. PICK S : s \in Seq(S)
  BY DEF IsSeq
<1>2. Len(s) \in Nat /\ \A k \in 1..Len(s) : s[k] \in S
  BY <1>1
<1> DEFINE a == SubSeq(s, 1, i - 1)
           b == SubSeq(s, i + 1, Len(s))
<1>3. a \in Seq(S) /\ Len(a) = i - 1
  <2>1. i - 1 \in Int /\ 1 \in Int /\ \A k \in 1..(i - 1) : s[k] \in S
    BY <1>2
  <2>2. a \in Seq(S) /\ Len(a) = IF 1 <= i - 1 THEN i - 1 - 1 + 1 ELSE 0
    BY <2>1, SubSeqProperties
  <2> QED
    BY <2>2
<1>4. b \in Seq(S) /\ Len(b) = Len(s) - i /\ b[1] = s[i + 1]
  <2>1. /\ i + 1 \in Int /\ Len(s) \in Int
        /\ \A k \in (i + 1)..Len(s) : s[k] \in S
    BY <1>2
  <2>2. /\ b \in Seq(S)
        /\ Len(b) = IF i + 1 <= Len(s) THEN Len(s) - (i + 1) + 1 ELSE 0
        /\ \A k \in 1..(Len(s) - (i + 1) + 1) : b[k] = s[i + 1 + k - 1]
    BY <2>1, SubSeqProperties
  <2>3. 1 \in 1..(Len(s) - (i + 1) + 1) /\ i + 1 + 1 - 1 = i + 1
    BY <1>2
  <2> QED
    BY <1>2, <2>2, <2>3
<1> HIDE DEF a, b
<1>5. Len(a \o b) = Len(s) - 1 /\ (a \o b)[i] = b[1]
  BY <1>2, <1>3, <1>4
<1>6. t = a \o b
  BY DEF a, b
<1>7. i \in 1..(Len(s) - 1)
  BY <1>2
<1> QED
  BY <1>4, <1>5, <1>6, <1>7

\* A record is not a malformed line.
LEMMA EntryIsRecord ==
  ASSUME NEW p, NEW d PROVE Entry(p, d) # Bad
<1>1. "seq" \in DOMAIN Entry(p, d)
  BY DEF Entry
<1>2. "seq" \notin DOMAIN Bad
  BY DEF Bad
<1> QED
  BY <1>1, <1>2

\* What Append is about to write is a record.
LEMMA EntryOK ==
  ASSUME TInv, NEW p \in isOpen, NEW d \in Data
  PROVE  /\ RecordOK(Entry(p, d)) /\ Entry(p, d) # Bad
         /\ Entry(p, d).seq = nextSeq[p] /\ Entry(p, d).prev = lastHash[p]
         /\ Entry(p, d).data = d
         /\ Entry(p, d).hash = ComputeRecordHash(lastHash[p], nextSeq[p], d)
  BY EntryIsRecord DEF TInv, RecordOK, Entry, ComputeRecordHash, NoHash

\* Whatever reaches the end of the file, the file is lines again; all lines stay,
\* but for an unended last one.
LEMMA WriteEffect ==
  ASSUME TInv, NEW x, x = Bad \/ RecordOK(x), Write(x)
  PROVE  /\ LinesOK(lines')
         /\ Len(lines) \in Nat /\ Len(lines') \in Nat
         /\ Len(lines') > 0 /\ Len(lines) <= Len(lines')
         /\ \A i \in 1..Len(lines) :
              i # Len(lines) \/ ~unended => lines'[i] = lines[i]
         /\ ~unended => Len(lines') = Len(lines) + 1 /\ lines'[Len(lines')] = x
         /\ unended => Len(lines') = Len(lines) /\ lines'[Len(lines')] = Bad
<1>1. IsSeq(lines) /\ Len(lines) \in Nat
  BY AppendLine DEF TInv, LinesOK
<1>2. CASE unended
  <2>1. Len(lines) \in 1..Len(lines)
    BY <1>1, <1>2 DEF TInv
  <2> DEFINE t == [lines EXCEPT ![Len(lines)] = Bad]
  <2>2. lines' = t
    BY <1>2 DEF Write
  <2>3. /\ IsSeq(t) /\ Len(t) = Len(lines)
        /\ t[Len(lines)] = Bad
        /\ \A j \in 1..Len(lines) : j # Len(lines) => t[j] = lines[j]
    BY <1>1, <2>1, ReplaceLine
  <2> HIDE DEF t
  <2>4. LinesOK(t)
    BY <2>1, <2>3 DEF TInv, LinesOK
  <2> QED
    BY <1>1, <1>2, <2>1, <2>2, <2>3, <2>4
<1>3. CASE ~unended
  <2>1. lines' = Append(lines, x)
    BY <1>3 DEF Write
  <2>2. /\ IsSeq(lines') /\ Len(lines') = Len(lines) + 1
        /\ \A i \in 1..Len(lines) : lines'[i] = lines[i]
        /\ lines'[Len(lines) + 1] = x
    BY <1>1, <2>1, AppendLine
  <2>3. LinesOK(lines')
    BY <1>1, <2>2 DEF TInv, LinesOK
  <2> QED
    BY <1>1, <1>3, <2>2, <2>3
<1> QED
  BY <1>2, <1>3

\* A write cut short is a write.
LEMMA ShortEffect ==
  ASSUME TInv, NEW p \in isOpen, NEW d \in Data, ShortWrite(p, d)
  PROVE  /\ unended' = TRUE /\ Flawed
         /\ \E x : (x = Bad \/ RecordOK(x)) /\ Write(x)
  BY EntryOK DEF ShortWrite

\* Noting a flaw keeps a line number.
LEMMA FlawedType ==
  ASSUME flaw \in Nat, Len(lines') \in Nat, Flawed PROVE flaw' \in Nat
  BY DEF Flawed

\* The types hold of the empty file.
LEMMA InitTypes == LedgerInit => TInv
<1> SUFFICES ASSUME LedgerInit PROVE TInv
  OBVIOUS
<1>1. lines \in Seq({}) /\ Len(lines) = 0
  BY DEF LedgerInit
<1>2. IsSeq(lines)
  BY <1>1, Zenon DEF IsSeq
<1>3. LinesOK(lines)
  <2>1. 1..Len(lines) = {}
    BY <1>1
  <2> QED
    BY <1>2, <2>1 DEF LinesOK
<1> QED
  BY <1>3 DEF LedgerInit, TInv

\* Every step keeps the types.
LEMMA NextTypes == TInv /\ [LedgerNext]_ledgerVars => TInv'
<1> SUFFICES ASSUME TInv, [LedgerNext]_ledgerVars PROVE TInv'
  OBVIOUS
<1>0. Len(lines) \in Nat /\ (lines = <<>> <=> Len(lines) = 0)
  <2>1. PICK S : lines \in Seq(S)
    BY DEF TInv, LinesOK, IsSeq
  <2> QED
    BY <2>1
<1>1. CASE UNCHANGED ledgerVars
  BY <1>1 DEF ledgerVars, TInv
<1>2. ASSUME NEW p \in Writer, NewLedger(p) PROVE TInv'
  <2>1. lines # <<>> => /\ lines[Len(lines)].seq \in Nat
                        /\ lines[Len(lines)].hash # NoHash
    BY <1>0, <1>2 DEF NewLedger, Scans, TInv, LinesOK, RecordOK
  <2>2. lastHash'[p] # NoHash
    BY <1>2, <2>1 DEF NewLedger, TInv, GenesisHash, NoHash
  <2>3. nextSeq' \in [Writer -> Nat]
    BY <1>2, <2>1 DEF NewLedger, TInv
  <2> QED
    BY <1>2, <2>2, <2>3 DEF NewLedger, TInv
<1>3. ASSUME NEW p \in Writer, NEW d \in Data, AppendWrite(p, d) PROVE TInv'
  <2> DEFINE e == Entry(p, d)
  <2>1. p \in isOpen /\ Write(e) /\ unended' = FALSE
        /\ unsynced' = [unsynced EXCEPT ![p] = {e}]
        /\ UNCHANGED <<isOpen, lastHash, nextSeq, acked>>
    BY <1>3 DEF AppendWrite, Idle
  <2>2. RecordOK(e) /\ e # Bad
    BY <2>1, EntryOK
  <2>3. LinesOK(lines') /\ Len(lines') \in Nat
    BY <2>1, <2>2, WriteEffect
  <2>4. flaw' \in Nat
    BY <1>3, <2>3, FlawedType DEF AppendWrite, TInv
  <2> HIDE DEF e
  <2>5. \A q \in Writer : \A r \in unsynced'[q] : RecordOK(r) /\ r # Bad
    BY <2>1, <2>2 DEF TInv
  <2>6. DOMAIN unsynced' = Writer
    BY <2>1 DEF TInv
  <2>7. unended' \in BOOLEAN /\ (unended' => Len(lines') > 0)
    BY <2>1
  <2> QED
    BY <2>1, <2>3, <2>4, <2>5, <2>6, <2>7 DEF TInv
<1>4. ASSUME NEW p \in Writer, AppendSync(p) PROVE TInv'
  <2>1. PICK e \in unsynced[p] :
          /\ acked' = acked \cup {e}
          /\ lastHash' = [lastHash EXCEPT ![p] = e.hash]
          /\ nextSeq' = [nextSeq EXCEPT ![p] = @ + 1]
          /\ unsynced' = [unsynced EXCEPT ![p] = {}]
          /\ UNCHANGED <<lines, unended, isOpen, flaw>>
    BY <1>4 DEF AppendSync
  <2>2. RecordOK(e) /\ e # Bad /\ e.hash # NoHash
    BY DEF TInv, RecordOK
  <2>3. nextSeq' \in [Writer -> Nat]
    BY <2>1 DEF TInv
  <2>4. DOMAIN lastHash' = Writer /\ \A q \in isOpen : lastHash'[q] # NoHash
    BY <2>1, <2>2 DEF TInv
  <2>5. /\ DOMAIN unsynced' = Writer
        /\ \A q \in Writer : \A r \in unsynced'[q] : RecordOK(r) /\ r # Bad
    BY <2>1 DEF TInv
  <2> QED
    BY <2>1, <2>2, <2>3, <2>4, <2>5 DEF TInv
<1>5. ASSUME NEW p \in Writer, NEW d \in Data, WriteError(p, d) PROVE TInv'
  <2>1. CASE UNCHANGED <<lines, unended, flaw>>
    BY <1>5, <2>1 DEF WriteError, TInv
  <2>2. CASE ShortWrite(p, d)
    <3>1. p \in isOpen
      BY <1>5 DEF WriteError, Idle
    <3>2. unended' = TRUE /\ LinesOK(lines') /\ Len(lines') > 0 /\ flaw' \in Nat
      BY <2>2, <3>1, ShortEffect, WriteEffect, FlawedType DEF TInv
    <3>3. unended' \in BOOLEAN
      BY <3>2
    <3> QED
      BY <1>5, <3>2, <3>3 DEF WriteError, TInv
  <2> QED
    BY <1>5, <2>1, <2>2 DEF WriteError
<1>6. ASSUME NEW p \in Writer, SyncError(p) PROVE TInv'
  <2>1. flaw' \in Nat
    BY <1>0, <1>6, FlawedType DEF SyncError, TInv
  <2> QED
    BY <1>6, <2>1 DEF SyncError, TInv
<1>7. ASSUME NEW p \in Writer, CloseLedger(p) \/ CrashWriter(p) PROVE TInv'
  <2>1. /\ isOpen' = isOpen \ {p} /\ UNCHANGED <<lastHash, nextSeq, acked>>
        /\ DOMAIN unsynced' = Writer
        /\ \A q \in Writer : \A r \in unsynced'[q] : RecordOK(r) /\ r # Bad
    BY <1>7 DEF CloseLedger, CrashWriter, TInv
  <2>2. CASE UNCHANGED <<lines, unended, flaw>>
    BY <2>1, <2>2 DEF TInv
  <2>3. ASSUME NEW d \in Data, p \in isOpen, ShortWrite(p, d) PROVE TInv'
    <3>1. unended' = TRUE /\ LinesOK(lines') /\ Len(lines') > 0 /\ flaw' \in Nat
      BY <2>3, ShortEffect, WriteEffect, FlawedType DEF TInv
    <3>2. unended' \in BOOLEAN
      BY <3>1
    <3> QED
      BY <2>1, <3>1, <3>2 DEF TInv
  <2> QED
    BY <1>7, <2>2, <2>3 DEF CloseLedger, CrashWriter
<1> QED
  BY <1>1, <1>2, <1>3, <1>4, <1>5, <1>6, <1>7 DEF LedgerNext

\* The types hold for ever.
LEMMA TypesHold == LedgerSpec => []TInv
  BY InitTypes, NextTypes, PTL DEF LedgerSpec

\* Types need no hypothesis: two writers and half-written lines break the chain,
\* never the shape of a line or of a ledger's memory.
THEOREM LedgerTypes == LedgerSpec => []LedgerTypeOK
<1>1. TInv => LedgerTypeOK
  <2> SUFFICES ASSUME TInv PROVE LedgerTypeOK
    OBVIOUS
  <2>1. unended => lines # <<>>
    BY DEF TInv
  <2> QED
    BY <2>1 DEF TInv, LedgerTypeOK, LinesOK, RecordOK
<1> QED
  BY <1>1, TypesHold, PTL

-----------------------------------------------------------------------------
\* A record is in the file, or the file has a line that does not parse.
Seen(r) == \E i \in 1..Len(lines) : lines[i] = r \/ lines[i] = Bad

\* Whatever was written is seen, and stays so: a line is only ever overwritten by
\* one that does not parse.
SeenInv ==
  /\ \A p \in Writer : \A r \in unsynced[p] : Seen(r)
  /\ \A r \in acked : Seen(r)

\* A write keeps what is seen, and makes what it writes seen.
LEMMA WriteSeen ==
  ASSUME TInv, NEW x, x = Bad \/ RecordOK(x), Write(x)
  PROVE  /\ Seen(x)'
         /\ \A r : Seen(r) => \E i \in 1..Len(lines') :
                                lines'[i] = r \/ lines'[i] = Bad
<1>1. /\ Len(lines) \in Nat /\ Len(lines') \in Nat /\ Len(lines') > 0
      /\ Len(lines) <= Len(lines')
      /\ \A i \in 1..Len(lines) :
           i # Len(lines) \/ ~unended => lines'[i] = lines[i]
      /\ ~unended => lines'[Len(lines')] = x
      /\ unended => Len(lines') = Len(lines) /\ lines'[Len(lines')] = Bad
  BY WriteEffect
<1>2. Len(lines') \in 1..Len(lines')
  BY <1>1
<1>3. Seen(x)'
  BY <1>1, <1>2 DEF Seen
<1>4. ASSUME NEW r, Seen(r)
      PROVE  \E i \in 1..Len(lines') : lines'[i] = r \/ lines'[i] = Bad
  <2>1. PICK i \in 1..Len(lines) : lines[i] = r \/ lines[i] = Bad
    BY <1>4 DEF Seen
  <2>2. i \in 1..Len(lines')
    BY <1>1
  <2> QED
    BY <1>1, <1>2, <2>1, <2>2
<1> QED
  BY <1>3, <1>4

\* Every step keeps what is seen.
LEMMA NextSeen == TInv /\ SeenInv /\ [LedgerNext]_ledgerVars => SeenInv'
<1> SUFFICES ASSUME TInv, SeenInv, [LedgerNext]_ledgerVars PROVE SeenInv'
  OBVIOUS
<1>1. ASSUME UNCHANGED lines,
             \A p \in Writer : unsynced'[p] \subseteq unsynced[p],
             \A r \in acked' : r \in acked \/ \E p \in Writer : r \in unsynced[p]
      PROVE  SeenInv'
  BY <1>1 DEF SeenInv, Seen
<1>2. ASSUME NEW x, x = Bad \/ RecordOK(x), Write(x), UNCHANGED acked,
             \A p \in Writer : unsynced'[p] \subseteq unsynced[p] \cup {x}
      PROVE  SeenInv'
  BY <1>2, WriteSeen DEF SeenInv, Seen
<1>3. CASE UNCHANGED ledgerVars
  BY <1>1, <1>3 DEF ledgerVars
<1>4. ASSUME NEW p \in Writer,
             NewLedger(p) \/ SyncError(p) \/ CloseLedger(p)
      PROVE  SeenInv'
  <2>1. \A q \in Writer : unsynced'[q] \subseteq unsynced[q]
    BY <1>4 DEF NewLedger, SyncError, CloseLedger, TInv
  <2> QED
    BY <1>1, <1>4, <2>1 DEF NewLedger, SyncError, CloseLedger
<1>5. ASSUME NEW p \in Writer, AppendSync(p) PROVE SeenInv'
  <2>1. \A q \in Writer : unsynced'[q] \subseteq unsynced[q]
    BY <1>5 DEF AppendSync, TInv
  <2> QED
    BY <1>1, <1>5, <2>1 DEF AppendSync
<1>6. ASSUME NEW p \in Writer, NEW d \in Data, AppendWrite(p, d) PROVE SeenInv'
  <2> DEFINE e == Entry(p, d)
  <2>1. p \in isOpen /\ Write(e) /\ UNCHANGED acked
        /\ unsynced' = [unsynced EXCEPT ![p] = {e}]
    BY <1>6 DEF AppendWrite, Idle
  <2>2. RecordOK(e)
    BY <2>1, EntryOK
  <2> HIDE DEF e
  <2>3. \A q \in Writer : unsynced'[q] \subseteq unsynced[q] \cup {e}
    BY <2>1 DEF TInv
  <2> QED
    BY <1>2, <2>1, <2>2, <2>3
<1>7. ASSUME NEW p \in Writer, NEW d \in Data, p \in isOpen, ShortWrite(p, d),
             UNCHANGED acked, \A q \in Writer : unsynced'[q] \subseteq unsynced[q]
      PROVE  SeenInv'
  <2>1. PICK x : (x = Bad \/ RecordOK(x)) /\ Write(x)
    BY <1>7, ShortEffect
  <2> QED
    BY <1>2, <1>7, <2>1
<1>8. ASSUME NEW p \in Writer, NEW d \in Data, WriteError(p, d) PROVE SeenInv'
  BY <1>1, <1>7, <1>8 DEF WriteError, Idle
<1>9. ASSUME NEW p \in Writer, CrashWriter(p) PROVE SeenInv'
  <2>1. \A q \in Writer : unsynced'[q] \subseteq unsynced[q]
    BY <1>9 DEF CrashWriter, TInv
  <2> QED
    BY <1>1, <1>7, <1>9, <2>1 DEF CrashWriter
<1> QED
  BY <1>3, <1>4, <1>5, <1>6, <1>8, <1>9 DEF LedgerNext

\* No acknowledged record is lost without the verifier noticing: for any number of
\* processes and whatever fails.
THEOREM LossShows == LedgerSpec => []LostIsSeen
<1>1. LedgerInit => SeenInv
  BY DEF LedgerInit, SeenInv
<1>2. TInv /\ SeenInv => LostIsSeen
  <2> SUFFICES ASSUME TInv, SeenInv, VerifyLedgerReader(lines), NEW r \in acked
               PROVE  r.seq < Len(lines) /\ lines[r.seq + 1] = r
    BY DEF LostIsSeen
  <2>1. PICK i \in 1..Len(lines) : lines[i] = r \/ lines[i] = Bad
    BY DEF SeenInv, Seen
  <2>2. lines[i] = r /\ lines[i].seq = i - 1
    BY <2>1 DEF VerifyLedgerReader, Scans, Links
  <2>3. Len(lines) \in Nat
    BY AppendLine DEF TInv, LinesOK
  <2> QED
    BY <2>2, <2>3
<1> QED
  BY <1>1, <1>2, TypesHold, NextSeen, PTL DEF LedgerSpec

-----------------------------------------------------------------------------
\* One process at a time has the file open: nothing in the code sees to it, and with
\* two of them the chain forks.
OneWriter == \A p, q \in Writer : p = q

\* Line i comes before the first flaw.
Sound(i) == flaw = 0 \/ i < flaw

\* The lines before the first flaw are a chain; only a flawed file has a last line
\* that the next write spoils.
FileOK ==
  /\ flaw <= Len(lines)
  /\ unended => flaw # 0
  /\ \A i \in 1..Len(lines) : Sound(i) => Scans(lines[i]) /\ Links(lines, i)

\* A process that has an unflawed file open stands at its tail, or one line behind
\* it between Write and Sync.
AtTail(p) ==
  \/ /\ unsynced[p] = {}
     /\ nextSeq[p] = Len(lines)
     /\ lastHash[p] = IF Len(lines) = 0 THEN GenesisHash
                                        ELSE lines[Len(lines)].hash
  \/ /\ Len(lines) > 0
     /\ unsynced[p] = {lines[Len(lines)]}
     /\ nextSeq[p] = Len(lines) - 1

MemoryOK ==
  /\ \A p \in isOpen : flaw = 0 => AtTail(p)
  /\ \A p \in Writer \ isOpen : unsynced[p] = {}

ChainInv == FileOK /\ MemoryOK

\* A write that leaves a flaw keeps the file: the flaw is its last line, or an
\* earlier one.
LEMMA FlawedFile ==
  ASSUME TInv, FileOK, NEW x, x = Bad \/ RecordOK(x), Write(x), Flawed
  PROVE  FileOK' /\ flaw' # 0
<1>1. /\ Len(lines) \in Nat /\ Len(lines') \in Nat
      /\ Len(lines) <= Len(lines') /\ Len(lines') > 0
      /\ \A i \in 1..Len(lines) :
           i # Len(lines) \/ ~unended => lines'[i] = lines[i]
      /\ ~unended => Len(lines') = Len(lines) + 1
  BY WriteEffect
<1>2. /\ flaw \in Nat /\ flaw <= Len(lines) /\ (unended => flaw # 0)
  BY DEF FileOK, TInv
<1>3. flaw' \in Nat /\ flaw' <= Len(lines') /\ flaw' # 0
  BY <1>1, <1>2 DEF Flawed
<1>4. ASSUME NEW i \in 1..Len(lines'), Sound(i)'
      PROVE  Scans(lines'[i]) /\ Links(lines', i)
  <2>1. i < flaw'
    BY <1>3, <1>4 DEF Sound
  <2>2. i \in 1..Len(lines) /\ Sound(i) /\ (i # Len(lines) \/ ~unended)
    BY <1>1, <1>2, <1>3, <2>1 DEF Flawed, Sound
  <2>3. i > 1 => i - 1 \in 1..Len(lines) /\ i - 1 # Len(lines)
    BY <1>1, <2>2
  <2>4. lines'[i] = lines[i] /\ (i > 1 => lines'[i - 1] = lines[i - 1])
    BY <1>1, <2>2, <2>3
  <2>5. Scans(lines[i]) /\ Links(lines, i)
    BY <2>2 DEF FileOK
  <2> QED
    BY <2>4, <2>5 DEF Links
<1> QED
  BY <1>1, <1>3, <1>4 DEF FileOK

\* NewLedger takes up the chain at its tail: the last line carries the number
\* one less than the length of the file.
LEMMA NewLedgerChain ==
  ASSUME TInv, ChainInv, NEW p \in Writer, NewLedger(p) PROVE ChainInv'
<1> USE DEF ChainInv
<1>0. PICK S : lines \in Seq(S)
  BY DEF TInv, LinesOK, IsSeq
<1>1. Len(lines) \in Nat /\ (lines = <<>> <=> Len(lines) = 0)
  BY <1>0
<1>2. FileOK'
  BY DEF FileOK, NewLedger, Links, Sound
<1>3. unsynced[p] = {} /\ p \notin isOpen
  BY DEF MemoryOK, NewLedger
<1>4. ASSUME flaw = 0 PROVE AtTail(p)'
  <2>1. Len(lines) > 0 => lines[Len(lines)].seq = Len(lines) - 1
    BY <1>1, <1>4 DEF FileOK, Links, Sound
  <2>2. nextSeq'[p] = Len(lines)
    BY <1>1, <2>1 DEF NewLedger, TInv
  <2>3. lastHash'[p] = IF Len(lines) = 0 THEN GenesisHash
                                         ELSE lines[Len(lines)].hash
    BY <1>1 DEF NewLedger, TInv
  <2> QED
    BY <1>3, <2>2, <2>3 DEF AtTail, NewLedger
<1>5. ASSUME NEW q \in isOpen, flaw = 0 PROVE AtTail(q)'
  BY <1>3, <1>5 DEF AtTail, NewLedger, MemoryOK, TInv
<1> QED
  BY <1>2, <1>4, <1>5 DEF MemoryOK, NewLedger

\* Append links one more record to the tail; one that is too long is the flaw.
LEMMA AppendWriteChain ==
  ASSUME OneWriter, TInv, ChainInv, NEW p \in Writer, NEW d \in Data,
         AppendWrite(p, d)
  PROVE  ChainInv'
<1> USE DEF ChainInv
<1> DEFINE e == Entry(p, d)
<1>1. /\ p \in isOpen /\ unsynced[p] = {} /\ Write(e) /\ unended' = FALSE
      /\ unsynced' = [unsynced EXCEPT ![p] = {e}]
      /\ IF d \in LongData THEN Flawed ELSE UNCHANGED flaw
      /\ UNCHANGED <<isOpen, lastHash, nextSeq>>
  BY DEF AppendWrite, Idle
<1>2. /\ RecordOK(e) /\ e # Bad /\ e.seq = nextSeq[p] /\ e.prev = lastHash[p]
      /\ e.data = d /\ e.hash = ComputeRecordHash(e.prev, e.seq, e.data)
  BY <1>1, EntryOK
<1> HIDE DEF e
<1>3. /\ Len(lines) \in Nat /\ Len(lines') \in Nat
      /\ Len(lines) <= Len(lines') /\ Len(lines') > 0
      /\ \A i \in 1..Len(lines) :
           i # Len(lines) \/ ~unended => lines'[i] = lines[i]
      /\ ~unended => Len(lines') = Len(lines) + 1 /\ lines'[Len(lines')] = e
  BY <1>1, <1>2, WriteEffect
<1>4. \A q \in Writer \ isOpen : unsynced'[q] = {}
  BY <1>1 DEF MemoryOK, TInv
<1>5. CASE d \in LongData
  <2>1. FileOK' /\ flaw' # 0
    BY <1>1, <1>2, <1>5, FlawedFile
  <2> QED
    BY <1>1, <1>4, <2>1 DEF MemoryOK
<1>6. CASE d \notin LongData /\ flaw # 0
  <2>1. /\ flaw' = flaw /\ flaw \in Nat /\ flaw <= Len(lines)
    BY <1>1, <1>6 DEF FileOK, TInv
  <2>2. ASSUME NEW i \in 1..Len(lines'), Sound(i)'
        PROVE  Scans(lines'[i]) /\ Links(lines', i)
    <3>1. i \in 1..Len(lines) /\ i # Len(lines) /\ Sound(i)
      BY <1>3, <1>6, <2>1, <2>2 DEF Sound
    <3>2. i > 1 => i - 1 \in 1..Len(lines) /\ i - 1 # Len(lines)
      BY <1>3, <3>1
    <3>3. lines'[i] = lines[i] /\ (i > 1 => lines'[i - 1] = lines[i - 1])
      BY <1>3, <3>1, <3>2
    <3>4. Scans(lines[i]) /\ Links(lines, i)
      BY <3>1 DEF FileOK
    <3> QED
      BY <3>3, <3>4 DEF Links
  <2>3. FileOK'
    BY <1>1, <1>3, <1>6, <2>1, <2>2 DEF FileOK
  <2> QED
    BY <1>1, <1>4, <1>6, <2>1, <2>3 DEF MemoryOK
<1>7. CASE d \notin LongData /\ flaw = 0
  <2>1. flaw' = 0 /\ ~unended /\ AtTail(p)
    BY <1>1, <1>7 DEF FileOK, MemoryOK
  <2>2. /\ nextSeq[p] = Len(lines)
        /\ Len(lines) > 0 => lastHash[p] = lines[Len(lines)].hash
    BY <1>1, <1>3, <2>1 DEF AtTail
  <2>3. ASSUME NEW i \in 1..Len(lines')
        PROVE  Scans(lines'[i]) /\ Links(lines', i)
    <3>1. CASE i = Len(lines')
      <4>1. i = Len(lines) + 1 /\ lines'[i] = e
        BY <1>3, <2>1, <3>1
      <4>2. Scans(lines'[i])
        BY <1>2, <1>7, <4>1 DEF Scans
      <4>3. i > 1 => lines'[i - 1] = lines[Len(lines)]
        BY <1>3, <2>1, <4>1
      <4> QED
        BY <1>2, <1>3, <2>2, <4>1, <4>2, <4>3 DEF Links
    <3>2. CASE i # Len(lines')
      <4>1. i \in 1..Len(lines) /\ lines'[i] = lines[i]
        BY <1>3, <2>1, <3>2
      <4>2. i > 1 => lines'[i - 1] = lines[i - 1]
        BY <1>3, <2>1, <4>1
      <4>3. Scans(lines[i]) /\ Links(lines, i)
        BY <1>7, <4>1 DEF FileOK, Sound
      <4> QED
        BY <4>1, <4>2, <4>3 DEF Links
    <3> QED
      BY <3>1, <3>2
  <2>4. FileOK'
    BY <1>1, <1>3, <2>1, <2>3 DEF FileOK
  <2>5. AtTail(p)'
    BY <1>1, <1>3, <2>1, <2>2 DEF AtTail, TInv
  <2>6. \A q \in isOpen : q = p
    BY DEF OneWriter, TInv
  <2> QED
    BY <1>1, <1>4, <2>1, <2>4, <2>5, <2>6 DEF MemoryOK
<1> QED
  BY <1>5, <1>6, <1>7

\* The acknowledgement moves the memory to the line that was written.
LEMMA AppendSyncChain ==
  ASSUME OneWriter, TInv, ChainInv, NEW p \in Writer, AppendSync(p)
  PROVE  ChainInv'
<1> USE DEF ChainInv
<1>1. PICK e \in unsynced[p] :
        /\ lastHash' = [lastHash EXCEPT ![p] = e.hash]
        /\ nextSeq' = [nextSeq EXCEPT ![p] = @ + 1]
        /\ unsynced' = [unsynced EXCEPT ![p] = {}]
        /\ UNCHANGED <<lines, unended, isOpen, flaw>>
  BY DEF AppendSync
<1>2. p \in isOpen /\ \A q \in isOpen : q = p
  BY <1>1 DEF MemoryOK, OneWriter, TInv
<1>3. Len(lines) \in Nat
  BY AppendLine DEF TInv, LinesOK
<1>4. ASSUME flaw = 0 PROVE AtTail(p)'
  <2>1. Len(lines) > 0 /\ e = lines[Len(lines)] /\ nextSeq[p] = Len(lines) - 1
    BY <1>1, <1>2, <1>4 DEF MemoryOK, AtTail
  <2> QED
    BY <1>1, <1>3, <2>1 DEF AtTail, TInv
<1>5. FileOK'
  BY <1>1 DEF FileOK, Links, Sound
<1>6. \A q \in Writer \ isOpen : unsynced'[q] = {}
  BY <1>1 DEF MemoryOK, TInv
<1> QED
  BY <1>1, <1>2, <1>4, <1>5, <1>6 DEF MemoryOK

\* A write that is cut short or fails leaves a flaw, or nothing.
LEMMA ShortChain ==
  ASSUME TInv, ChainInv, NEW p \in isOpen, NEW d \in Data, ShortWrite(p, d),
         isOpen' \subseteq isOpen, \A q \in Writer \ isOpen' : unsynced'[q] = {}
  PROVE  ChainInv'
<1>1. PICK x : (x = Bad \/ RecordOK(x)) /\ Write(x)
  BY ShortEffect
<1>2. FileOK' /\ flaw' # 0
  BY <1>1, FlawedFile, ShortEffect DEF ChainInv
<1> QED
  BY <1>2 DEF ChainInv, MemoryOK

\* A failed Sync makes its record the flaw: the next one repeats its number.
LEMMA SyncErrorChain ==
  ASSUME TInv, ChainInv, NEW p \in Writer, SyncError(p) PROVE ChainInv'
<1> USE DEF ChainInv
<1>1. /\ unsynced[p] # {} /\ unsynced' = [unsynced EXCEPT ![p] = {}]
      /\ UNCHANGED <<lines, unended, isOpen, lastHash, nextSeq>> /\ Flawed
  BY DEF SyncError
<1>2. p \in isOpen /\ Len(lines) \in Nat /\ flaw \in Nat
  BY <1>1, AppendLine DEF MemoryOK, TInv, LinesOK
<1>3. flaw = 0 => Len(lines) > 0
  BY <1>1, <1>2 DEF MemoryOK, AtTail
<1>4. flaw' # 0 /\ flaw' <= Len(lines) /\ flaw' \in Nat
  BY <1>1, <1>2, <1>3 DEF Flawed, FileOK
<1>5. \A i \in 1..Len(lines) : Sound(i)' => Sound(i)
  BY <1>1, <1>2, <1>4 DEF Sound, Flawed
<1>6. FileOK'
  BY <1>1, <1>4, <1>5 DEF FileOK, Links
<1>7. \A q \in Writer \ isOpen : unsynced'[q] = {}
  BY <1>1 DEF MemoryOK, TInv
<1> QED
  BY <1>1, <1>4, <1>6, <1>7 DEF MemoryOK

\* Leaving the file as it is.
LEMMA RestChain ==
  ASSUME TInv, ChainInv, UNCHANGED <<lines, unended, flaw, lastHash, nextSeq>>,
         isOpen' \subseteq isOpen, \A q \in isOpen' : unsynced'[q] = unsynced[q],
         \A q \in Writer \ isOpen' : unsynced'[q] = {}
  PROVE  ChainInv'
  BY DEF ChainInv, FileOK, MemoryOK, AtTail, Links, Sound

\* Every step of a single writer keeps the chain.
LEMMA NextChain ==
  ASSUME OneWriter PROVE TInv /\ ChainInv /\ [LedgerNext]_ledgerVars => ChainInv'
<1> SUFFICES ASSUME TInv, ChainInv, [LedgerNext]_ledgerVars PROVE ChainInv'
  OBVIOUS
<1>1. CASE UNCHANGED ledgerVars
  BY <1>1, RestChain DEF ledgerVars, ChainInv, MemoryOK
<1>2. ASSUME NEW p \in Writer, NEW d \in Data, WriteError(p, d) PROVE ChainInv'
  <2>1. p \in isOpen /\ UNCHANGED <<isOpen, lastHash, nextSeq, unsynced>>
    BY <1>2 DEF WriteError, Idle
  <2>2. \A q \in Writer \ isOpen' : unsynced'[q] = {}
    BY <2>1 DEF ChainInv, MemoryOK
  <2> QED
    BY <1>2, <2>1, <2>2, RestChain, ShortChain DEF WriteError
<1>3. ASSUME NEW p \in Writer, CloseLedger(p) \/ CrashWriter(p) PROVE ChainInv'
  <2>1. /\ p \in isOpen /\ isOpen' = isOpen \ {p} /\ UNCHANGED <<lastHash, nextSeq>>
        /\ \A q \in isOpen' : unsynced'[q] = unsynced[q]
    BY <1>3 DEF CloseLedger, CrashWriter, Idle, TInv
  <2>2. \A q \in Writer \ isOpen' : unsynced'[q] = {}
    BY <1>3, <2>1 DEF CloseLedger, CrashWriter, Idle, ChainInv, MemoryOK, TInv
  <2> QED
    BY <1>3, <2>1, <2>2, RestChain, ShortChain DEF CloseLedger, CrashWriter
<1> QED
  BY <1>1, <1>2, <1>3, NewLedgerChain, AppendWriteChain, AppendSyncChain,
     SyncErrorChain DEF LedgerNext

\* The first n lines of a file.
LEMMA PrefixLines ==
  ASSUME NEW s, IsSeq(s), NEW n \in Nat, n <= Len(s)
  PROVE  /\ Len(SubSeq(s, 1, n)) = n
         /\ \A i \in 1..n : SubSeq(s, 1, n)[i] = s[i]
<1>1. PICK S : s \in Seq(S)
  BY DEF IsSeq
<1>2. n \in Int /\ 1 \in Int /\ \A i \in 1..n : s[i] \in S
  BY <1>1
<1>3. /\ Len(SubSeq(s, 1, n)) = IF 1 <= n THEN n - 1 + 1 ELSE 0
      /\ \A i \in 1..(n - 1 + 1) : SubSeq(s, 1, n)[i] = s[1 + i - 1]
  BY <1>2, SubSeqProperties
<1>4. n - 1 + 1 = n /\ \A i \in 1..n : 1 + i - 1 = i
  OBVIOUS
<1> QED
  BY <1>3, <1>4

\* What one writer appends is a chain the verifier accepts up to the first line that
\* a failed, cut or overlong Append left: for every length of file, number of
\* restarts and crashes and under every fault.
THEOREM ChainIsValid == ASSUME OneWriter PROVE LedgerSpec => []ChainValid
<1>1. LedgerInit => ChainInv
  <2> SUFFICES ASSUME LedgerInit PROVE ChainInv
    OBVIOUS
  <2>1. Len(lines) = 0 /\ flaw = 0 /\ ~unended /\ isOpen = {}
        /\ unsynced = [p \in Writer |-> {}]
    BY DEF LedgerInit
  <2>2. 1..Len(lines) = {} /\ flaw <= Len(lines)
    BY <2>1
  <2> QED
    BY <2>1, <2>2 DEF ChainInv, FileOK, MemoryOK
<1>2. TInv /\ ChainInv => ChainValid
  <2> SUFFICES ASSUME TInv, ChainInv PROVE ChainValid
    OBVIOUS
  <2>1. IsSeq(lines) /\ Len(lines) \in Nat /\ flaw \in Nat /\ flaw <= Len(lines)
    BY AppendLine DEF TInv, LinesOK, ChainInv, FileOK
  <2>2. CASE flaw = 0
    BY <2>2 DEF ChainInv, FileOK, Sound, ChainValid, VerifyLedgerReader
  <2>3. CASE flaw # 0
    <3> DEFINE n == flaw - 1
               t == SubSeq(lines, 1, n)
    <3>1. n \in Nat /\ n <= Len(lines) /\ n < flaw
      BY <2>1, <2>3
    <3> HIDE DEF n
    <3>2. Len(t) = n /\ \A i \in 1..n : t[i] = lines[i]
      BY <2>1, <3>1, PrefixLines
    <3> HIDE DEF t
    <3>3. ASSUME NEW i \in 1..Len(t) PROVE Scans(t[i]) /\ Links(t, i)
      <4>1. i \in 1..n /\ i \in 1..Len(lines) /\ i < flaw
        BY <2>1, <3>1, <3>2
      <4>2. t[i] = lines[i] /\ (i > 1 => t[i - 1] = lines[i - 1])
        BY <3>1, <3>2, <4>1
      <4>3. Scans(lines[i]) /\ Links(lines, i)
        BY <4>1 DEF ChainInv, FileOK, Sound
      <4> QED
        BY <4>2, <4>3 DEF Links
    <3> QED
      BY <2>3, <3>3 DEF ChainValid, VerifyLedgerReader, t, n
  <2> QED
    BY <2>2, <2>3
<1>3. TInv /\ ChainInv /\ [LedgerNext]_ledgerVars => ChainInv'
  BY NextChain
<1> QED
  BY <1>1, <1>2, <1>3, TypesHold, PTL DEF LedgerSpec

-----------------------------------------------------------------------------
\* No single change, cut (but of the last line) or exchange of records goes
\* unnoticed by the verifier, in a ledger of any length, whoever wrote it.
THEOREM TamperingShows == LedgerSpec => []TamperEvident
<1>1. TInv => TamperEvident
  <2> SUFFICES ASSUME TInv, VerifyLedgerReader(lines), NEW i \in 1..Len(lines)
      PROVE
    /\ \A d \in Data \ {lines[i].data} :
         ~VerifyLedgerReader([lines EXCEPT ![i].data = d])
    /\ i < Len(lines) =>
         ~VerifyLedgerReader(SubSeq(lines, 1, i - 1)
                               \o SubSeq(lines, i + 1, Len(lines)))
    /\ \A j \in (i + 1)..Len(lines) :
         ~VerifyLedgerReader([lines EXCEPT ![i] = lines[j], ![j] = lines[i]])
    BY DEF TamperEvident
  <2>1. IsSeq(lines) /\ Len(lines) \in Nat
    BY AppendLine DEF TInv, LinesOK
  <2>2. \A k \in 1..Len(lines) : lines[k] # Bad /\ Links(lines, k)
    BY DEF VerifyLedgerReader, Scans
  <2>3. ASSUME NEW d \in Data \ {lines[i].data}
        PROVE  ~VerifyLedgerReader([lines EXCEPT ![i].data = d])
    <3> DEFINE x == [lines[i] EXCEPT !.data = d]
               t == [lines EXCEPT ![i] = x]
    <3>1. Len(t) = Len(lines) /\ t[i] = x
      BY <2>1, ReplaceLine
    <3>2. t = [lines EXCEPT ![i].data = d]
      OBVIOUS
    <3>3. lines[i].hash = <<lines[i].prev, lines[i].seq, lines[i].data>>
      BY <2>2 DEF Links, ComputeRecordHash
    <3>4. /\ x.hash = lines[i].hash /\ x.prev = lines[i].prev
          /\ x.seq = lines[i].seq /\ x.data = d
      BY <2>2 DEF TInv, LinesOK, RecordOK
    <3> HIDE DEF t, x
    <3>5. x.hash # ComputeRecordHash(x.prev, x.seq, x.data)
      BY <3>3, <3>4 DEF ComputeRecordHash
    <3>6. ~VerifyLedgerReader(t)
      BY <3>1, <3>5 DEF VerifyLedgerReader, Links, Scans
    <3> QED
      BY <3>2, <3>6
  <2>4. ASSUME i < Len(lines)
        PROVE  ~VerifyLedgerReader(SubSeq(lines, 1, i - 1)
                                     \o SubSeq(lines, i + 1, Len(lines)))
    <3> DEFINE t == SubSeq(lines, 1, i - 1) \o SubSeq(lines, i + 1, Len(lines))
    <3>1. i \in 1..Len(t) /\ t[i] = lines[i + 1]
      BY <2>1, <2>4, CutLine
    <3> HIDE DEF t
    <3>2. i + 1 \in 1..Len(lines) /\ i + 1 - 1 # i - 1
      BY <2>1, <2>4
    <3>3. t[i] = Bad \/ t[i].seq # i - 1
      BY <2>2, <3>1, <3>2 DEF Links
    <3>4. ~VerifyLedgerReader(t)
      BY <3>1, <3>3 DEF VerifyLedgerReader, Links, Scans
    <3> QED
      BY <3>4 DEF t
  <2>5. ASSUME NEW j \in (i + 1)..Len(lines)
        PROVE  ~VerifyLedgerReader([lines EXCEPT ![i] = lines[j],
                                                 ![j] = lines[i]])
    <3> DEFINE u == [lines EXCEPT ![i] = lines[j]]
               t == [u EXCEPT ![j] = lines[i]]
    <3>1. IsSeq(u) /\ Len(u) = Len(lines) /\ u[i] = lines[j]
      BY <2>1, ReplaceLine
    <3>2. j \in 1..Len(u) /\ i \in 1..Len(u) /\ i # j
      BY <2>1, <3>1
    <3>3. Len(t) = Len(lines) /\ t[i] = lines[j]
      <4> HIDE DEF u
      <4> QED
        BY <3>1, <3>2, ReplaceLine
    <3> HIDE DEF t
    <3>4. t[i] = Bad \/ t[i].seq # i - 1
      BY <2>1, <2>2, <3>3 DEF Links
    <3>5. ~VerifyLedgerReader(t)
      BY <3>3, <3>4 DEF VerifyLedgerReader, Links, Scans
    <3> QED
      BY <3>5 DEF t
  <2> QED
    BY <2>3, <2>4, <2>5
<1> QED
  BY <1>1, TypesHold, PTL

=============================================================================
