---------------------------- MODULE AccountProofs ----------------------------
(***************************************************************************)
(* Proofs about AccountAnalysis, and with it about the engines of          *)
(* AccountEngines, for every rule, opening balance, set of trades, delays  *)
(* and bounds.                                                             *)
(*                                                                         *)
(* The invariant is that the books are entries in the order of their times *)
(* and that the ledger is made of events they published.  The rest is what *)
(* the engines' operators give for such rows.                              *)
(***************************************************************************)
EXTENDS AccountAnalysis, Extremes, SequenceTheorems

Kinds == {"opening", "cash_out", "cash_in", "closing"}
Entry == [at : Nat, kind : Kinds, amount : Nat, balance : Nat]

\* Entries come one after the other, and only a trade changes the balance.
BooksKept ==
  /\ books \in Seq(Entry) /\ Len(books) >= 1
  /\ \A i, j \in 1..Len(books) : i < j => books[i].at < books[j].at
  /\ \A n \in 2..Len(books) : ~IsTrade(n) => books[n].balance = books[n - 1].balance
  /\ ~IsTrade(1)

EventsPublished ==
  /\ accepted \subseteq Published /\ IsFiniteSet(accepted)
  /\ rejected \subseteq Published /\ IsFiniteSet(rejected)
  /\ elsewhere \in Nat

IInv == BooksKept /\ EventsPublished

\* An entry more in the books keeps what they published.
LEMMA AppendKeeps ==
  ASSUME BooksKept, NEW entry \in Entry, books' = Append(books, entry),
         books[Len(books)].at < entry.at,
         entry.kind \notin {"cash_out", "cash_in"} => entry.balance = books[Len(books)].balance
  PROVE BooksKept' /\ Published \subseteq Published'
<1>1. /\ books \in Seq(Entry) /\ Len(books) \in Nat /\ Len(books) >= 1
      /\ \A i, j \in 1..Len(books) : i < j => books[i].at < books[j].at
      /\ \A n \in 2..Len(books) : ~IsTrade(n) => books[n].balance = books[n - 1].balance
      /\ ~IsTrade(1)
  BY DEF BooksKept
<1>2. /\ books' \in Seq(Entry) /\ Len(books') = Len(books) + 1
      /\ \A i \in 1..Len(books) : books'[i] = books[i]
      /\ books'[Len(books) + 1] = entry
  BY <1>1
<1>3. \A i \in 1..Len(books) : books[i] \in Entry /\ books[i].at \in Nat
  <2>1. \A i \in 1..Len(books) : books[i] \in Entry
    BY <1>1
  <2> QED BY <2>1 DEF Entry
<1>4. \A i \in 1..Len(books) : books[i].at < entry.at
  <2> SUFFICES ASSUME NEW i \in 1..Len(books) PROVE books[i].at < entry.at
    OBVIOUS
  <2>1. i = Len(books) \/ books[i].at < books[Len(books)].at
    BY <1>1
  <2>2. books[i].at \in Nat /\ books[Len(books)].at \in Nat /\ entry.at \in Nat
    BY <1>1, <1>3 DEF Entry
  <2> QED BY <2>1, <2>2
<1>5. \A i, j \in 1..Len(books') : i < j => books'[i].at < books'[j].at
  BY <1>1, <1>2, <1>4
<1>6. \A n \in 1..Len(books) : IsTrade(n)' <=> IsTrade(n)
  BY <1>2 DEF IsTrade
<1>7. \A n \in 2..Len(books') : ~IsTrade(n)' => books'[n].balance = books'[n - 1].balance
  <2> SUFFICES ASSUME NEW n \in 2..Len(books'), ~IsTrade(n)'
               PROVE books'[n].balance = books'[n - 1].balance
    OBVIOUS
  <2>1. CASE n \in 2..Len(books)
    BY <1>1, <1>2, <1>6, <2>1
  <2>2. CASE n = Len(books) + 1
    BY <1>1, <1>2, <2>2 DEF IsTrade
  <2> QED BY <1>1, <1>2, <2>1, <2>2
<1>8. ~IsTrade(1)'
  BY <1>1, <1>6
<1>9. \A n \in 1..Len(books) : EventsOf(n)' = EventsOf(n)
  BY <1>2, <1>6 DEF EventsOf
<1>10. Published \subseteq Published'
  BY <1>1, <1>2, <1>9 DEF Published
<1>11. Len(books') >= 1
  BY <1>1, <1>2
<1> QED BY <1>2, <1>5, <1>7, <1>8, <1>10, <1>11 DEF BooksKept

LEMMA Invariant == Spec => []IInv
<1>1. Init => IInv
  <2> SUFFICES ASSUME Init PROVE IInv
    OBVIOUS
  <2> DEFINE first == [at |-> 0, kind |-> "opening", amount |-> 0, balance |-> Opening]
  <2>1. books = <<first>> /\ accepted = {} /\ rejected = {} /\ elsewhere = 0
    BY DEF Init
  <2>2. first \in Entry /\ first.kind = "opening"
    BY TradesAssumption DEF Entry, Kinds
  <2> HIDE DEF first
  <2>3. books \in Seq(Entry) /\ Len(books) = 1 /\ books[1] = first
    BY <2>1, <2>2
  <2>4. BooksKept
    BY <2>2, <2>3 DEF BooksKept, IsTrade
  <2>5. EventsPublished
    BY <2>1, FS_EmptySet DEF EventsPublished
  <2> QED BY <2>4, <2>5 DEF IInv
<1>2. IInv /\ [Next]_vars => IInv'
  <2> SUFFICES ASSUME IInv, [Next]_vars PROVE IInv'
    OBVIOUS
  <2>0. /\ books \in Seq(Entry) /\ Len(books) \in Nat /\ Len(books) >= 1
        /\ LastEntry \in Entry /\ LastEntry = books[Len(books)]
    BY DEF IInv, BooksKept, LastEntry
  <2>1. ASSUME books' = books, accepted' \subseteq Published, rejected' \subseteq Published,
               IsFiniteSet(accepted'), IsFiniteSet(rejected'), elsewhere' \in Nat
        PROVE IInv'
    <3>1. BooksKept' /\ Published' = Published
      BY <2>1 DEF IInv, BooksKept, IsTrade, Published, EventsOf
    <3> QED BY <2>1, <3>1 DEF IInv, EventsPublished
  <2>2. ASSUME NEW entry \in Entry, books' = Append(books, entry), LastEntry.at < entry.at,
               entry.kind \notin {"cash_out", "cash_in"} => entry.balance = LastEntry.balance,
               UNCHANGED <<accepted, rejected, elsewhere>>
        PROVE IInv'
    <3>1. BooksKept' /\ Published \subseteq Published'
      BY <2>0, <2>2, AppendKeeps DEF IInv
    <3> QED BY <2>2, <3>1 DEF IInv, EventsPublished
  <2>3. ASSUME NEW trade \in Trades, Trade(trade) PROVE IInv'
    <3> DEFINE entry == [at |-> LastEntry.at + trade.after, kind |-> trade.kind,
                         amount |-> trade.amount,
                         balance |-> BalanceAfter(LastEntry.balance, trade)]
    <3>1. trade \in [kind : {"cash_out", "cash_in"}, amount : Nat \ {0}, after : Nat \ {0}]
      BY TradesAssumption
    <3>2. BalanceAfter(LastEntry.balance, trade) \in Nat
      BY <2>0, <3>1 DEF BalanceAfter, Entry
    <3>3. entry \in Entry /\ LastEntry.at < entry.at /\ entry.kind \in {"cash_out", "cash_in"}
      BY <2>0, <3>1, <3>2 DEF Entry, Kinds
    <3>4. books' = Append(books, entry) /\ UNCHANGED <<accepted, rejected, elsewhere>>
      BY <2>3 DEF Trade
    <3> HIDE DEF entry
    <3> QED BY <2>2, <3>3, <3>4
  <2>4. CASE Close
    <3> DEFINE entry == [at |-> LastEntry.at + ClosesAfter, kind |-> "closing", amount |-> 0,
                         balance |-> LastEntry.balance]
    <3>1. entry \in Entry /\ LastEntry.at < entry.at /\ entry.balance = LastEntry.balance
      BY <2>0, TradesAssumption DEF Entry, Kinds
    <3>2. books' = Append(books, entry) /\ UNCHANGED <<accepted, rejected, elsewhere>>
      BY <2>4 DEF Close
    <3> HIDE DEF entry
    <3> QED BY <2>2, <3>1, <3>2
  <2>5. ASSUME NEW e \in Published, Accept(e) \/ Reject(e) PROVE IInv'
    <3>1. /\ books' = books /\ elsewhere' = elsewhere
          /\ accepted' = accepted \/ accepted' = accepted \cup {e}
          /\ rejected' = rejected \/ rejected' = rejected \cup {e}
      BY <2>5 DEF Accept, Reject
    <3>2. IsFiniteSet(accepted') /\ IsFiniteSet(rejected')
      BY <3>1, FS_AddElement DEF IInv, EventsPublished
    <3> QED BY <2>1, <3>1, <3>2 DEF IInv, EventsPublished
  <2>6. ASSUME NEW ahead \in Ahead, OtherFeed(ahead) PROVE IInv'
    <3>1. UNCHANGED <<books, accepted, rejected>> /\ elsewhere' = LastEntry.at + ahead
      BY <2>6 DEF OtherFeed
    <3>2. elsewhere' \in Nat
      BY <2>0, <3>1, TradesAssumption DEF Entry
    <3> QED BY <2>1, <3>1, <3>2 DEF IInv, EventsPublished
  <2>7. CASE UNCHANGED vars
    BY <2>1, <2>7 DEF vars, IInv, EventsPublished
  <2> QED BY <2>3, <2>4, <2>5, <2>6, <2>7 DEF Next
<1> QED BY <1>1, <1>2, PTL DEF Spec


-----------------------------------------------------------------------------
(* The rows of the account. *)

SnapshotRow == [at : Nat, twin : BOOLEAN, balance : Nat]
TransactionRow == [n : Nat, at : Nat, kind : {"cash_out", "cash_in"}, amount : Nat]

LEMMA MaxOf ==
  ASSUME NEW S, S \subseteq Int, IsFiniteSet(S), S # {}
  PROVE Max(S) \in S /\ \A n \in S : n <= Max(S)
<1>1. PICK m \in S : \A n \in S : n <= m
  BY Greatest
<1>2. \A n \in S : m >= n
  BY <1>1
<1> QED BY <1>1, <1>2 DEF Max

LEMMA MinOf ==
  ASSUME NEW S, S \subseteq Int, IsFiniteSet(S), S # {}
  PROVE Min(S) \in S /\ \A n \in S : Min(S) <= n
<1>1. PICK m \in S : \A n \in S : m <= n
  BY Least
<1> QED BY <1>1 DEF Min

\* Times of finitely many rows.
LEMMA TimesOf ==
  ASSUME NEW T, IsFiniteSet(T), \A r \in T : r.at \in Nat
  PROVE Times(T) \subseteq Nat /\ IsFiniteSet(Times(T)) /\ (T # {} => Times(T) # {})
<1> DEFINE f == [r \in T |-> r.at]
<1>1. f \in Surjection(T, Times(T))
  BY DEF Surjection, Times
<1>2. IsFiniteSet(Times(T))
  BY ONLY <1>1, IsFiniteSet(T), FS_Surjection
<1> QED BY <1>2 DEF Times

\* An accepted event is of an entry; a transaction is of a trade.
LEMMA EventFacts ==
  ASSUME IInv, NEW e \in accepted
  PROVE /\ e.entry \in 1..Len(books) /\ books[e.entry] \in Entry
        /\ e.what \in {"balance", "transaction", "conflict"}
        /\ e = [entry |-> e.entry, what |-> e.what]
        /\ e.what = "transaction" => IsTrade(e.entry)
<1>1. e \in Published /\ books \in Seq(Entry)
  BY DEF IInv, EventsPublished, BooksKept
<1>2. PICK n \in 1..Len(books) : e \in EventsOf(n)
  BY <1>1 DEF Published
<1>3. books[n] \in Entry
  BY <1>1
<1> QED BY <1>2, <1>3 DEF EventsOf

LEMMA RowFacts ==
  ASSUME IInv
  PROVE /\ Snapshots \subseteq SnapshotRow /\ IsFiniteSet(Snapshots)
        /\ Transactions \subseteq TransactionRow /\ IsFiniteSet(Transactions)
<1> DEFINE S == {f \in accepted : f.what # "transaction"}
<1> DEFINE T == {f \in accepted : f.what = "transaction"}
<1>1. IsFiniteSet(S) /\ IsFiniteSet(T)
  BY FS_Subset DEF IInv, EventsPublished
<1>2. Snapshots = {SnapshotOf(e) : e \in S} /\ Transactions = {TransactionOf(e) : e \in T}
  BY DEF Snapshots, Transactions
<1>3. \A e \in S : SnapshotOf(e) \in SnapshotRow
  BY EventFacts, TradesAssumption DEF SnapshotOf, SnapshotRow, Entry
<1>4. \A e \in T : TransactionOf(e) \in TransactionRow
  BY EventFacts DEF TransactionOf, TransactionRow, Entry, IsTrade
<1> HIDE DEF S, T
<1>5. IsFiniteSet(Snapshots)
  <2> DEFINE f == [e \in S |-> SnapshotOf(e)]
  <2>1. f \in Surjection(S, Snapshots)
    BY <1>2 DEF Surjection
  <2> QED BY ONLY <1>1, <2>1, FS_Surjection
<1>6. IsFiniteSet(Transactions)
  <2> DEFINE f == [e \in T |-> TransactionOf(e)]
  <2>1. f \in Surjection(T, Transactions)
    BY <1>2 DEF Surjection
  <2> QED BY ONLY <1>1, <2>1, FS_Surjection
<1> QED BY <1>2, <1>3, <1>4, <1>5, <1>6

\* No row is newer than the moment the account is looked at, and one is as new.
AsOfIsNewest ==
  /\ AsOf \in Nat /\ elsewhere <= AsOf
  /\ \A s \in Snapshots : s.at <= AsOf
  /\ \A t \in Transactions : t.at <= AsOf
  /\ AsOf \in {elsewhere} \cup Times(Snapshots) \cup Times(Transactions)

LEMMA AsOfFacts == IInv => AsOfIsNewest
<1> SUFFICES ASSUME IInv PROVE AsOfIsNewest
  OBVIOUS
<1> DEFINE all == {elsewhere} \cup Times(Snapshots) \cup Times(Transactions)
<1>1. /\ \A s \in Snapshots : s.at \in Nat
      /\ \A t \in Transactions : t.at \in Nat
  BY RowFacts DEF SnapshotRow, TransactionRow
<1>2. /\ Times(Snapshots) \subseteq Nat /\ IsFiniteSet(Times(Snapshots))
      /\ Times(Transactions) \subseteq Nat /\ IsFiniteSet(Times(Transactions))
  BY <1>1, RowFacts, TimesOf
<1>3. elsewhere \in Nat /\ IsFiniteSet({elsewhere})
  BY FS_Singleton DEF IInv, EventsPublished
<1>4. IsFiniteSet({elsewhere} \cup Times(Snapshots))
  BY <1>2, <1>3, FS_Union
<1>5. IsFiniteSet(all)
  BY <1>2, <1>4, FS_Union
<1>6. all \subseteq Nat /\ all \subseteq Int /\ all # {} /\ AsOf = Max(all)
  BY <1>2, <1>3 DEF AsOf
<1> HIDE DEF all
<1>7. AsOf \in all /\ \A n \in all : n <= AsOf
  BY <1>5, <1>6, MaxOf
<1> QED BY <1>6, <1>7 DEF all, Times, AsOfIsNewest

-----------------------------------------------------------------------------
(* Trust, and windows. *)

\* The balance called trusted is the one in the books, unless all that arrived of its
\* moment is the conflicting one: with the true one there, the two differ.
THEOREM TrustedIsTrueAlways == Spec => []TrustedIsTrue
<1>1. IInv => TrustedIsTrue
  <2> SUFFICES ASSUME IInv, NEW s \in LastTrusted(Snapshots)
               PROVE \E n \in 1..Len(books) :
                       /\ books[n].at = s.at
                       /\ \/ books[n].balance = s.balance
                          \/ [entry |-> n, what |-> "balance"] \notin accepted
    BY DEF TrustedIsTrue
  <2>1. s \in Snapshots /\ s.at \notin Conflicts(Snapshots)
    BY DEF LastTrusted, Newest, Unambiguous
  <2>2. PICK e \in accepted : e.what # "transaction" /\ s = SnapshotOf(e)
    BY <2>1 DEF Snapshots
  <2> DEFINE n == e.entry
  <2>3. n \in 1..Len(books) /\ books[n] \in Entry /\ books[n].at = s.at
    BY <2>2, EventFacts DEF SnapshotOf
  <2>4. CASE e.what # "conflict"
    BY <2>2, <2>3, <2>4 DEF SnapshotOf, Entry
  <2>5. CASE e.what = "conflict" /\ [entry |-> n, what |-> "balance"] \in accepted
    <3> DEFINE d == [entry |-> n, what |-> "balance"]
    <3>1. SnapshotOf(d) \in Snapshots
      BY <2>5 DEF Snapshots
    <3>2. SnapshotOf(d).at = s.at /\ SnapshotOf(d).balance = books[n].balance
      BY <2>3 DEF SnapshotOf, Entry
    <3>3. s.balance = books[n].balance + Delta
      BY <2>2, <2>5 DEF SnapshotOf
    <3>4. SnapshotOf(d).balance # s.balance
      BY <2>3, <3>2, <3>3, TradesAssumption DEF Entry
    <3>5. s.at \in Conflicts(Snapshots)
      BY <2>1, <3>1, <3>2, <3>4 DEF Conflicts, Times, RowsAt
    <3> QED BY <2>1, <3>5
  <2> QED BY <2>3, <2>4, <2>5
<1> QED BY Invariant, <1>1, PTL

\* A window of the baseline ends before the spike begins, or begins after it.
THEOREM BaselineExcludesSpikeAlways == Spec => []BaselineExcludesSpike
<1>1. IInv => BaselineExcludesSpike
  <2> SUFFICES ASSUME IInv, NEW end \in BaselineEnds(Transactions, AsOf),
                      NEW t \in Transactions,
                      end - VelocityRule.window <= t.at, t.at <= end,
                      SpikeStart(AsOf) <= t.at, t.at <= AsOf
               PROVE FALSE
    BY DEF BaselineExcludesSpike, Spike, InWindow
  <2>1. t.at \in Nat /\ AsOf \in Nat /\ VelocityRule.window \in Nat
    BY RowFacts, AsOfFacts, RuleAssumption DEF TransactionRow, AsOfIsNewest
  <2>2. end \in Times(Transactions) /\ (end < SpikeStart(AsOf)
                                         \/ end - VelocityRule.window > AsOf)
    BY DEF BaselineEnds
  <2>3. end \in Nat
    BY <2>2, RowFacts DEF Times, TransactionRow
  <2> QED BY <2>1, <2>2, <2>3 DEF SpikeStart
<1> QED BY Invariant, <1>1, PTL

\* Every window the detector looks at holds a near-identical set, and the one that
\* begins at the least amount of a near-identical set and ends at its last
\* transaction holds the set.
THEOREM ClusterIsMaximalAlways == Spec => []ClusterIsMaximal
<1>1. IInv => ClusterIsMaximal
  <2> SUFFICES ASSUME IInv PROVE ClusterIsMaximal
    OBVIOUS
  <2> DEFINE T == Transactions
  <2> DEFINE tol == ClusterRule.tolerance
  <2> DEFINE win == ClusterRule.window
  <2>1. tol \in Nat /\ win \in Nat
    BY RuleAssumption
  <2>2. /\ IsFiniteSet(T)
        /\ \A t \in T : t.at \in Nat /\ t.amount \in Nat
    BY RowFacts DEF TransactionRow
  <2>3. \A anchor, end : ClusterAt(T, anchor, end) =
          {t \in T : /\ anchor <= t.amount /\ t.amount * 100 <= anchor * (100 + tol)
                     /\ end - win <= t.at /\ t.at <= end}
    BY DEF ClusterAt, InWindow
  <2>4. Clusters(T) = {ClusterAt(T, t.amount, u.at) : t, u \in T}
    BY DEF Clusters
  <2> HIDE DEF T, tol, win
  <2>5. ASSUME NEW c \in Clusters(T) PROVE NearIdentical(c)
    <3>1. PICK a \in T, b \in T : c = ClusterAt(T, a.amount, b.at)
      BY <2>4
    <3> SUFFICES ASSUME NEW s \in c, NEW t \in c
                 PROVE /\ t.amount * 100 <= s.amount * (100 + tol)
                       /\ t.at - s.at <= win
      BY DEF NearIdentical, tol, win
    <3>2. /\ s \in T /\ t \in T /\ a.amount <= s.amount
          /\ t.amount * 100 <= a.amount * (100 + tol)
          /\ b.at - win <= s.at /\ t.at <= b.at
      BY <2>3, <3>1
    <3>3. /\ a.amount \in Nat /\ s.amount \in Nat /\ t.amount \in Nat
          /\ s.at \in Nat /\ t.at \in Nat /\ b.at \in Nat
      BY <2>2, <3>2
    <3>4. a.amount * (100 + tol) <= s.amount * (100 + tol)
      BY <2>1, <3>2, <3>3
    <3>5. t.amount * 100 <= s.amount * (100 + tol)
      <4> DEFINE A == a.amount * (100 + tol)
      <4> DEFINE B == s.amount * (100 + tol)
      <4>1. A \in Nat /\ B \in Nat /\ A <= B /\ t.amount * 100 <= A
        BY <2>1, <3>2, <3>3, <3>4
      <4> HIDE DEF A, B
      <4>2. t.amount * 100 <= B
        BY <3>3, <4>1
      <4> QED BY <4>2 DEF B
    <3> QED BY <2>1, <3>2, <3>3, <3>5
  <2>6. /\ IsFiniteSet(Clusters(T))
        /\ \A c \in Clusters(T) : IsFiniteSet(c) /\ Cardinality(c) \in Nat
    <3>1. IsFiniteSet(T \X T)
      BY <2>2, FS_Product
    <3> DEFINE f == [p \in T \X T |-> ClusterAt(T, p[1].amount, p[2].at)]
    <3>2. f \in Surjection(T \X T, Clusters(T))
      <4>1. \A p \in T \X T : ClusterAt(T, p[1].amount, p[2].at) \in Clusters(T)
        BY <2>4
      <4>2. \A c \in Clusters(T) : \E p \in T \X T : f[p] = c
        <5> SUFFICES ASSUME NEW t \in T, NEW u \in T
                     PROVE \E p \in T \X T : f[p] = ClusterAt(T, t.amount, u.at)
          BY <2>4
        <5>1. <<t, u>> \in T \X T /\ f[<<t, u>>] = ClusterAt(T, t.amount, u.at)
          OBVIOUS
        <5> QED BY <5>1
      <4> QED BY <4>1, <4>2 DEF Surjection
    <3>3. IsFiniteSet(Clusters(T))
      BY ONLY <3>1, <3>2, FS_Surjection
    <3>4. \A c \in Clusters(T) : c \subseteq T
      BY <2>3, <2>4
    <3> QED BY <2>2, <3>3, <3>4, FS_Subset, FS_CardinalityType
  <2>7. ASSUME T # {}
        PROVE BestCount(T) \in Int /\ \A c \in Clusters(T) : Cardinality(c) <= BestCount(T)
    <3> DEFINE sizes == {Cardinality(c) : c \in Clusters(T)}
    <3> DEFINE f == [c \in Clusters(T) |-> Cardinality(c)]
    <3>1. f \in Surjection(Clusters(T), sizes)
      BY DEF Surjection
    <3>2. IsFiniteSet(sizes)
      BY ONLY <2>6, <3>1, FS_Surjection
    <3>3. Clusters(T) # {}
      BY <2>4, <2>7
    <3>4. sizes \subseteq Int /\ sizes # {} /\ \A c \in Clusters(T) : Cardinality(c) \in sizes
      BY <2>6, <3>3
    <3>5. BestCount(T) = Max(sizes)
      BY <2>7 DEF BestCount
    <3> HIDE DEF sizes
    <3> QED BY <3>2, <3>4, <3>5, MaxOf
  <2>8. ASSUME NEW rows \in SUBSET T, NearIdentical(rows)
        PROVE Cardinality(rows) <= BestCount(T)
    <3>1. CASE rows = {} /\ T = {}
      BY <3>1, FS_EmptySet DEF BestCount
    <3>2. CASE rows = {} /\ T # {}
      <4>1. PICK t \in T : TRUE
        BY <3>2
      <4> DEFINE c == ClusterAt(T, t.amount, t.at)
      <4>2. c \in Clusters(T)
        BY <2>4
      <4> HIDE DEF c
      <4>3. Cardinality(c) \in Nat /\ Cardinality(rows) = 0
        BY <2>6, <3>2, <4>2, FS_EmptySet
      <4> QED BY <2>7, <3>2, <4>2, <4>3
    <3>3. CASE rows # {}
      <4>1. IsFiniteSet(rows)
        BY <2>2, FS_Subset
      <4> DEFINE amounts == {t.amount : t \in rows}
      <4> DEFINE f == [t \in rows |-> t.amount]
      <4>2. f \in Surjection(rows, amounts)
        BY DEF Surjection
      <4>3. IsFiniteSet(amounts)
        BY ONLY <4>1, <4>2, FS_Surjection
      <4>4. amounts \subseteq Int /\ amounts # {}
        BY <2>2, <3>3
      <4>5. PICK low \in amounts : \A n \in amounts : low <= n
        <5> HIDE DEF amounts
        <5> QED BY <4>3, <4>4, Least
      <4>6. PICK a \in rows : \A t \in rows : a.amount <= t.amount
        BY <4>5
      <4>7. /\ Times(rows) \subseteq Int /\ IsFiniteSet(Times(rows)) /\ Times(rows) # {}
        BY <2>2, <3>3, <4>1, TimesOf
      <4>8. PICK high \in Times(rows) : \A n \in Times(rows) : n <= high
        BY <4>7, Greatest
      <4>9. PICK b \in rows : \A t \in rows : t.at <= b.at
        BY <4>8 DEF Times
      <4> DEFINE c == ClusterAt(T, a.amount, b.at)
      <4>10. c \in Clusters(T)
        BY <2>4
      <4>11. \A t \in rows : /\ t \in T /\ t.amount * 100 <= a.amount * (100 + tol)
                             /\ b.at - t.at <= win
        BY <2>8 DEF NearIdentical, tol, win
      <4>12. rows \subseteq c
        BY <2>1, <2>2, <2>3, <4>6, <4>9, <4>11
      <4> HIDE DEF c
      <4>13. /\ IsFiniteSet(c) /\ Cardinality(rows) <= Cardinality(c)
             /\ Cardinality(c) \in Nat /\ Cardinality(rows) \in Nat
        BY <2>6, <4>1, <4>10, <4>12, FS_Subset, FS_CardinalityType
      <4>14. T # {}
        BY <3>3
      <4> QED BY <2>7, <4>10, <4>13, <4>14
    <3> QED BY <3>1, <3>2, <3>3
  <2> QED BY <2>5, <2>8 DEF ClusterIsMaximal, T
<1> QED BY Invariant, <1>1, PTL


-----------------------------------------------------------------------------
(* Scores. *)

\* A quotient is not more than its dividend over its divisor.
LEMMA Quotient ==
  ASSUME NEW a \in Nat, NEW b \in Nat \ {0}
  PROVE /\ a \div b \in Nat /\ b * (a \div b) <= a
        /\ \A q \in Nat : b * q <= a => q <= a \div b
<1>1. a \div b \in Nat /\ b * (a \div b) <= a /\ a < b * (a \div b) + b
  OBVIOUS
<1> DEFINE d == a \div b
<1>2. ASSUME NEW q \in Nat, b * q <= a PROVE q <= d
  <2> HIDE DEF d
  <2> SUFFICES ASSUME q >= d + 1 PROVE FALSE
    BY <1>1 DEF d
  <2>1. d \in Nat /\ a < b * d + b
    BY <1>1 DEF d
  <2>2. b * q >= b * (d + 1)
    BY <2>1
  <2>3. b * (d + 1) = b * d + b
    BY <2>1
  <2> QED BY <1>2, <2>1, <2>2, <2>3
<1> QED BY <1>1, <1>2

\* Rounding half up keeps the order of fractions.
LEMMA HalfUpMonotone ==
  ASSUME NEW a \in Nat, NEW b \in Nat \ {0}, NEW c \in Nat, NEW d \in Nat \ {0},
         a * d <= c * b
  PROVE HalfUp(a, b) \in Nat /\ HalfUp(a, b) <= HalfUp(c, d)
<1> DEFINE q == (2 * a + b) \div (2 * b)
<1>1. 2 * a + b \in Nat /\ 2 * b \in Nat \ {0} /\ 2 * c + d \in Nat /\ 2 * d \in Nat \ {0}
  OBVIOUS
<1>2. q \in Nat /\ (2 * b) * q <= 2 * a + b
  BY <1>1, Quotient
<1> HIDE DEF q
<1>3. (2 * d) * q <= 2 * c + d
  <2> SUFFICES ASSUME (2 * d) * q > 2 * c + d PROVE FALSE
    BY <1>1, <1>2
  <2> DEFINE x == d * q
  <2>1. x \in Nat /\ 2 * x >= 2 * c + d + 1
    BY <1>2
  <2>2. b * (2 * x) >= b * (2 * c + d + 1)
    BY <2>1
  <2>3. b * (2 * c + d + 1) = 2 * (c * b) + b * d + b
    OBVIOUS
  <2>4. b * (2 * x) = d * ((2 * b) * q)
    BY <1>2
  <2>5. d * ((2 * b) * q) <= d * (2 * a + b)
    BY <1>2
  <2>6. d * (2 * a + b) = 2 * (a * d) + b * d
    OBVIOUS
  <2> DEFINE ad == a * d
  <2> DEFINE cb == c * b
  <2> DEFINE bd == b * d
  <2> DEFINE l == b * (2 * x)
  <2> DEFINE m == d * (2 * a + b)
  <2>7. /\ ad \in Nat /\ cb \in Nat /\ bd \in Nat /\ l \in Nat /\ m \in Nat
        /\ ad <= cb /\ l >= 2 * cb + bd + b /\ l <= m /\ m = 2 * ad + bd
    BY <1>2, <2>1, <2>2, <2>3, <2>4, <2>5, <2>6
  <2> HIDE DEF ad, cb, bd, l, m
  <2> QED BY <2>7
<1>4. q <= (2 * c + d) \div (2 * d)
  BY <1>1, <1>2, <1>3, Quotient
<1> QED BY <1>2, <1>4 DEF HalfUp, q

\* A fraction of at most 1.
LEMMA PenaltyType ==
  ASSUME NEW s \in Nat, NEW r \in Nat
  PROVE /\ RejectionPenalty(s, r).num \in Nat
        /\ RejectionPenalty(s, r).den \in Nat \ {0}
        /\ RejectionPenalty(s, r).num <= RejectionPenalty(s, r).den
  BY DEF RejectionPenalty, RejectionFloor

\* It only falls as more is rejected.
LEMMA PenaltyFalls ==
  ASSUME NEW s \in Nat, NEW r \in Nat, NEW q \in Nat, r <= q
  PROVE RejectionPenalty(s, q).num * RejectionPenalty(s, r).den
          <= RejectionPenalty(s, r).num * RejectionPenalty(s, q).den
<1> DEFINE p == RejectionPenalty(s, r)
<1> DEFINE o == RejectionPenalty(s, q)
<1>1. CASE r = 0
  BY <1>1, PenaltyType DEF RejectionPenalty
<1>2. CASE r # 0 /\ s * 10 >= 3 * (s + r)
  <2>1. p.num = s /\ p.den = s + r
    BY <1>2 DEF RejectionPenalty, RejectionFloor
  <2>2. CASE s * 10 >= 3 * (s + q)
    <3>1. o.num = s /\ o.den = s + q
      BY <1>2, <2>2 DEF RejectionPenalty, RejectionFloor
    <3>2. s * (s + r) <= s * (s + q)
      OBVIOUS
    <3> QED BY <2>1, <3>1, <3>2
  <2>3. CASE ~(s * 10 >= 3 * (s + q))
    <3>1. o.num = 3 /\ o.den = 10
      BY <1>2, <2>3 DEF RejectionPenalty, RejectionFloor
    <3> QED BY <1>2, <2>1, <3>1
  <2> QED BY <2>2, <2>3
<1>3. CASE r # 0 /\ ~(s * 10 >= 3 * (s + r))
  <2>1. p.num = 3 /\ p.den = 10 /\ o.num = 3 /\ o.den = 10
    BY <1>3 DEF RejectionPenalty, RejectionFloor
  <2> QED BY <2>1
<1> QED BY <1>1, <1>2, <1>3

\* The modifier of a status and a count of rejected events only falls when the
\* status gets worse or more is rejected.
LEMMA ModifierFalls ==
  ASSUME NEW s \in Nat, NEW r \in Nat, NEW q \in Nat, r <= q,
         NEW old \in DOMAIN BaseModifier, NEW new \in DOMAIN BaseModifier,
         BaseModifier[new] <= BaseModifier[old]
  PROVE FixedModifier(new, s, q) \in Nat /\ FixedModifier(new, s, q) <= FixedModifier(old, s, r)
<1> DEFINE p == RejectionPenalty(s, r)
<1> DEFINE o == RejectionPenalty(s, q)
<1> DEFINE e == SampleAdequacy(s, QualityMinSamples)
<1> DEFINE x == BaseModifier[new] * e
<1> DEFINE y == BaseModifier[old] * e
<1>1. BaseModifier[new] \in Nat /\ BaseModifier[old] \in Nat
  BY DEF BaseModifier
<1>2. e \in Nat
  BY DEF SampleAdequacy, QualityMinSamples
<1>3. x \in Nat /\ y \in Nat /\ x <= y
  BY <1>1, <1>2
<1>4. /\ p.num \in Nat /\ p.den \in Nat \ {0} /\ o.num \in Nat /\ o.den \in Nat \ {0}
      /\ o.num * p.den <= p.num * o.den
  BY PenaltyType, PenaltyFalls
<1>5. /\ FixedModifier(new, s, q) = HalfUp(x * o.num, 2 * o.den)
      /\ FixedModifier(old, s, r) = HalfUp(y * p.num, 2 * p.den)
  BY DEF FixedModifier, QualityMinSamples
<1> HIDE DEF p, o, e, x, y
<1>6. x * (o.num * p.den) <= y * (p.num * o.den)
  <2>1. x * (o.num * p.den) <= x * (p.num * o.den)
    BY <1>3, <1>4
  <2>2. x * (p.num * o.den) <= y * (p.num * o.den)
    BY <1>3, <1>4
  <2> DEFINE a == x * (o.num * p.den)
  <2> DEFINE b == x * (p.num * o.den)
  <2> DEFINE c == y * (p.num * o.den)
  <2>3. a \in Nat /\ b \in Nat /\ c \in Nat /\ a <= b /\ b <= c
    BY <1>3, <1>4, <2>1, <2>2
  <2> HIDE DEF a, b, c
  <2>4. a <= c
    BY <2>3
  <2> QED BY <2>4 DEF a, c
<1>7. (x * o.num) * (2 * p.den) <= (y * p.num) * (2 * o.den)
  <2>1. (x * o.num) * (2 * p.den) = 2 * (x * (o.num * p.den))
    BY <1>3, <1>4
  <2>2. (y * p.num) * (2 * o.den) = 2 * (y * (p.num * o.den))
    BY <1>3, <1>4
  <2> DEFINE a == x * (o.num * p.den)
  <2> DEFINE c == y * (p.num * o.den)
  <2>3. a \in Nat /\ c \in Nat /\ a <= c
    BY <1>3, <1>4, <1>6
  <2> HIDE DEF a, c
  <2>4. 2 * a <= 2 * c
    BY <2>3
  <2> QED BY <2>1, <2>2, <2>4 DEF a, c
<1>8. /\ x * o.num \in Nat /\ y * p.num \in Nat
      /\ 2 * p.den \in Nat \ {0} /\ 2 * o.den \in Nat \ {0}
  BY <1>3, <1>4
<1> QED BY <1>5, <1>7, <1>8, HalfUpMonotone


-----------------------------------------------------------------------------
(* Doubt, and what is recomputed. *)

\* Missing or conflicting input alerts nobody of a pattern, and what is forecast from
\* it is of low confidence: the confidence is at most the modifier, and that at most
\* what a conflict leaves.
THEOREM DoubtIsNeverConfidentAlways == Spec => []DoubtIsNeverConfident
<1>1. IInv => DoubtIsNeverConfident
  <2> SUFFICES ASSUME IInv, AccountQuality.status \in {"missing", "conflicting"}
               PROVE /\ AnomalyCandidates(AccountDetections) = {}
                     /\ \A f \in LiquidityCandidates(AccountForecasts) :
                          f.level \in {"low", "unavailable"}
    BY DEF DoubtIsNeverConfident
  <2> DEFINE q == AccountQuality
  <2> DEFINE S == Snapshots
  <2> DEFINE T == Transactions
  <2>1. Disposition(q) = "suppressed_data_quality"
    BY DEF Disposition, IsDegradedQuality
  <2>2. AnomalyCandidates(AccountDetections) = {}
    <3> SUFFICES ASSUME NEW p \in Patterns, "requires_review" \in AccountDetections[p]
                 PROVE FALSE
      BY DEF AnomalyCandidates
    <3>1. CASE p = "near_identical_amounts"
      <4>1. AccountDetections[p] = {NearIdenticalAmounts(T, q)}
        BY <3>1 DEF AccountDetections, Detections
      <4> QED BY <2>1, <4>1 DEF NearIdenticalAmounts
    <3>2. CASE p = "velocity_spike"
      <4>1. AccountDetections[p] = {VelocitySpike(T, q, AsOf)}
        BY <3>2 DEF AccountDetections, Detections
      <4> QED BY <2>1, <4>1 DEF VelocitySpike
    <3>3. CASE p = "balance_inconsistency"
      <4>1. AccountDetections[p] = {BalanceInconsistency(S, T, q, AsOf)}
        BY <3>3 DEF AccountDetections, Detections
      <4> QED BY <2>1, <4>1 DEF BalanceInconsistency
    <3>4. CASE p = "behavioral_embedding"
      <4>1. AccountDetections[p] = BehavioralOutcomes(T, q, AsOf)
        BY <3>4 DEF AccountDetections, Detections
      <4>2. AccountDetections[p] \subseteq {"none", "inconclusive", Disposition(q)}
        BY <4>1 DEF BehavioralOutcomes
      <4> QED BY <2>1, <4>2
    <3> QED BY <3>1, <3>2, <3>3, <3>4 DEF Patterns
  <2>3. ASSUME NEW f \in AccountForecasts, f.actionable PROVE f.level \in {"low", "unavailable"}
    <3>1. \A reason, balance, confidence : ~Withheld(reason, balance, confidence).actionable
      BY DEF Withheld
    <3>2. PICK first \in S, last \in S : f = Forecast(first, last, Cardinality(S), q)
      <4>1. Newest(S) \subseteq S /\ Oldest(BurnRows(S)) \subseteq S
        BY DEF Newest, Oldest, BurnRows
      <4> QED BY <2>3, <3>1, <4>1 DEF AccountForecasts, Forecasts
    <3>3. /\ q.status = "conflicting"
          /\ f.level = ConfidenceLevel(ForecastConfidence(Cardinality(S), q.modifier))
      BY <2>3, <3>1, <3>2 DEF Forecast
    <3> DEFINE n == Cardinality(S) + Cardinality(T)
    <3>4. n \in Nat /\ Cardinality(rejected) \in Nat /\ Cardinality(S) \in Nat
      BY RowFacts, FS_CardinalityType DEF IInv, EventsPublished
    <3>5. q.modifier = FixedModifier("conflicting", n, Cardinality(rejected))
      BY <3>3 DEF AccountQuality, Quality
    <3> HIDE DEF n, q
    <3>6. q.modifier \in Nat /\ q.modifier <= 4000
      <4> DEFINE p == RejectionPenalty(n, Cardinality(rejected))
      <4> DEFINE e == SampleAdequacy(n, QualityMinSamples)
      <4>1. p.num \in Nat /\ p.den \in Nat \ {0} /\ p.num <= p.den
        BY <3>4, PenaltyType
      <4>2. e \in 0..2
        BY <3>4 DEF SampleAdequacy, QualityMinSamples
      <4>3. q.modifier = HalfUp(4000 * e * p.num, 2 * p.den)
        BY <3>5 DEF FixedModifier, BaseModifier, QualityMinSamples
      <4> HIDE DEF p, e
      <4>4. 4000 * e * p.num \in Nat /\ 2 * p.den \in Nat \ {0}
        BY <4>1, <4>2
      <4>5. (4000 * e * p.num) * 1 <= 4000 * (2 * p.den)
        BY <4>1, <4>2
      <4>6. HalfUp(4000, 1) = 4000
        BY DEF HalfUp
      <4> QED BY <4>3, <4>4, <4>5, <4>6, HalfUpMonotone
    <3>7. ForecastConfidence(Cardinality(S), q.modifier) < 5000
      <4> DEFINE e == SampleAdequacy(Cardinality(S), TargetSamples)
      <4>1. e \in 0..3
        BY <3>4 DEF SampleAdequacy, TargetSamples
      <4>2. ForecastConfidence(Cardinality(S), q.modifier) = HalfUp(e * q.modifier, 3)
        BY DEF ForecastConfidence, TargetSamples
      <4> HIDE DEF e
      <4>3. e * q.modifier \in Nat /\ (e * q.modifier) * 1 <= 4000 * 3
        BY <3>6, <4>1
      <4>4. HalfUp(4000, 1) = 4000
        BY DEF HalfUp
      <4>5. HalfUp(e * q.modifier, 3) \in Nat /\ HalfUp(e * q.modifier, 3) <= 4000
        BY <4>3, <4>4, HalfUpMonotone
      <4> QED BY <4>2, <4>5
    <3>8. ForecastConfidence(Cardinality(S), q.modifier) \in Int
      <4> DEFINE e == SampleAdequacy(Cardinality(S), TargetSamples)
      <4>1. e \in 0..3
        BY <3>4 DEF SampleAdequacy, TargetSamples
      <4>2. ForecastConfidence(Cardinality(S), q.modifier) = HalfUp(e * q.modifier, 3)
        BY DEF ForecastConfidence, TargetSamples
      <4> HIDE DEF e
      <4>3. e * q.modifier \in Nat
        BY <3>6, <4>1
      <4> QED BY <4>2, <4>3 DEF HalfUp
    <3> QED BY <3>3, <3>7, <3>8 DEF ConfidenceLevel
  <2> QED BY <2>2, <2>3 DEF LiquidityCandidates
<1> QED BY Invariant, <1>1, PTL

\* Without a conflict no two snapshots are of one moment.
LEMMA OneSnapshotAMoment ==
  ASSUME IInv, Conflicts(Snapshots) = {},
         NEW s \in Snapshots, NEW t \in Snapshots, s.at = t.at
  PROVE s = t
<1>1. PICK e \in accepted : e.what # "transaction" /\ s = SnapshotOf(e)
  BY DEF Snapshots
<1>2. PICK f \in accepted : f.what # "transaction" /\ t = SnapshotOf(f)
  BY DEF Snapshots
<1>3. s.balance = t.balance
  BY DEF Conflicts, Times, RowsAt
<1>4. /\ e.entry \in 1..Len(books) /\ f.entry \in 1..Len(books)
      /\ books[e.entry] \in Entry /\ books[f.entry] \in Entry
      /\ e.what \in {"balance", "conflict"} /\ f.what \in {"balance", "conflict"}
  BY <1>1, <1>2, EventFacts
<1>5. books[e.entry].at = books[f.entry].at
  BY <1>1, <1>2 DEF SnapshotOf
<1>6. e.entry = f.entry
  <2>1. \A i, j \in 1..Len(books) : i < j => books[i].at < books[j].at
    BY DEF IInv, BooksKept
  <2>2. books[e.entry].at \in Nat /\ books[f.entry].at \in Nat
    BY <1>4 DEF Entry
  <2>3. Len(books) \in Nat
    BY DEF IInv, BooksKept
  <2> QED BY <1>4, <1>5, <2>1, <2>2, <2>3
<1>7. books[e.entry].balance \in Nat
  BY <1>4 DEF Entry
<1>8. e.what = f.what
  BY <1>1, <1>2, <1>3, <1>4, <1>6, <1>7, TradesAssumption DEF SnapshotOf
<1> QED BY <1>1, <1>2, <1>6, <1>8 DEF SnapshotOf

\* What is answered again from the same rows is the same answer, unless the feed
\* contradicts itself: the first and the last row are one each.
THEOREM OneForecastUnlessConflictingAlways == Spec => []OneForecastUnlessConflicting
<1>1. IInv => OneForecastUnlessConflicting
  <2> SUFFICES ASSUME IInv, AccountQuality.status # "conflicting"
               PROVE Cardinality(AccountForecasts) = 1
    BY DEF OneForecastUnlessConflicting
  <2> DEFINE S == Snapshots
  <2>1. Conflicts(S) = {}
    <3>1. S = {} => Conflicts(S) = {}
      BY DEF Conflicts, Times
    <3> QED BY <3>1 DEF AccountQuality, Quality, FeedStatus
  <2>2. IsFiniteSet(S) /\ \A s \in S : s.at \in Nat
    BY RowFacts DEF SnapshotRow
  <2>3. \A s, t \in S : s.at = t.at => s = t
    BY <2>1, OneSnapshotAMoment
  <2> DEFINE q == AccountQuality
  <2>4. AccountForecasts = Forecasts(S, q)
    BY DEF AccountForecasts
  <2> HIDE DEF S, q
  <2>5. Cardinality(S) \in Nat
    BY <2>2, FS_CardinalityType
  <2>6. \A x : Cardinality({x}) = 1
    BY FS_Singleton
  <2>7. CASE Cardinality(S) = 0
    <3>1. AccountForecasts = {Withheld("insufficient_samples", 0, 0)}
      BY <2>4, <2>7 DEF Forecasts
    <3> QED BY <2>6, <3>1
  <2>8. CASE Cardinality(S) = 1
    <3>1. PICK s : S = {s}
      BY <2>2, <2>8, FS_Singleton
    <3>2. AccountForecasts = {Withheld("insufficient_samples", s.balance, 0)}
      BY <2>4, <2>8, <3>1 DEF Forecasts, LiquidityMinSamples
    <3> QED BY <2>6, <3>2
  <2>9. CASE Cardinality(S) >= 2
    <3> DEFINE B == BurnRows(S)
    <3>1. S # {}
      BY <2>9, FS_EmptySet
    <3>2. Times(S) \subseteq Int /\ IsFiniteSet(Times(S)) /\ Times(S) # {}
      BY <2>2, <3>1, TimesOf
    <3>3. Max(Times(S)) \in Times(S) /\ \A t \in Times(S) : t <= Max(Times(S))
      BY <3>2, MaxOf
    <3>4. PICK m \in S : m.at = Max(Times(S))
      BY <3>3 DEF Times
    <3>5. Newest(S) = {m}
      <4>1. m \in Newest(S)
        BY <3>3, <3>4 DEF Newest, Times
      <4>2. \A n \in Newest(S) : n \in S /\ m.at <= n.at /\ n.at <= m.at
        BY <4>1 DEF Newest
      <4>3. \A n \in Newest(S) : n.at = m.at
        BY <2>2, <4>2
      <4> QED BY <2>3, <4>1, <4>2, <4>3
    <3>6. B \subseteq S /\ m \in B /\ Cardinality(B) >= 2 /\ IsFiniteSet(B)
      <4> DEFINE recent == {s \in S : s.at >= Max(Times(S)) - BurnWindow}
      <4>1. m \in recent
        BY <2>2, <3>4 DEF BurnWindow
      <4>2. IsFiniteSet(recent)
        BY <2>2, FS_Subset
      <4>3. Cardinality(recent) \in Nat
        BY <4>2, FS_CardinalityType
      <4>4. B = IF Cardinality(recent) < 2 THEN S ELSE recent
        BY DEF BurnRows
      <4> HIDE DEF B
      <4> QED BY <2>2, <2>9, <4>1, <4>2, <4>3, <4>4
    <3> HIDE DEF B
    <3>7. PICK x \in B : x # m
      <4>1. B # {m}
        BY <2>6, <3>6
      <4> QED BY <3>6, <4>1
    <3>8. \A b \in B : b.at \in Nat
      BY <2>2, <3>6
    <3>9. Times(B) \subseteq Int /\ IsFiniteSet(Times(B)) /\ Times(B) # {}
      BY <3>6, <3>8, TimesOf
    <3>10. PICK low \in Times(B) : \A t \in Times(B) : low <= t
      BY <3>9, Least
    <3>11. PICK o \in B : \A b \in B : o.at <= b.at
      BY <3>10 DEF Times
    <3>12. Oldest(B) = {o}
      <4>1. o \in Oldest(B)
        BY <3>11 DEF Oldest
      <4>2. \A n \in Oldest(B) : n \in B /\ o.at <= n.at /\ n.at <= o.at
        BY <3>11 DEF Oldest
      <4>3. \A n \in Oldest(B) : n.at = o.at
        BY <3>8, <4>2
      <4> QED BY <2>3, <3>6, <4>1, <4>2, <4>3
    <3>13. o # m
      <4>1. x.at <= m.at /\ x.at # m.at /\ o.at <= x.at
        BY <2>3, <3>3, <3>4, <3>6, <3>7, <3>11 DEF Times
      <4> QED BY <3>6, <3>7, <3>8, <4>1
    <3> DEFINE ends == {e \in Oldest(B) \X Newest(S) : e[1] # e[2]}
    <3>14. ends = {<<o, m>>}
      BY <3>5, <3>12, <3>13
    <3>15. AccountForecasts = {Forecast(o, m, Cardinality(S), q)}
      <4>1. AccountForecasts = {Forecast(e[1], e[2], Cardinality(S), q) : e \in ends}
        BY <2>4, <2>5, <2>9 DEF Forecasts, LiquidityMinSamples, B
      <4> HIDE DEF ends
      <4> QED BY <3>14, <4>1
    <3> QED BY <2>6, <3>15
  <2> QED BY <2>5, <2>7, <2>8, <2>9
<1> QED BY Invariant, <1>1, PTL

\* Rows stay what they are while nothing is accepted.
LEMMA RowsStay ==
  ASSUME IInv, [Next]_vars, accepted' = accepted
  PROVE /\ Snapshots' = Snapshots /\ Transactions' = Transactions
        /\ rejected \subseteq rejected' /\ elsewhere <= elsewhere'
<1>1. \A n \in 1..Len(books) : books'[n] = books[n]
  <2>1. books \in Seq(Entry)
    BY DEF IInv, BooksKept
  <2>2. books' = books \/ \E entry : books' = Append(books, entry)
    BY DEF Next, Trade, Close, Accept, Reject, OtherFeed, vars
  <2> QED BY <2>1, <2>2
<1>2. \A e \in accepted : books'[e.entry] = books[e.entry]
  BY <1>1, EventFacts
<1>3. /\ \A e \in accepted : SnapshotOf(e)' = SnapshotOf(e)
      /\ \A e \in accepted : TransactionOf(e)' = TransactionOf(e)
  BY <1>2 DEF SnapshotOf, TransactionOf
<1>4. Snapshots' = Snapshots /\ Transactions' = Transactions
  BY <1>3 DEF Snapshots, Transactions
<1>5. rejected \subseteq rejected'
  BY DEF Next, Trade, Close, Accept, Reject, OtherFeed, vars
<1>6. elsewhere <= elsewhere'
  <2>1. elsewhere \in Nat
    BY DEF IInv, EventsPublished
  <2>2. ASSUME NEW ahead \in Ahead, OtherFeed(ahead) PROVE elsewhere <= elsewhere'
    <3>1. elsewhere = 0 /\ elsewhere' = LastEntry.at + ahead
      BY <2>2 DEF OtherFeed
    <3>2. LastEntry \in Entry
      BY DEF LastEntry, IInv, BooksKept
    <3>3. LastEntry.at \in Nat /\ ahead \in Nat
      BY <3>2, TradesAssumption DEF Entry
    <3> QED BY <3>1, <3>3
  <2>3. CASE elsewhere' = elsewhere
    BY <2>1, <2>3
  <2> QED BY <2>2, <2>3 DEF Next, Trade, Close, Accept, Reject, vars
<1> QED BY <1>4, <1>5, <1>6

\* Neither a rejected event nor other feeds going on make a feed more trusted: with
\* the rows as they were its status can only become stale and its penalty only
\* fall.
THEOREM NothingDegradedRaisesAlways == Spec => NothingDegradedRaises
<1>1. IInv /\ IInv' /\ AsOfIsNewest /\ AsOfIsNewest' /\ [Next]_vars =>
        [accepted' = accepted => AccountQuality'.modifier <= AccountQuality.modifier]_vars
  <2> SUFFICES ASSUME IInv, IInv', AsOfIsNewest, AsOfIsNewest', [Next]_vars, accepted' = accepted
               PROVE AccountQuality'.modifier <= AccountQuality.modifier
    OBVIOUS
  <2> DEFINE S == Snapshots
  <2> DEFINE T == Transactions
  <2> DEFINE n == Cardinality(S) + Cardinality(T)
  <2> DEFINE r == Cardinality(rejected)
  <2> DEFINE d == Cardinality(rejected')
  <2> DEFINE old == FeedStatus(S, T, AsOf)
  <2> DEFINE new == FeedStatus(S, T, AsOf')
  <2>1. Snapshots' = S /\ Transactions' = T /\ rejected \subseteq rejected'
        /\ elsewhere <= elsewhere'
    BY RowsStay
  <2>2. n \in Nat /\ r \in Nat /\ d \in Nat /\ r <= d
    BY <2>1, RowFacts, FS_CardinalityType, FS_Subset DEF IInv, EventsPublished
  <2>3. AsOf \in Nat /\ AsOf' \in Nat /\ AsOf <= AsOf'
    <3>1. /\ AsOf \in Nat /\ AsOf' \in Nat /\ elsewhere' <= AsOf'
          /\ \A s \in S : s.at <= AsOf'
          /\ \A t \in T : t.at <= AsOf'
      BY <2>1 DEF AsOfIsNewest
    <3>2. AsOf = elsewhere \/ (\E s \in S : AsOf = s.at) \/ (\E t \in T : AsOf = t.at)
      BY DEF AsOfIsNewest, Times
    <3>3. elsewhere \in Nat /\ elsewhere' \in Nat
      BY DEF IInv, EventsPublished
    <3> QED BY <2>1, <3>1, <3>2, <3>3
  <2>4. old \in DOMAIN BaseModifier /\ new \in DOMAIN BaseModifier
    BY DEF FeedStatus, BaseModifier
  <2>5. new = old \/ (new = "stale" /\ old = "fresh")
    <3>1. IsStale(S, AsOf) => IsStale(S, AsOf')
      <4> SUFFICES ASSUME S # {}, AsOf - Max(Times(S)) > StaleAfter
                   PROVE AsOf' - Max(Times(S)) > StaleAfter
        BY DEF IsStale
      <4>1. Times(S) \subseteq Int /\ IsFiniteSet(Times(S)) /\ Times(S) # {}
        BY RowFacts, TimesOf DEF SnapshotRow
      <4>2. Max(Times(S)) \in Int
        BY <4>1, MaxOf
      <4> QED BY <2>3, <4>2 DEF StaleAfter
    <3> QED BY <3>1 DEF FeedStatus
  <2>6. BaseModifier[new] <= BaseModifier[old]
    <3>1. BaseModifier[old] \in Nat /\ BaseModifier["stale"] <= BaseModifier["fresh"]
      BY <2>4 DEF BaseModifier
    <3> QED BY <2>5, <3>1
  <2>7. /\ AccountQuality.modifier = FixedModifier(old, n, r)
        /\ AccountQuality'.modifier = FixedModifier(new, n, d)
    <3>1. AccountQuality.modifier = FixedModifier(old, n, r)
      BY DEF AccountQuality, Quality
    <3>2. AccountQuality' = Quality(S, T, d, AsOf')
      BY <2>1 DEF AccountQuality
    <3>3. AccountQuality'.modifier = FixedModifier(new, n, d)
      BY <3>2 DEF Quality
    <3> QED BY <3>1, <3>3
  <2> HIDE DEF n, r, d, old, new
  <2> QED BY <2>2, <2>4, <2>6, <2>7, ModifierFalls
<1> QED BY Invariant, AsOfFacts, <1>1, PTL DEF Spec, NothingDegradedRaises

-----------------------------------------------------------------------------
(* Reconciliation.  The transactions after the anchor add up to what the     *)
(* books say happened since, entry by entry.                                 *)

IsRunOf(after, balance, rows) ==
  /\ \A n \in 0..LastNumber(rows) :
       after[n] = IF n = 0 THEN balance ELSE after[n - 1] + DeltaOf(rows, n)
  /\ BalanceOver(balance, rows) = after[LastNumber(rows)]

\* The sum has a run, number by number.
LEMMA SumRuns ==
  ASSUME NEW balance, NEW rows, LastNumber(rows) \in Nat
  PROVE \E after : IsRunOf(after, balance, rows)
<1>0. PICK last \in Nat : last = LastNumber(rows)
  OBVIOUS
<1> DEFINE Turn(after, n) == IF n = 0 THEN balance ELSE after[n - 1] + DeltaOf(rows, n)
<1> DEFINE Runs(k) == \E after : after = [n \in 0..k |-> Turn(after, n)]
<1> DEFINE stuck == {k \in 0..last : ~Runs(k)}
<1>1. Runs(0)
  <2> DEFINE after == [n \in 0..0 |-> balance]
  <2>1. \A n \in 0..0 : Turn(after, n) = balance
    OBVIOUS
  <2>2. after = [n \in 0..0 |-> Turn(after, n)]
    <3> HIDE DEF Turn
    <3> QED BY <2>1
  <2> QED BY <2>2
<1>2. ASSUME NEW k \in 1..last, Runs(k - 1)
      PROVE Runs(k)
  <2>1. PICK after : after = [n \in 0..(k - 1) |-> Turn(after, n)]
    BY <1>2
  <2> DEFINE next == [n \in 0..k |-> IF n = k THEN Turn(after, k) ELSE after[n]]
  <2>2. \A n \in 0..(k - 1) : next[n] = after[n]
    OBVIOUS
  <2>3. ASSUME NEW n \in 0..k PROVE next[n] = Turn(next, n)
    <3>1. n # 0 => next[n - 1] = after[n - 1]
      BY <2>2
    <3>2. Turn(next, n) = Turn(after, n)
      BY <3>1
    <3> HIDE DEF Turn
    <3>3. n # k => n \in 0..(k - 1)
      OBVIOUS
    <3>4. n # k => after[n] = Turn(after, n)
      BY <2>1, <3>3
    <3> QED BY <3>2, <3>4
  <2>4. next = [n \in 0..k |-> Turn(next, n)]
    <3>1. next = [n \in 0..k |-> next[n]]
      OBVIOUS
    <3> HIDE DEF next, Turn
    <3> QED BY <2>3, <3>1
  <2> HIDE DEF next, Turn
  <2> QED BY <2>4
<1>3. stuck = {}
  <2> SUFFICES ASSUME stuck # {} PROVE FALSE
    OBVIOUS
  <2> HIDE DEF Runs
  <2>1. 0 \notin stuck /\ stuck \subseteq 0..last
    BY <1>1
  <2>2. PICK k \in 1..last : k \in stuck /\ k - 1 \in 0..last /\ k - 1 \notin stuck
    <3> HIDE DEF stuck
    <3> QED BY <2>1, FirstFailure
  <2> QED BY <1>2, <2>2
<1>4. Runs(last)
  <2> HIDE DEF Runs
  <2>1. last \in 0..last
    OBVIOUS
  <2> QED BY <1>3, <2>1
<1> DEFINE run == CHOOSE after : after = [n \in 0..last |-> Turn(after, n)]
<1>5. run = [n \in 0..last |-> Turn(run, n)]
  <2> HIDE DEF Turn
  <2> QED BY <1>4
<1>6. BalanceOver(balance, rows) = run[last]
  BY <1>0 DEF BalanceOver
<1> HIDE DEF run
<1>7. \A n \in 0..last : run[n] = Turn(run, n)
  <2> HIDE DEF Turn
  <2> QED BY <1>5
<1> QED BY <1>0, <1>6, <1>7 DEF IsRunOf

\* If each number up to j adds what a course of balances gains there, and no
\* row has a greater number, the balance after the rows is where the course ends.
LEMMA SumFollows ==
  ASSUME NEW rows, NEW j \in Nat, \A t \in rows : t.n \in 1..j,
         NEW course \in [0..j -> Int],
         \A n \in 1..j : course[n] = course[n - 1] + DeltaOf(rows, n)
  PROVE BalanceOver(course[0], rows) = course[j]
<1> DEFINE numbers == {t.n : t \in rows}
<1>0. PICK last : last = LastNumber(rows)
  OBVIOUS
<1>1. /\ last \in 0..j
      /\ \A t \in rows : t.n <= last
  <2>1. numbers \subseteq 1..j /\ (rows # {} => numbers # {})
    OBVIOUS
  <2> HIDE DEF numbers
  <2>2. numbers \subseteq Int /\ IsFiniteSet(numbers)
    <3>1. IsFiniteSet(1..j)
      BY FS_Interval
    <3>2. IsFiniteSet(numbers)
      BY <2>1, <3>1, FS_Subset
    <3> QED BY <2>1, <3>2
  <2>3. rows # {} => Max(numbers) \in numbers /\ \A n \in numbers : n <= Max(numbers)
    BY <2>1, <2>2, MaxOf
  <2>4. rows # {} => \A t \in rows : t.n <= last
    BY <1>0, <2>3 DEF numbers, LastNumber
  <2>5. last = IF rows = {} THEN 0 ELSE Max(numbers)
    BY <1>0 DEF numbers, LastNumber
  <2> QED BY <2>1, <2>3, <2>4, <2>5
<1>2. PICK after : /\ \A n \in 0..last :
                        after[n] = IF n = 0 THEN course[0]
                                   ELSE after[n - 1] + DeltaOf(rows, n)
                   /\ BalanceOver(course[0], rows) = after[last]
  <2>1. LastNumber(rows) \in Nat
    BY <1>0, <1>1
  <2>2. PICK after : IsRunOf(after, course[0], rows)
    BY <2>1, SumRuns
  <2> QED BY <1>0, <2>2 DEF IsRunOf
<1>3. \A n \in 0..last : after[n] = IF n = 0 THEN course[0]
                                    ELSE after[n - 1] + DeltaOf(rows, n)
  BY <1>2
<1>4. \A n \in (last + 1)..j : DeltaOf(rows, n) = 0
  <2> SUFFICES ASSUME NEW n \in (last + 1)..j PROVE DeltaOf(rows, n) = 0
    OBVIOUS
  <2>1. \A t \in rows : t.n # n
    BY <1>1
  <2> QED BY <2>1 DEF DeltaOf
<1> DEFINE sum(n) == IF n <= last THEN after[n] ELSE after[last]
<1> DEFINE fails == {n \in 0..j : sum(n) # course[n]}
<1>5. fails = {}
  <2> SUFFICES ASSUME fails # {} PROVE FALSE
    OBVIOUS
  <2>1. 0 \notin fails /\ fails \subseteq 0..j
    BY <1>1, <1>3
  <2>2. PICK n \in 1..j : n \in fails /\ n - 1 \in 0..j /\ n - 1 \notin fails
    <3> HIDE DEF fails
    <3> QED BY <2>1, FirstFailure
  <2>3. sum(n) # course[n] /\ sum(n - 1) = course[n - 1]
    BY <2>2
  <2>4. course[n] = course[n - 1] + DeltaOf(rows, n) /\ course[n - 1] \in Int
    OBVIOUS
  <2>5. CASE n <= last
    <3>1. n \in 0..last /\ n # 0 /\ n - 1 <= last
      BY <1>1, <2>5
    <3>2. after[n] = after[n - 1] + DeltaOf(rows, n)
      BY <1>3, <3>1
    <3> QED BY <2>3, <2>4, <2>5, <3>1, <3>2
  <2>6. CASE n = last + 1
    <3>1. DeltaOf(rows, n) = 0
      BY <1>1, <1>4, <2>6
    <3>2. sum(n) = after[last] /\ sum(n - 1) = after[last]
      BY <1>1, <2>6
    <3> QED BY <2>3, <2>4, <3>1, <3>2
  <2>7. CASE n > last + 1
    <3>1. DeltaOf(rows, n) = 0
      BY <1>1, <1>4, <2>7
    <3>2. sum(n) = after[last] /\ sum(n - 1) = after[last]
      BY <1>1, <2>7
    <3> QED BY <2>3, <2>4, <3>1, <3>2
  <2> QED BY <1>1, <2>5, <2>6, <2>7
<1>6. sum(j) = course[j]
  BY <1>5
<1>7. sum(j) = after[last]
  BY <1>1
<1> QED BY <1>2, <1>6, <1>7

\* The balance rule lets some difference pass.
RuleTolerates == BalanceRule.amount > 0 \/ BalanceRule.permille > 0

\* Entries of one moment are one entry, and a later moment is a later entry.
LEMMA EntriesInOrder ==
  ASSUME IInv, NEW i \in 1..Len(books), NEW j \in 1..Len(books)
  PROVE /\ books[i].at < books[j].at => i < j
        /\ books[i].at = books[j].at => i = j
        /\ i <= j => books[i].at <= books[j].at
<1>1. \A n, m \in 1..Len(books) : n < m => books[n].at < books[m].at
  BY DEF IInv, BooksKept
<1>2. books[i] \in Entry /\ books[j] \in Entry /\ Len(books) \in Nat
  BY DEF IInv, BooksKept
<1>3. books[i].at \in Nat /\ books[j].at \in Nat
  BY <1>2 DEF Entry
<1> QED BY <1>1, <1>2, <1>3

\* A snapshot that is no twin shows an entry as it is.
LEMMA SnapshotOfEntry ==
  ASSUME IInv, NEW s \in Snapshots, ~s.twin
  PROVE \E n \in 1..Len(books) : s.at = books[n].at /\ s.balance = books[n].balance
<1>1. PICK e \in accepted : e.what # "transaction" /\ s = SnapshotOf(e)
  BY DEF Snapshots
<1>2. e.entry \in 1..Len(books) /\ books[e.entry] \in Entry
  BY EventFacts
<1>3. e.what # "conflict" /\ books[e.entry].balance \in Nat
  BY <1>1, <1>2 DEF SnapshotOf, Entry
<1> QED BY <1>1, <1>2, <1>3 DEF SnapshotOf

\* Between two balances of the books of which all trades arrived, and none from
\* after them, the transactions account for the difference.
LEMMA SumReconciles ==
  ASSUME IInv, NEW i \in 1..Len(books), NEW j \in 1..Len(books), i < j,
         ~Unreconcilable(books[i].at, books[j].at)
  PROVE BalanceOver(books[i].balance, InWindow(Transactions, books[i].at + 1, AsOf))
          = books[j].balance
<1> DEFINE known(n) == [entry |-> n, what |-> "transaction"] \in accepted
<1>0. PICK rows : rows = InWindow(Transactions, books[i].at + 1, AsOf)
  OBVIOUS
<1>1. /\ Len(books) \in Nat
      /\ \A n \in 1..Len(books) :
           books[n] \in Entry /\ books[n].at \in Nat /\ books[n].balance \in Nat
  <2>1. Len(books) \in Nat /\ \A n \in 1..Len(books) : books[n] \in Entry
    BY DEF IInv, BooksKept
  <2> QED BY <2>1 DEF Entry
<1>2. ASSUME NEW t \in rows
      PROVE t.n \in (i + 1)..j /\ known(t.n)
            /\ t.kind = books[t.n].kind /\ t.amount = books[t.n].amount
  <2>1. t \in Transactions /\ books[i].at + 1 <= t.at
    BY <1>0, <1>2 DEF InWindow
  <2>2. PICK e \in accepted : e.what = "transaction" /\ t = TransactionOf(e)
    BY <2>1 DEF Transactions
  <2>3. e.entry \in 1..Len(books) /\ IsTrade(e.entry) /\ known(e.entry)
    BY <2>2, EventFacts
  <2>4. /\ t.n = e.entry /\ t.at = books[e.entry].at
        /\ t.kind = books[e.entry].kind /\ t.amount = books[e.entry].amount
    BY <2>2 DEF TransactionOf
  <2>5. books[i].at < books[e.entry].at
    BY <1>1, <2>1, <2>3, <2>4
  <2>6. i < e.entry
    BY <2>3, <2>5, EntriesInOrder
  <2>7. ~(books[e.entry].at > books[j].at)
    BY <2>3, <2>5 DEF Unreconcilable
  <2>8. ~(j < e.entry)
    <3>1. j < e.entry => books[j].at < books[e.entry].at
      BY <2>3 DEF IInv, BooksKept
    <3> QED BY <1>1, <2>3, <2>7, <3>1
  <2> QED BY <1>1, <2>3, <2>4, <2>6, <2>8
<1>3. ASSUME NEW n \in (i + 1)..j, IsTrade(n)
      PROVE /\ \E t \in rows : t.n = n
            /\ books[n].balance = books[n - 1].balance + BalanceDelta(books[n])
  <2>1. n \in 1..Len(books)
    BY <1>1
  <2>2. books[i].at < books[n].at
    BY <1>1, <2>1 DEF IInv, BooksKept
  <2>3. books[n].at <= books[j].at
    BY <2>1, EntriesInOrder
  <2>4. known(n) /\ books[n].balance = books[n - 1].balance + BalanceDelta(books[n])
    BY <1>3, <2>1, <2>2, <2>3 DEF Unreconcilable
  <2> DEFINE t == TransactionOf([entry |-> n, what |-> "transaction"])
  <2>5. t \in Transactions /\ t.n = n /\ t.at = books[n].at
    BY <2>4 DEF Transactions, TransactionOf
  <2>6. t.at <= AsOf
    BY <2>5, AsOfFacts DEF AsOfIsNewest
  <2>7. books[i].at + 1 <= t.at
    BY <1>1, <2>1, <2>2, <2>5
  <2> HIDE DEF t
  <2>8. t \in rows
    BY <1>0, <2>5, <2>6, <2>7 DEF InWindow
  <2> QED BY <2>4, <2>5, <2>8
<1> DEFINE course == [n \in 0..j |-> books[IF n < i THEN i ELSE n].balance]
<1>4. course \in [0..j -> Int]
  <2>1. \A n \in 0..j : (IF n < i THEN i ELSE n) \in 1..Len(books)
    BY <1>1
  <2>2. \A n \in 0..j : books[IF n < i THEN i ELSE n].balance \in Int
    BY <1>1, <2>1
  <2> QED BY <2>2
<1>5. ASSUME NEW n \in 1..j
      PROVE course[n] = course[n - 1] + DeltaOf(rows, n)
  <2>1. n \in 0..j /\ n - 1 \in 0..j /\ i \in Nat
    OBVIOUS
  <2>2. CASE n <= i
    <3>1. DeltaOf(rows, n) = 0
      <4>1. \A t \in rows : t.n # n
        <5> SUFFICES ASSUME NEW t \in rows, t.n = n PROVE FALSE
          OBVIOUS
        <5>1. t.n \in (i + 1)..j
          BY <1>2
        <5> QED BY <1>1, <2>2, <5>1
      <4> QED BY <4>1 DEF DeltaOf
    <3>2. course[n] = books[i].balance /\ course[n - 1] = books[i].balance
      BY <2>1, <2>2
    <3> QED BY <1>1, <3>1, <3>2
  <2>3. CASE n > i
    <3>1. n \in (i + 1)..j /\ n \in 2..Len(books)
      BY <1>1, <2>3
    <3>2. course[n] = books[n].balance /\ course[n - 1] = books[n - 1].balance
      BY <2>1, <2>3
    <3>3. CASE IsTrade(n)
      <4>1. PICK u \in rows : u.n = n
        BY <1>3, <3>1, <3>3
      <4> DEFINE t == CHOOSE t \in rows : t.n = n
      <4>2. t \in rows /\ t.n = n
        BY <4>1
      <4>3. DeltaOf(rows, n) = BalanceDelta(t)
        BY <4>1 DEF DeltaOf
      <4> HIDE DEF t
      <4>4. t.kind = books[n].kind /\ t.amount = books[n].amount
        BY <1>2, <4>2
      <4>5. DeltaOf(rows, n) = BalanceDelta(books[n])
        BY <4>3, <4>4 DEF BalanceDelta
      <4> QED BY <1>3, <3>1, <3>2, <3>3, <4>5
    <3>4. CASE ~IsTrade(n)
      <4>1. \A t \in rows : t.n # n
        <5> SUFFICES ASSUME NEW t \in rows, t.n = n PROVE FALSE
          OBVIOUS
        <5>1. [entry |-> n, what |-> "transaction"] \in accepted
          BY <1>2
        <5> QED BY <3>4, <5>1, EventFacts
      <4>2. DeltaOf(rows, n) = 0
        BY <4>1 DEF DeltaOf
      <4>3. books[n].balance = books[n - 1].balance
        BY <3>1, <3>4 DEF IInv, BooksKept
      <4>4. books[n].balance \in Nat
        BY <1>1, <3>1
      <4> QED BY <3>2, <4>2, <4>3, <4>4
    <3> QED BY <3>3, <3>4
  <2> QED BY <2>1, <2>2, <2>3
<1>6. course[0] = books[i].balance /\ course[j] = books[j].balance
  OBVIOUS
<1>7. \A t \in rows : t.n \in 1..j
  <2> SUFFICES ASSUME NEW t \in rows PROVE t.n \in 1..j
    OBVIOUS
  <2>1. t.n \in (i + 1)..j
    BY <1>2
  <2> QED BY <1>1, <2>1
<1>8. j \in Nat
  BY <1>1
<1> HIDE DEF course
<1>9. BalanceOver(course[0], rows) = course[j]
  BY <1>4, <1>5, <1>7, <1>8, SumFollows
<1> QED BY <1>0, <1>6, <1>9

\* Two equal balances are no discrepancy.
LEMMA EqualsPass ==
  ASSUME RuleTolerates, NEW b \in Nat
  PROVE ~Exceeds(b, b)
<1> DEFINE base == Max({Magnitude(b), Magnitude(b), 1})
<1>1. Magnitude(b) = b /\ AbsDiff(b, b) = 0
  BY DEF Magnitude, AbsDiff
<1>2. IsFiniteSet({b, 1})
  <2>1. {b, 1} = {b} \cup {1}
    OBVIOUS
  <2>2. IsFiniteSet({b}) /\ IsFiniteSet({1})
    BY FS_Singleton
  <2> QED BY ONLY <2>1, <2>2, FS_Union
<1>3. Max({b, 1}) \in {b, 1} /\ 1 <= Max({b, 1})
  <2>1. {b, 1} \subseteq Int /\ {b, 1} # {} /\ 1 \in {b, 1}
    OBVIOUS
  <2> QED BY <1>2, <2>1, MaxOf
<1>4. {Magnitude(b), Magnitude(b), 1} = {b, 1}
  BY <1>1
<1>5. base \in Nat /\ base >= 1
  BY <1>3, <1>4
<1> HIDE DEF base
<1>6. BalanceRule.amount \in Nat /\ BalanceRule.permille \in Nat
  BY RuleAssumption
<1>7. BalanceRule.permille > 0 => BalanceRule.permille * base > 0
  BY <1>5, <1>6
<1>8. Exceeds(b, b) => 0 >= BalanceRule.amount /\ 0 >= BalanceRule.permille * base
  BY <1>1 DEF Exceeds, base
<1> QED BY <1>5, <1>6, <1>7, <1>8 DEF RuleTolerates

\* An honest feed is found inconsistent only for a reason (detect_balance_
\* inconsistency): with one balance a moment and every trade between the anchor
\* and the report there, and none from later, the expected balance is the one
\* reported, whatever order the events came in.
THEOREM MismatchExplained == RuleTolerates => (Spec => []MismatchHasACause)
<1> SUFFICES ASSUME RuleTolerates PROVE Spec => []MismatchHasACause
  OBVIOUS
<1>1. IInv => MismatchHasACause
  <2> SUFFICES ASSUME IInv, \A s \in Snapshots : ~s.twin,
                      \A s \in ReconciliationAnchor(Snapshots), r \in Reported(Snapshots) :
                        ~Unreconcilable(s.at, r.at),
                      NEW d \in Discrepancies(Snapshots, Transactions, AsOf),
                      Exceeds(d[1], d[2])
               PROVE FALSE
    <3>1. BalanceInconsistency(Snapshots, Transactions, AccountQuality, AsOf) # "none" =>
            \E d \in Discrepancies(Snapshots, Transactions, AsOf) : Exceeds(d[1], d[2])
      BY DEF BalanceInconsistency
    <3> QED BY <3>1 DEF MismatchHasACause
  <2>1. Conflicts(Snapshots) = {}
    <3> SUFFICES ASSUME NEW a \in Snapshots, NEW b \in Snapshots, a.at = b.at,
                        a.balance # b.balance
                 PROVE FALSE
      BY DEF Conflicts, RowsAt
    <3>1. PICK n \in 1..Len(books) : a.at = books[n].at /\ a.balance = books[n].balance
      BY SnapshotOfEntry
    <3>2. PICK m \in 1..Len(books) : b.at = books[m].at /\ b.balance = books[m].balance
      BY SnapshotOfEntry
    <3>3. n = m
      BY <3>1, <3>2, EntriesInOrder
    <3> QED BY <3>1, <3>2, <3>3
  <2>2. PICK s \in ReconciliationAnchor(Snapshots), r \in Reported(Snapshots) :
          d = <<ExpectedBalance(s, Transactions, AsOf), r.balance>>
    BY <2>1 DEF Discrepancies
  <2>3. /\ r \in Snapshots /\ s \in Snapshots /\ s.at < r.at
    <3>1. r \in Snapshots /\ \A q \in Snapshots : q.at <= r.at
      BY DEF Reported, Newest, Unambiguous
    <3>2. s \in Unambiguous(Snapshots) \ Newest(Snapshots)
      BY <2>2 DEF ReconciliationAnchor, Newest
    <3>3. s \in Snapshots /\ \E q \in Snapshots : ~(q.at <= s.at)
      BY <3>2 DEF Unambiguous, Newest
    <3>4. \A q \in Snapshots : q.at \in Nat
      BY RowFacts DEF SnapshotRow
    <3> QED BY <3>1, <3>3, <3>4
  <2>4. PICK i \in 1..Len(books) : s.at = books[i].at /\ s.balance = books[i].balance
    BY <2>3, SnapshotOfEntry
  <2>5. PICK j \in 1..Len(books) : r.at = books[j].at /\ r.balance = books[j].balance
    BY <2>3, SnapshotOfEntry
  <2>6. i < j
    BY <2>3, <2>4, <2>5, EntriesInOrder
  <2>7. ~Unreconcilable(books[i].at, books[j].at)
    <3>1. ~Unreconcilable(s.at, r.at)
      OBVIOUS
    <3> QED BY <2>4, <2>5, <3>1
  <2>8. BalanceOver(books[i].balance, InWindow(Transactions, books[i].at + 1, AsOf))
          = books[j].balance
    BY <2>6, <2>7, SumReconciles
  <2>9. ExpectedBalance(s, Transactions, AsOf) = r.balance
    BY <2>4, <2>5, <2>8 DEF ExpectedBalance
  <2>10. d[1] = r.balance /\ d[2] = r.balance /\ r.balance \in Nat
    <3>1. r.balance \in Nat
      BY <2>3, RowFacts DEF SnapshotRow
    <3> QED BY <2>2, <2>9, <3>1
  <2> QED BY <2>10, EqualsPass
<1> QED BY Invariant, <1>1, PTL
=============================================================================
