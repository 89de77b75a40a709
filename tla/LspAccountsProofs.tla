-------------------------- MODULE LspAccountsProofs --------------------------
(***************************************************************************)
(* LspAccounts for any accounts, payments, requests, fees, limits and      *)
(* crashes: the ledger keeps the account's promise (it implements          *)
(* Account), nothing is reserved that is not there, a signed request acts  *)
(* once while it is good, a held payment goes one way but for the stops of *)
(* the process and its payer's deadline, and an account is debited exactly *)
(* what left for it.                                                       *)
(***************************************************************************)
EXTENDS LspAccounts, Sums, TLAPS

-----------------------------------------------------------------------------
(* Sums of amounts                                                         *)

\* A row is added to a table.
LEMMA AmtAdd ==
    ASSUME NEW S, IsFiniteSet(S), NEW x, x \notin S, \A y \in S \cup {x} : y.amt \in Int
    PROVE  SumAmt(S \cup {x}) = SumAmt(S) + x.amt
<1> DEFINE f == [y \in S \cup {x} |-> y.amt]
           g == [y \in S |-> y.amt]
<1>1. SumAmt(S \cup {x}) = SumFunctionOnSet(f, S \cup {x})
  BY DEF SumAmt, SumFunction
<1>2. SumAmt(S) = SumFunctionOnSet(g, S)
  BY DEF SumAmt, SumFunction
<1>3. SumFunctionOnSet(f, S) = SumFunctionOnSet(g, S)
  <2>1. \A y \in S : f[y] = g[y]
    OBVIOUS
  <2> QED
    BY <2>1, SumSame
<1>4. SumFunctionOnSet(f, S \cup {x}) = SumFunctionOnSet(f, S) + f[x]
  <2>1. \A y \in S \cup {x} : f[y] \in Int
    OBVIOUS
  <2> QED
    BY <2>1, SumAdd
<1> QED
  BY <1>1, <1>2, <1>3, <1>4

\* A row is deleted from one.
LEMMA AmtRemove ==
    ASSUME NEW S, IsFiniteSet(S), NEW x \in S, \A y \in S : y.amt \in Int
    PROVE  SumAmt(S \ {x}) = SumAmt(S) - x.amt
<1>1. IsFiniteSet(S \ {x})
  BY FS_RemoveElement
<1>2. SumAmt((S \ {x}) \cup {x}) = SumAmt(S \ {x}) + x.amt
  BY <1>1, AmtAdd
<1>3. (S \ {x}) \cup {x} = S
  OBVIOUS
<1>4. SumAmt(S) = SumAmt(S \ {x}) + x.amt
  BY <1>2, <1>3, Zenon
<1>5. SumAmt(S \ {x}) \in Int
  <2> DEFINE g == [y \in S \ {x} |-> y.amt]
  <2>1. \A y \in S \ {x} : g[y] \in Int
    OBVIOUS
  <2>2. SumFunctionOnSet(g, S \ {x}) \in Int
    BY <1>1, <2>1, SumInt
  <2> QED
    BY <2>2 DEF SumAmt, SumFunction
<1> QED
  BY <1>4, <1>5

\* A sum of amounts is an amount.
LEMMA AmtNat ==
    ASSUME NEW S, IsFiniteSet(S), \A y \in S : y.amt \in Nat
    PROVE  SumAmt(S) \in Nat
<1> DEFINE g == [y \in S |-> y.amt]
<1>1. \A y \in S : g[y] \in Nat
  OBVIOUS
<1>2. SumFunctionOnSet(g, S) \in Nat
  BY <1>1, SumNat
<1> QED
  BY <1>2 DEF SumAmt, SumFunction

\* Nothing held is zero.
LEMMA AmtEmpty == SumAmt({}) = 0
<1>1. SumAmt({}) = SumFunctionOnSet([y \in {} |-> y.amt], {})
  BY DEF SumAmt, SumFunction
<1> QED
  BY <1>1, SumEmpty

\* Column held_msat of account n, when table holds is H.
Reserved(H, n) == SumAmt({x \in H : x.node = n})

\* A hold counts against its own account.
LEMMA ReservedAdd ==
    ASSUME NEW H, H \subseteq Hold, IsFiniteSet(H), NEW x \in Hold, x \notin H, NEW n \in Nodes
    PROVE  Reserved(H \cup {x}, n) = Reserved(H, n) + (IF n = x.node THEN x.amt ELSE 0)
<1> DEFINE R == {y \in H : y.node = n}
<1>1. IsFiniteSet(R) /\ x \notin R /\ \A y \in R \cup {x} : y.amt \in Nat
  BY FS_Subset DEF Hold
<1>2. Reserved(H, n) = SumAmt(R) /\ SumAmt(R) \in Nat
  BY <1>1, AmtNat DEF Reserved
<1>3. CASE n = x.node
  <2>1. {y \in H \cup {x} : y.node = n} = R \cup {x}
    BY <1>3
  <2>2. Reserved(H \cup {x}, n) = SumAmt(R \cup {x})
    BY <2>1, Zenon DEF Reserved
  <2>3. SumAmt(R \cup {x}) = SumAmt(R) + x.amt
    BY <1>1, AmtAdd
  <2> QED
    BY <1>2, <1>3, <2>2, <2>3
<1>4. CASE n # x.node
  <2>1. {y \in H \cup {x} : y.node = n} = R
    BY <1>4
  <2>2. Reserved(H \cup {x}, n) = SumAmt(R)
    BY <2>1, Zenon DEF Reserved
  <2> QED
    BY <1>2, <1>4, <2>2
<1> QED
  BY <1>3, <1>4

\* And no longer when it is gone.
LEMMA ReservedRemove ==
    ASSUME NEW H, H \subseteq Hold, IsFiniteSet(H), NEW x \in H, NEW n \in Nodes
    PROVE  Reserved(H, n) = Reserved(H \ {x}, n) + (IF n = x.node THEN x.amt ELSE 0)
<1>1. H \ {x} \subseteq Hold /\ IsFiniteSet(H \ {x}) /\ x \notin H \ {x} /\ x \in Hold
  BY FS_RemoveElement
<1>2. Reserved((H \ {x}) \cup {x}, n) = Reserved(H \ {x}, n) + (IF n = x.node THEN x.amt ELSE 0)
  BY <1>1, ReservedAdd
<1>3. (H \ {x}) \cup {x} = H
  OBVIOUS
<1> QED
  BY <1>2, <1>3, Zenon

\* What an account has reserved is an amount.
LEMMA ReservedNat ==
    ASSUME NEW H, H \subseteq Hold, IsFiniteSet(H), NEW n \in Nodes
    PROVE  Reserved(H, n) \in Nat
<1> DEFINE R == {y \in H : y.node = n}
<1>1. IsFiniteSet(R) /\ \A y \in R : y.amt \in Nat
  BY FS_Subset DEF Hold
<1> QED
  BY <1>1, AmtNat DEF Reserved

-----------------------------------------------------------------------------
(* The inductive invariant                                                 *)

\* The tables of the ledger that hold money: no two holds share an id, and no account has
\* reserved more than it has.
Money ==
    /\ balance \in [Nodes -> Int]
    /\ holds \subseteq Hold /\ IsFiniteSet(holds)
    /\ entries \subseteq [node : Nodes, hash : Hashes, from : Nodes \cup {"ln"}]
    /\ \A x, y \in holds : x.id = y.id => x = y
    /\ \A n \in Nodes : Reserved(holds, n) <= balance[n]

\* The other conjuncts of TypeOK.
OtherTypes ==
    /\ now \in Nat /\ height \in Nat /\ crashes \in 0..MaxCrashes
    /\ scenario \in Scenarios /\ served \in [scenario.requests -> Nat]
    /\ issued \subseteq OfKind("invoice") \cup OfKind("fee") \cup OfKind("offer")
    /\ nonces \subseteq Requests
    /\ onchain \subseteq [node : Nodes, amt : Nat, req : Requests, nth : Nat]
    /\ held \in [OfKind("held") -> [st : HeldStates, fid : Nat]]
    /\ inbound \in [Hashes -> {"none", "locked", "claimed", "refunded"}]
    /\ out \in Seq(Outgoing) /\ routed \in Nat
    /\ queue \in Seq(Events)
    /\ api \in [pc : {"idle", "nonce", "pay", "withdraw", "settle", "unpaid"}, req : Requests]
    /\ main.pc \in {"idle", "ack", "skim", "deliver", "forward", "claimed", "credited", "settled",
                     "read", "hold", "send", "rename"}

\* The hold of a move has the id of a payment that was made.
IdsInv == \A x \in holds : x.id \in Moves \X Nat => x.id[2] <= Len(out)

\* A request of the API thread is of the kind its step is about.
ApiInv ==
    /\ api.pc = "pay" => api.req.op = "pay"
    /\ api.pc = "withdraw" => api.req.op = "withdraw"

\* What the main thread remembers between two calls: the held payment or the account at
\* hand, what it read of it, and, before the hold of a move is renamed, that its new id is
\* free.
MainInv ==
    /\ main.pc \in {"deliver", "forward", "claimed", "credited", "settled"}
          => main.ref \in OfKind("held")
    /\ main.pc = "forward" => main.amt \in 1..Len(out)
    /\ main.pc \in {"read", "hold", "send", "rename"} => main.ref \in Nodes /\ main.how \in Moves
    /\ main.pc = "read" => main.amt \in Nat
    /\ main.pc \in {"hold", "send"} => main.amt.plan \in Nat /\ main.amt.free \in Nat
    /\ main.pc = "rename" =>
          /\ main.amt \in 1..Len(out) /\ out[main.amt].why = main.how
          /\ HoldWith(MoveId(main.amt)) = {}

\* LDK tells of a payment of ours how it ended.
QueueInv ==
    \A k \in 1..Len(queue) : queue[k].kind \in {"ok", "failed"} =>
        queue[k].ref \in 1..Len(out) /\ out[queue[k].ref].st = queue[k].kind

\* A request that was served is remembered for as long as it is good.  Only one whose nonce
\* is yet to be looked up can be served after that, and none is looked up that was served twice.
NonceInv ==
    /\ \A r \in scenario.requests :
          /\ served[r] \in {0, 1, 2}
          /\ served[r] # 0 => r \in nonces \/ r.exp < now
          /\ served[r] = 2 => r.exp < now
    /\ api.pc # "idle" => api.req \in scenario.requests
    /\ api.pc = "nonce" => served[api.req] # 2

IInv == Money /\ OtherTypes /\ IdsInv /\ ApiInv /\ MainInv /\ QueueInv /\ NonceInv

-----------------------------------------------------------------------------
(* The five ways money moves in the ledger                                 *)

HoldMade(x) ==
    /\ x \in Hold /\ x.id \notin Moves \X Nat /\ HoldWith(x.id) = {}
    /\ x.amt <= balance[x.node] - Reserved(holds, x.node)
    /\ holds' = holds \cup {x}
    /\ UNCHANGED <<balance, entries>>

HoldEnded(x, a) ==
    /\ x \in holds /\ a \in 0..x.amt
    /\ holds' = holds \ {x}
    /\ balance' = [balance EXCEPT ![x.node] = @ - a]
    /\ UNCHANGED entries

HoldRenamed(x, id) ==
    /\ x \in holds /\ id \in Moves \X (1..Len(out)) /\ HoldWith(id) = {}
    /\ holds' = (holds \ {x}) \cup {[x EXCEPT !.id = id]}
    /\ UNCHANGED <<balance, entries>>

PaidInto(n, h) ==
    /\ n \in Nodes /\ h \in Hashes /\ ~Credited(n, h)
    /\ entries' = entries \cup {[node |-> n, hash |-> h, from |-> "ln"]}
    /\ balance' = [balance EXCEPT ![n] = @ + Amt(h)]
    /\ UNCHANGED holds

PaidFrom(m, n, h) ==
    /\ m \in Nodes /\ n \in Nodes /\ m # n /\ h \in Hashes /\ ~Credited(n, h)
    /\ Amt(h) <= balance[m] - Reserved(holds, m)
    /\ entries' = entries \cup {[node |-> n, hash |-> h, from |-> m]}
    /\ balance' = [balance EXCEPT ![n] = @ + Amt(h), ![m] = @ - Amt(h)]
    /\ UNCHANGED holds

Booked ==
    \/ UNCHANGED <<balance, holds, entries>>
    \/ \E x : HoldMade(x)
    \/ \E x, a : HoldEnded(x, a)
    \/ \E n, h : PaidInto(n, h)
    \/ \E m, n, h : PaidFrom(m, n, h)

MoneyMoves == Booked \/ \E x, id : HoldRenamed(x, id)

\* What each does to the amounts reserved.
LEMMA ReservedMoves ==
    ASSUME Money, NEW n \in Nodes
    PROVE  /\ Reserved(holds, n) \in Nat
           /\ \A x : HoldMade(x) =>
                 Reserved(holds', n) = Reserved(holds, n) + (IF n = x.node THEN x.amt ELSE 0)
           /\ \A x, a : HoldEnded(x, a) =>
                 Reserved(holds', n) = Reserved(holds, n) - (IF n = x.node THEN x.amt ELSE 0)
           /\ \A x, id : HoldRenamed(x, id) => Reserved(holds', n) = Reserved(holds, n)
<1> USE DEF Money
<1>1. Reserved(holds, n) \in Nat
  BY ReservedNat
<1>2. ASSUME NEW x, HoldMade(x)
      PROVE  Reserved(holds', n) = Reserved(holds, n) + (IF n = x.node THEN x.amt ELSE 0)
  <2>1. x \in Hold /\ x \notin holds /\ holds' = holds \cup {x}
    BY <1>2 DEF HoldMade, HoldWith
  <2> QED
    BY <2>1, ReservedAdd
<1>3. ASSUME NEW x, x \in holds
      PROVE  /\ Reserved(holds \ {x}, n) = Reserved(holds, n) - (IF n = x.node THEN x.amt ELSE 0)
             /\ Reserved(holds \ {x}, n) \in Nat /\ IsFiniteSet(holds \ {x})
             /\ x.amt \in Nat
  <2>1. Reserved(holds, n) = Reserved(holds \ {x}, n) + (IF n = x.node THEN x.amt ELSE 0)
    BY <1>3, ReservedRemove
  <2>2. holds \ {x} \subseteq Hold /\ IsFiniteSet(holds \ {x}) /\ x \in Hold
    BY <1>3, FS_RemoveElement
  <2>3. Reserved(holds \ {x}, n) \in Nat /\ x.amt \in Nat
    BY <2>2, ReservedNat DEF Hold
  <2> QED
    BY <2>1, <2>2, <2>3
<1>4. ASSUME NEW x, NEW a, HoldEnded(x, a)
      PROVE  Reserved(holds', n) = Reserved(holds, n) - (IF n = x.node THEN x.amt ELSE 0)
  BY <1>3, <1>4 DEF HoldEnded
<1>5. ASSUME NEW x, NEW id, HoldRenamed(x, id)
      PROVE  Reserved(holds', n) = Reserved(holds, n)
  <2> DEFINE y == [x EXCEPT !.id = id]
  <2>1. x \in holds /\ x \in Hold /\ id \in HoldIds /\ holds' = (holds \ {x}) \cup {y}
    BY <1>5 DEF HoldRenamed, HoldIds
  <2>2. y \in Hold /\ y.id = id /\ y.node = x.node /\ y.amt = x.amt
    BY <2>1 DEF Hold
  <2>3. y \notin holds \ {x} /\ holds \ {x} \subseteq Hold
    BY <1>5, <2>2 DEF HoldRenamed, HoldWith
  <2> HIDE DEF y
  <2>4. Reserved((holds \ {x}) \cup {y}, n)
          = Reserved(holds \ {x}, n) + (IF n = y.node THEN y.amt ELSE 0)
    BY <1>3, <2>1, <2>2, <2>3, ReservedAdd
  <2>5. Reserved(holds', n) = Reserved((holds \ {x}) \cup {y}, n)
    BY <2>1, Zenon
  <2>6. /\ Reserved(holds \ {x}, n) = Reserved(holds, n) - (IF n = x.node THEN x.amt ELSE 0)
        /\ x.amt \in Nat
    BY <1>3, <2>1
  <2>7. Reserved(holds', n) = Reserved(holds \ {x}, n) + (IF n = x.node THEN x.amt ELSE 0)
    BY <2>2, <2>4, <2>5, Zenon
  <2> QED
    BY <1>1, <2>6, <2>7
<1> QED
  BY <1>1, <1>2, <1>4, <1>5

\* The ledger's money stays in order whatever moves it.
LEMMA MoneyKept ==
    ASSUME Money, MoneyMoves
    PROVE  Money'
<1> USE DEF Money
<1>0. \A h \in Hashes : Amt(h) \in Nat /\ Amt(h) > 0
  BY LspConstants
<1>1. CASE UNCHANGED <<balance, holds, entries>>
  BY <1>1
<1>2. ASSUME NEW x, HoldMade(x) PROVE Money'
  <2>1. x \in Hold /\ HoldWith(x.id) = {} /\ holds' = holds \cup {x}
        /\ balance' = balance /\ entries' = entries
        /\ x.amt <= balance[x.node] - Reserved(holds, x.node)
    BY <1>2 DEF HoldMade
  <2>2. x.node \in Nodes /\ x.amt \in Nat
    BY <2>1 DEF Hold
  <2>3. holds' \subseteq Hold /\ IsFiniteSet(holds')
    BY <2>1, FS_AddElement
  <2>4. \A u, v \in holds' : u.id = v.id => u = v
    BY <2>1 DEF HoldWith
  <2>5. ASSUME NEW n \in Nodes PROVE Reserved(holds', n) <= balance'[n]
    <3>1. Reserved(holds', n) = Reserved(holds, n) + (IF n = x.node THEN x.amt ELSE 0)
          /\ Reserved(holds, n) \in Nat /\ balance[n] \in Int /\ Reserved(holds, n) <= balance[n]
      BY <1>2, ReservedMoves
    <3> QED
      BY <2>1, <2>2, <3>1
  <2> QED
    BY <2>1, <2>3, <2>4, <2>5
<1>3. ASSUME NEW x, NEW a, HoldEnded(x, a) PROVE Money'
  <2>1. x \in holds /\ a \in 0..x.amt /\ holds' = holds \ {x} /\ entries' = entries
        /\ balance' = [balance EXCEPT ![x.node] = @ - a]
    BY <1>3 DEF HoldEnded
  <2>2. x.node \in Nodes /\ x.amt \in Nat /\ a \in Nat /\ a <= x.amt
    BY <2>1 DEF Hold
  <2>3. holds' \subseteq Hold /\ IsFiniteSet(holds')
    BY <2>1, FS_RemoveElement
  <2>4. \A u, v \in holds' : u.id = v.id => u = v
    BY <2>1
  <2>5. balance' \in [Nodes -> Int]
    BY <2>1, <2>2
  <2>6. ASSUME NEW n \in Nodes PROVE Reserved(holds', n) <= balance'[n]
    <3>1. Reserved(holds', n) = Reserved(holds, n) - (IF n = x.node THEN x.amt ELSE 0)
          /\ Reserved(holds, n) \in Nat /\ balance[n] \in Int /\ Reserved(holds, n) <= balance[n]
      BY <1>3, ReservedMoves
    <3>2. balance'[n] = balance[n] - (IF n = x.node THEN a ELSE 0)
      BY <2>1, <2>2
    <3> QED
      BY <2>2, <3>1, <3>2
  <2> QED
    BY <2>1, <2>3, <2>4, <2>5, <2>6
<1>4. ASSUME NEW x, NEW id, HoldRenamed(x, id) PROVE Money'
  <2> DEFINE y == [x EXCEPT !.id = id]
  <2>1. x \in holds /\ x \in Hold /\ id \in HoldIds /\ HoldWith(id) = {}
        /\ holds' = (holds \ {x}) \cup {y} /\ balance' = balance /\ entries' = entries
    BY <1>4 DEF HoldRenamed, HoldIds
  <2>2. y \in Hold /\ y.id = id
    BY <2>1 DEF Hold
  <2> HIDE DEF y
  <2>3. IsFiniteSet(holds \ {x})
    BY FS_RemoveElement
  <2>4. holds' \subseteq Hold /\ IsFiniteSet(holds')
    BY <2>1, <2>2, <2>3, FS_AddElement
  <2>5. \A u, v \in holds' : u.id = v.id => u = v
    BY <2>1, <2>2 DEF HoldWith
  <2>6. \A n \in Nodes : Reserved(holds', n) <= balance'[n]
    BY <1>4, <2>1, ReservedMoves
  <2> QED
    BY <2>1, <2>4, <2>5, <2>6
<1>5. ASSUME NEW n, NEW h, PaidInto(n, h) PROVE Money'
  <2>1. n \in Nodes /\ h \in Hashes /\ holds' = holds
        /\ entries' = entries \cup {[node |-> n, hash |-> h, from |-> "ln"]}
        /\ balance' = [balance EXCEPT ![n] = @ + Amt(h)]
    BY <1>5 DEF PaidInto
  <2>2. balance' \in [Nodes -> Int] /\ \A k \in Nodes : balance'[k] >= balance[k]
    BY <1>0, <2>1
  <2>3. \A k \in Nodes : Reserved(holds', k) = Reserved(holds, k) /\ Reserved(holds, k) \in Nat
    BY <2>1, ReservedMoves
  <2>4. \A k \in Nodes : Reserved(holds', k) <= balance'[k]
    BY <2>2, <2>3
  <2> QED
    BY <2>1, <2>2, <2>4
<1>6. ASSUME NEW m, NEW n, NEW h, PaidFrom(m, n, h) PROVE Money'
  <2>1. m \in Nodes /\ n \in Nodes /\ m # n /\ h \in Hashes /\ holds' = holds
        /\ Amt(h) <= balance[m] - Reserved(holds, m)
        /\ entries' = entries \cup {[node |-> n, hash |-> h, from |-> m]}
        /\ balance' = [balance EXCEPT ![n] = @ + Amt(h), ![m] = @ - Amt(h)]
    BY <1>6 DEF PaidFrom
  <2>2. balance' \in [Nodes -> Int] /\ balance'[m] = balance[m] - Amt(h)
        /\ \A k \in Nodes \ {m} : balance'[k] >= balance[k]
    BY <1>0, <2>1
  <2>3. \A k \in Nodes : Reserved(holds', k) = Reserved(holds, k) /\ Reserved(holds, k) \in Nat
    BY <2>1, ReservedMoves
  <2>4. \A k \in Nodes : Reserved(holds', k) <= balance'[k]
    BY <1>0, <2>1, <2>2, <2>3
  <2> QED
    BY <2>1, <2>2, <2>4
<1> QED
  BY <1>1, <1>2, <1>3, <1>4, <1>5, <1>6 DEF MoneyMoves, Booked

\* The ids of moves stay those of payments that were made.
LEMMA IdsKept ==
    ASSUME Money, IdsInv, MoneyMoves, Len(out) \in Nat, Len(out') \in Nat, Len(out') >= Len(out)
    PROVE  IdsInv'
<1> USE DEF Money
<1>1. CASE UNCHANGED <<balance, holds, entries>>
  BY <1>1 DEF IdsInv
<1>2. ASSUME NEW x, HoldMade(x) PROVE IdsInv'
  BY <1>2 DEF HoldMade, IdsInv
<1>3. ASSUME NEW x, NEW a, HoldEnded(x, a) PROVE IdsInv'
  BY <1>3 DEF HoldEnded, IdsInv
<1>4. ASSUME NEW x, NEW id, HoldRenamed(x, id) PROVE IdsInv'
  <2> DEFINE y == [x EXCEPT !.id = id]
  <2>1. x \in holds /\ x \in Hold /\ id[2] \in 1..Len(out) /\ holds' = (holds \ {x}) \cup {y}
    BY <1>4 DEF HoldRenamed
  <2>2. y.id = id
    BY <2>1 DEF Hold
  <2> HIDE DEF y
  <2> QED
    BY <2>1, <2>2 DEF IdsInv
<1>5. ASSUME NEW n, NEW h, PaidInto(n, h) PROVE IdsInv'
  BY <1>5 DEF PaidInto, IdsInv
<1>6. ASSUME NEW m, NEW n, NEW h, PaidFrom(m, n, h) PROVE IdsInv'
  BY <1>6 DEF PaidFrom, IdsInv
<1> QED
  BY <1>1, <1>2, <1>3, <1>4, <1>5, <1>6 DEF MoneyMoves, Booked

-----------------------------------------------------------------------------
(* The ledger implements Account                                           *)

\* The account's view of the ledger.
LEMMA AccountView ==
    /\ \A n : account_of(n).held = Reserved(holds, n) /\ account_of(n).balance = balance[n]
    /\ \A n : free_msat(n) = balance[n] - Reserved(holds, n)
BY DEF account_of, free_msat, Reserved, HoldsOf

\* What the account reserves and was paid, before and after a step.
LEMMA AccountViewNext ==
    /\ [n \in Nodes |-> account_of(n).held] = [n \in Nodes |-> Reserved(holds, n)]
    /\ [n \in Nodes |-> account_of(n).held]' = [n \in Nodes |-> Reserved(holds', n)]
BY DEF account_of, Reserved, HoldsOf

\* Every move of money is a step of Account, or none of the account's business.
LEMMA MoneyImplements ==
    ASSUME Money, MoneyMoves
    PROVE  [Acct!Next]_(Acct!vars)
<1> DEFINE amount == [h \in Hashes |-> Amt(h)]
           res == [n \in Nodes |-> Reserved(holds, n)]
           resN == [n \in Nodes |-> Reserved(holds', n)]
           paid == [n \in Nodes |-> {e.hash : e \in Credits(n)}]
<1>0. \A h \in Hashes : Amt(h) \in Nat /\ amount[h] = Amt(h)
  BY LspConstants
<1>a. /\ [n \in Nodes |-> account_of(n).held] = res
      /\ [n \in Nodes |-> account_of(n).held]' = resN
  BY AccountViewNext
<1>b. \A n \in Nodes : Reserved(holds, n) \in Nat /\ balance[n] \in Int
                        /\ Reserved(holds, n) <= balance[n]
  BY ReservedMoves DEF Money
<1>c. entries' = entries => paid' = paid
  BY DEF Credits
<1>d. ASSUME NEW n \in Nodes, NEW h \in Hashes, NEW from, ~Credited(n, h),
             entries' = entries \cup {[node |-> n, hash |-> h, from |-> from]}
      PROVE  h \notin paid[n] /\ paid' = [paid EXCEPT ![n] = @ \cup {h}]
  <2> DEFINE e == [node |-> n, hash |-> h, from |-> from]
  <2>1. h \notin paid[n]
    BY <1>d DEF Credited, Credits
  <2>2. e.node = n /\ e.hash = h
    OBVIOUS
  <2> HIDE DEF e
  <2>3. ASSUME NEW k \in Nodes
        PROVE  {d.hash : d \in Credits(k)}' = IF k = n THEN paid[k] \cup {h} ELSE paid[k]
    BY <1>d, <2>2 DEF Credits, e
  <2> QED
    BY <2>1, <2>3
<1>1. CASE UNCHANGED <<balance, holds, entries>>
  <2>1. resN = res
    BY <1>1
  <2>2. UNCHANGED Acct!vars
    BY <1>1, <1>a, <1>c, <2>1 DEF Acct!vars
  <2> QED
    BY <2>2
<1>2. ASSUME NEW x, HoldMade(x) PROVE [Acct!Next]_(Acct!vars)
  <2> DEFINE n == x.node
  <2>1. n \in Nodes /\ x.amt \in Nat /\ balance' = balance /\ entries' = entries
        /\ x.amt <= balance[n] - Reserved(holds, n)
    BY <1>2 DEF HoldMade, Hold
  <2>2. \A k \in Nodes : Reserved(holds', k) = Reserved(holds, k) + (IF k = n THEN x.amt ELSE 0)
    BY <1>2, ReservedMoves
  <2> HIDE DEF n
  <2>3. resN = [res EXCEPT ![n] = @ + x.amt]
    <3>1. \A k \in Nodes : resN[k] = IF k = n THEN res[k] + x.amt ELSE res[k]
      BY <1>b, <2>1, <2>2
    <3>2. resN = [k \in Nodes |-> resN[k]]
      OBVIOUS
    <3>3. res = [k \in Nodes |-> res[k]]
      OBVIOUS
    <3> HIDE DEF res, resN
    <3> QED
      BY <3>1, <3>2, <3>3
  <2>4. CASE x.amt = 0
    <3>1. resN = res
      BY <1>b, <2>1, <2>2, <2>4
    <3>2. UNCHANGED Acct!vars
      BY <1>a, <1>c, <2>1, <3>1 DEF Acct!vars
    <3> QED
      BY <3>2
  <2>5. CASE x.amt > 0
    <3>1. x.amt \in 1..(balance[n] - res[n])
      BY <1>b, <2>1, <2>5
    <3>2. Acct!Reserve(n)
      BY <1>a, <1>c, <2>1, <2>3, <3>1 DEF Acct!Reserve, Acct!Free
    <3> QED
      BY <2>1, <3>2 DEF Acct!Next
  <2> QED
    BY <2>1, <2>4, <2>5
<1>3. ASSUME NEW x, NEW a, HoldEnded(x, a) PROVE [Acct!Next]_(Acct!vars)
  <2> DEFINE n == x.node
  <2>1. n \in Nodes /\ x.amt \in Nat /\ a \in 0..x.amt /\ entries' = entries
        /\ balance' = [balance EXCEPT ![n] = @ - a] /\ balance \in [Nodes -> Int]
    BY <1>3 DEF HoldEnded, Hold, Money
  <2>2. \A k \in Nodes : /\ Reserved(holds', k) = Reserved(holds, k) - (IF k = n THEN x.amt ELSE 0)
                          /\ Reserved(holds', k) \in Nat
    <3>1. Money'
      BY <1>3, MoneyKept DEF MoneyMoves, Booked
    <3>2. \A k \in Nodes : Reserved(holds', k) \in Nat
      BY <3>1, ReservedNat DEF Money
    <3> QED
      BY <1>3, <3>2, ReservedMoves
  <2> HIDE DEF n
  <2>3. resN = [res EXCEPT ![n] = @ - x.amt]
    <3>1. \A k \in Nodes : resN[k] = IF k = n THEN res[k] - x.amt ELSE res[k]
      BY <1>b, <2>1, <2>2
    <3>2. resN = [k \in Nodes |-> resN[k]]
      OBVIOUS
    <3>3. res = [k \in Nodes |-> res[k]]
      OBVIOUS
    <3> HIDE DEF res, resN
    <3> QED
      BY <3>1, <3>2, <3>3
  <2>4. CASE x.amt = 0
    <3>1. resN = res
      BY <1>b, <2>1, <2>2, <2>4
    <3>2. balance' = balance
      <4>1. a = 0
        BY <2>1, <2>4
      <4>2. \A k \in Nodes : balance'[k] = balance[k]
        BY <1>b, <2>1, <4>1
      <4> QED
        BY <2>1, <4>2
    <3>3. UNCHANGED Acct!vars
      BY <1>a, <1>c, <2>1, <3>1, <3>2 DEF Acct!vars
    <3> QED
      BY <3>3
  <2>5. CASE x.amt > 0
    <3>1. x.amt \in 1..res[n]
      <4>1. res[n] \in Nat /\ res[n] - x.amt \in Nat
        BY <1>b, <2>1, <2>2
      <4> QED
        BY <2>1, <2>5, <4>1
    <3>2. Acct!Settle(n)
      BY <1>a, <1>c, <2>1, <2>3, <3>1 DEF Acct!Settle
    <3> QED
      BY <2>1, <3>2 DEF Acct!Next
  <2> QED
    BY <2>1, <2>4, <2>5
<1>4. ASSUME NEW x, NEW id, HoldRenamed(x, id) PROVE [Acct!Next]_(Acct!vars)
  <2>1. balance' = balance /\ entries' = entries
    BY <1>4 DEF HoldRenamed
  <2>2. resN = res
    BY <1>4, ReservedMoves
  <2>3. UNCHANGED Acct!vars
    BY <1>a, <1>c, <2>1, <2>2 DEF Acct!vars
  <2> QED
    BY <2>3
<1>5. ASSUME NEW n, NEW h, PaidInto(n, h) PROVE [Acct!Next]_(Acct!vars)
  <2>1. n \in Nodes /\ h \in Hashes /\ ~Credited(n, h) /\ holds' = holds
        /\ entries' = entries \cup {[node |-> n, hash |-> h, from |-> "ln"]}
        /\ balance' = [balance EXCEPT ![n] = @ + Amt(h)]
    BY <1>5 DEF PaidInto
  <2>2. h \notin paid[n] /\ paid' = [paid EXCEPT ![n] = @ \cup {h}]
    BY <1>d, <2>1
  <2>3. resN = res
    BY <2>1
  <2>4. Acct!Credit(n, h)
    BY <1>0, <1>a, <2>1, <2>2, <2>3 DEF Acct!Credit
  <2> QED
    BY <2>1, <2>4 DEF Acct!Next
<1>6. ASSUME NEW m, NEW n, NEW h, PaidFrom(m, n, h) PROVE [Acct!Next]_(Acct!vars)
  <2>1. m \in Nodes /\ n \in Nodes /\ m # n /\ h \in Hashes /\ ~Credited(n, h) /\ holds' = holds
        /\ Amt(h) <= balance[m] - Reserved(holds, m)
        /\ entries' = entries \cup {[node |-> n, hash |-> h, from |-> m]}
        /\ balance' = [balance EXCEPT ![n] = @ + Amt(h), ![m] = @ - Amt(h)]
    BY <1>6 DEF PaidFrom
  <2>2. h \notin paid[n] /\ paid' = [paid EXCEPT ![n] = @ \cup {h}]
    BY <1>d, <2>1
  <2>3. resN = res /\ res[m] = Reserved(holds, m)
    BY <2>1
  <2>4. Acct!Transfer(m, n, h)
    BY <1>0, <1>a, <2>1, <2>2, <2>3 DEF Acct!Transfer, Acct!Free
  <2> QED
    BY <2>1, <2>4 DEF Acct!Next
<1> QED
  BY <1>1, <1>2, <1>3, <1>4, <1>5, <1>6 DEF MoneyMoves, Booked

-----------------------------------------------------------------------------
(* The ledger's calls                                                      *)

\* The smaller of two amounts.
LEMMA MinOfTwo ==
    ASSUME NEW a \in Nat, NEW b \in Nat
    PROVE  Min({a, b}) \in 0..b
<1>1. \E x \in {a, b} : \A y \in {a, b} : x =< y
  <2>1. CASE a <= b
    BY <2>1
  <2>2. CASE b <= a
    BY <2>2
  <2> QED
    BY <2>1, <2>2
<1>2. Min({a, b}) \in {a, b} /\ \A y \in {a, b} : Min({a, b}) =< y
  BY <1>1 DEF Min
<1> QED
  BY <1>2

\* The larger one.
LEMMA MaxOfTwo ==
    ASSUME NEW a \in Nat, NEW b \in Nat
    PROVE  Max({a, b}) \in Nat
<1>1. \E x \in {a, b} : \A y \in {a, b} : x >= y
  <2>1. CASE a <= b
    BY <2>1
  <2>2. CASE b <= a
    BY <2>2
  <2> QED
    BY <2>1, <2>2
<1>2. Max({a, b}) \in {a, b}
  BY <1>1 DEF Max
<1> QED
  BY <1>2

\* credit books the payment in, or nothing.
LEMMA CreditBooked ==
    ASSUME NEW n \in Nodes, NEW h \in Hashes, credit(n, h), UNCHANGED holds
    PROVE  Booked
<1>1. CASE Credited(n, h)
  BY <1>1 DEF credit, Booked
<1>2. CASE ~Credited(n, h)
  <2>1. PaidInto(n, h)
    BY <1>2 DEF credit, add_balance, PaidInto
  <2> QED
    BY <2>1 DEF Booked
<1> QED
  BY <1>1, <1>2

\* transfer books both sides, or nothing.
LEMMA TransferBooked ==
    ASSUME NEW m \in Nodes, NEW n \in Nodes, m # n, NEW h \in Hashes, Money,
           transfer(m, n, h), UNCHANGED holds
    PROVE  Booked
<1>0. free_msat(m) = balance[m] - Reserved(holds, m) /\ free_msat(m) \in Int /\ Amt(h) \in Nat
  BY AccountView, ReservedMoves, LspConstants DEF Money
<1>1. CASE Credited(n, h) \/ free_msat(m) < Amt(h)
  BY <1>1 DEF transfer, Booked
<1>2. CASE ~(Credited(n, h) \/ free_msat(m) < Amt(h))
  <2>1. Amt(h) <= balance[m] - Reserved(holds, m)
    BY <1>0, <1>2
  <2>2. PaidFrom(m, n, h)
    BY <1>2, <2>1 DEF transfer, PaidFrom
  <2> QED
    BY <2>2 DEF Booked
<1> QED
  BY <1>1, <1>2

\* hold_kind makes a hold of what is free.
LEMMA HoldBooked ==
    ASSUME NEW n \in Nodes, NEW id \in HoldIds, id \notin Moves \X Nat, NEW a \in Nat, NEW base \in Nat,
           NEW kind \in {"send", "withdraw", "conversion"}, Money,
           CanHold(n, id, a), hold_kind(n, id, a, base, kind), UNCHANGED <<balance, entries>>
    PROVE  Booked
<1> DEFINE x == [id |-> id, node |-> n, amt |-> a, base |-> base, kind |-> kind]
<1>1. x \in Hold /\ x.id = id /\ x.node = n /\ x.amt = a
  BY DEF Hold
<1>2. free_msat(n) = balance[n] - Reserved(holds, n) /\ free_msat(n) \in Int
  BY AccountView, ReservedMoves DEF Money
<1>3. holds' = holds \cup {x} /\ HoldWith(id) = {} /\ a <= balance[n] - Reserved(holds, n)
  BY <1>2 DEF CanHold, hold_kind
<1> HIDE DEF x
<1>4. HoldMade(x)
  BY <1>1, <1>3 DEF HoldMade
<1> QED
  BY <1>4 DEF Booked

\* Taking a hold takes the one with that id.
LEMMA TakeBooked ==
    ASSUME Money, NEW id, NEW x \in HoldWith(id), NEW a \in 0..x.amt,
           take_hold(id), balance' = [balance EXCEPT ![x.node] = @ - a], UNCHANGED entries
    PROVE  Booked
<1>1. x \in holds /\ HoldWith(id) = {x}
  BY DEF HoldWith, Money
<1>2. HoldEnded(x, a)
  BY <1>1 DEF HoldEnded, take_hold
<1> QED
  BY <1>2 DEF Booked

\* A hold that is given up costs nothing.
LEMMA ReleaseBooked ==
    ASSUME Money, NEW id, take_hold(id), UNCHANGED <<balance, entries>>
    PROVE  Booked
<1>1. CASE HoldWith(id) = {}
  <2>1. holds' = holds
    BY <1>1 DEF take_hold
  <2> QED
    BY <2>1 DEF Booked
<1>2. ASSUME NEW x \in HoldWith(id) PROVE Booked
  <2>1. x.node \in Nodes /\ x.amt \in Nat
    BY DEF HoldWith, Money, Hold
  <2>2. balance \in [Nodes -> Int]
    BY DEF Money
  <2>3. balance' = [balance EXCEPT ![x.node] = @ - 0]
    BY <2>1, <2>2
  <2>4. 0 \in 0..x.amt
    BY <2>1
  <2> QED
    BY <2>3, <2>4, TakeBooked
<1> QED
  BY <1>1, <1>2

\* settle_hold debits no more than was held.
LEMMA SettleBooked ==
    ASSUME Money, NEW id, NEW spent \in Nat, settle_hold(id, spent), UNCHANGED entries
    PROVE  Booked
<1>1. CASE HoldWith(id) = {} /\ UNCHANGED <<balance, holds>>
  BY <1>1 DEF Booked
<1>2. ASSUME NEW x \in HoldWith(id), take_hold(id), add_balance(x.node, -Min({spent, x.amt}))
      PROVE  Booked
  <2> DEFINE a == Min({spent, x.amt})
  <2>1. x.node \in Nodes /\ x.amt \in Nat /\ balance \in [Nodes -> Int]
    BY DEF HoldWith, Money, Hold
  <2>2. a \in 0..x.amt
    BY <2>1, MinOfTwo
  <2> HIDE DEF a
  <2>3. balance' = [balance EXCEPT ![x.node] = @ + (-a)]
    BY <1>2 DEF add_balance, a
  <2>4. balance' = [balance EXCEPT ![x.node] = @ - a]
    BY <2>1, <2>2, <2>3
  <2> QED
    BY <1>2, <2>2, <2>4, TakeBooked
<1> QED
  BY <1>1, <1>2 DEF settle_hold

\* A withdrawal or a move that went through debits the whole hold.
LEMMA SpentBooked ==
    ASSUME Money, NEW id, NEW x \in HoldWith(id), take_hold(id), add_balance(x.node, -x.amt),
           UNCHANGED entries
    PROVE  Booked
<1>1. x.node \in Nodes /\ x.amt \in Nat /\ balance \in [Nodes -> Int]
  BY DEF HoldWith, Money, Hold
<1>2. balance' = [balance EXCEPT ![x.node] = @ - x.amt]
  BY <1>1 DEF add_balance
<1>3. x.amt \in 0..x.amt
  BY <1>1
<1> QED
  BY <1>2, <1>3, TakeBooked

-----------------------------------------------------------------------------
(* What a step leaves alone                                                *)

\* The node's payments only get more, and how one ended stays.
OutGrows ==
    /\ out' \in Seq(Outgoing) /\ Len(out') >= Len(out)
    /\ \A i \in 1..Len(out) : /\ out'[i].why = out[i].why /\ out'[i].ref = out[i].ref
                              /\ out[i].st # "flying" => out'[i] = out[i]

\* No hold is given the id of a payment.
LEMMA NoNewMove ==
    ASSUME Booked
    PROVE  \A x \in holds' : x \in holds \/ x.id \notin Moves \X Nat
BY DEF Booked, HoldMade, HoldEnded, PaidInto, PaidFrom

\* What LDK still has to tell stays true.
LEMMA QueueKept ==
    ASSUME IInv, OutGrows, queue' = queue
    PROVE  QueueInv'
<1>1. Len(out) \in Nat /\ Len(out') \in Nat /\ Len(queue) \in Nat
  BY DEF IInv, OtherTypes, OutGrows
<1> QED
  BY <1>1 DEF IInv, QueueInv, OutGrows

\* What the main thread remembers stays true while it does nothing.
LEMMA MainKept ==
    ASSUME IInv, OutGrows, Booked, main' = main
    PROVE  MainInv'
<1>1. Len(out) \in Nat /\ Len(out') \in Nat /\ out \in Seq(Outgoing)
  BY DEF IInv, OtherTypes, OutGrows
<1>2. ASSUME main.pc = "rename"
      PROVE  /\ main.amt \in 1..Len(out') /\ out'[main.amt].why = main.how
             /\ HoldWith(MoveId(main.amt))' = {}
  <2>1. main.amt \in 1..Len(out) /\ out[main.amt].why = main.how /\ HoldWith(MoveId(main.amt)) = {}
        /\ main.how \in Moves
    BY <1>2 DEF IInv, MainInv
  <2>2. MoveId(main.amt)' = MoveId(main.amt) /\ MoveId(main.amt) \in Moves \X Nat
    BY <1>1, <2>1 DEF MoveId, OutGrows
  <2>3. HoldWith(MoveId(main.amt))' = {}
    BY <2>1, <2>2, NoNewMove DEF HoldWith
  <2> QED
    BY <1>1, <2>1, <2>3 DEF OutGrows
<1> QED
  BY <1>1, <1>2 DEF IInv, MainInv, OutGrows

\* What was served stays remembered while time and the nonces stand still.
LEMMA NonceKept ==
    ASSUME IInv, UNCHANGED <<scenario, served, nonces, now>>,
           \/ api' = api \/ api'.pc = "idle"
           \/ api.pc # "idle" /\ api'.pc # "nonce" /\ api'.req = api.req
    PROVE  NonceInv'
BY DEF IInv, NonceInv

\* Payments that do not change only grow.
LEMMA OutSame ==
    ASSUME IInv, out' = out
    PROVE  OutGrows
BY DEF IInv, OtherTypes, OutGrows

\* A payment is sent.
LEMMA SentGrows ==
    ASSUME IInv, NEW why \in Moves \cup {"send", "forward"}, NEW n \in Nodes,
           NEW ref \in Hashes \cup {"none"}, NEW a \in Nat, NEW charge \in Nat,
           Sent(why, n, ref, a, charge)
    PROVE  /\ OutGrows
           /\ Len(out') = Len(out) + 1
           /\ \A i \in 1..Len(out) : out'[i] = out[i]
           /\ out'[Len(out')] = [why |-> why, node |-> n, ref |-> ref, amt |-> a,
                                 charge |-> charge, st |-> "flying", fee |-> 0]
<1> DEFINE x == [why |-> why, node |-> n, ref |-> ref, amt |-> a,
                 charge |-> charge, st |-> "flying", fee |-> 0]
<1>1. x \in Outgoing
  BY DEF Outgoing
<1>2. out' = Append(out, x) /\ out \in Seq(Outgoing)
  BY DEF Sent, IInv, OtherTypes
<1> HIDE DEF x
<1>3. out' \in Seq(Outgoing) /\ Len(out') = Len(out) + 1 /\ Len(out) \in Nat
      /\ \A i \in 1..Len(out) : out'[i] = out[i]
  BY <1>1, <1>2
<1>4. out'[Len(out')] = x
  BY <1>1, <1>2
<1> QED
  BY <1>3, <1>4 DEF OutGrows, x

\* A step that books money and keeps the rest in order.
LEMMA StepKeeps ==
    ASSUME IInv, MoneyMoves, OutGrows,
           OtherTypes', ApiInv', MainInv', QueueInv', NonceInv'
    PROVE  IInv'
<1>1. Len(out) \in Nat /\ Len(out') \in Nat /\ Len(out') >= Len(out)
  BY DEF IInv, OtherTypes, OutGrows
<1>2. Money' /\ IdsInv'
  BY <1>1, MoneyKept, IdsKept DEF IInv
<1> QED
  BY <1>2 DEF IInv

-----------------------------------------------------------------------------
(* The network and the clock                                               *)

\* A payment arrives: no account moves until its event is handled.
LEMMA PayInStep ==
    ASSUME IInv, NEW h \in Hashes, PayIn(h)
    PROVE  IInv' /\ MoneyMoves
<1>1. UNCHANGED <<balance, holds, entries, issued, held, revenue, nonces, now, height, crashes,
                  scenario, served, out, onchain, routed, api, main>>
  BY DEF PayIn, ledger, world
<1>2. PICK e \in Events : queue' = Append(queue, e) /\ e.kind \notin {"ok", "failed"}
  <2>1. CASE h \in issued /\ Emit(Event("received", h, 0))
    <3>1. Event("received", h, 0) \in Events /\ Event("received", h, 0).kind = "received"
      BY <2>1, LspConstants DEF IInv, OtherTypes, OfKind, Event, Events
    <3>2. queue' = Append(queue, Event("received", h, 0))
      BY <2>1 DEF Emit
    <3> QED
      BY <2>1, <3>1, <3>2, Zenon
  <2>2. CASE h \in OfKind("held") /\ Emit(Event("claimable", h, 0))
    <3>1. Event("claimable", h, 0) \in Events /\ Event("claimable", h, 0).kind = "claimable"
      BY <2>2 DEF Event, Events
    <3>2. queue' = Append(queue, Event("claimable", h, 0))
      BY <2>2 DEF Emit
    <3> QED
      BY <2>2, <3>1, <3>2, Zenon
  <2> QED
    BY <2>1, <2>2 DEF PayIn
<1>3. inbound' \in [Hashes -> {"none", "locked", "claimed", "refunded"}]
  BY DEF PayIn, IInv, OtherTypes
<1>4. Booked /\ OutGrows
  BY <1>1, OutSame DEF Booked
<1>5. queue \in Seq(Events) /\ queue' \in Seq(Events)
  BY <1>2 DEF IInv, OtherTypes
<1>6. QueueInv'
  BY <1>1, <1>2, <1>5 DEF IInv, QueueInv
<1>7. OtherTypes'
  BY <1>1, <1>3, <1>5 DEF IInv, OtherTypes
<1>8. ApiInv'
  BY <1>1 DEF IInv, ApiInv
<1> QED
  BY <1>1, <1>4, <1>6, <1>7, <1>8, MainKept, NonceKept, StepKeeps DEF MoneyMoves

\* A payment of ours ends, and LDK says how.
LEMMA ResolveOut ==
    ASSUME IInv, NEW i \in 1..Len(out), Resolve(i)
    PROVE  /\ OutGrows /\ Len(out') = Len(out)
           /\ \A j \in 1..Len(out) : j # i => out'[j] = out[j]
           /\ \E e \in Events : /\ queue' = Append(queue, e)
                                /\ e.kind \in {"ok", "failed"} /\ e.ref = i /\ out'[i].st = e.kind
<1>2. PICK ok \in BOOLEAN, fee \in Nat :
         /\ out' = [out EXCEPT ![i].st = IF ok THEN "ok" ELSE "failed", ![i].fee = fee]
         /\ queue' = Append(queue, Event(IF ok THEN "ok" ELSE "failed", i, fee))
  <2> DEFINE Fees(o) == IF o /\ out[i].why = "send" THEN 0..MinFee ELSE {0}
  <2>1. PICK o \in BOOLEAN : \E f \in Fees(o) :
           /\ out' = [out EXCEPT ![i].st = IF o THEN "ok" ELSE "failed", ![i].fee = f]
           /\ Emit(Event(IF o THEN "ok" ELSE "failed", i, f))
    BY Zenon DEF Resolve
  <2>2. Fees(o) \subseteq Nat
    BY LspConstants
  <2> QED
    BY <2>1, <2>2, Zenon DEF Emit
<1> DEFINE k == IF ok THEN "ok" ELSE "failed"
           e == Event(k, i, fee)
<1>3. out \in Seq(Outgoing) /\ Len(out) \in Nat /\ i \in Nat /\ queue \in Seq(Events)
      /\ out[i] \in Outgoing /\ k \in {"ok", "failed"}
  BY DEF IInv, OtherTypes
<1>4. e \in Events /\ e.kind = k /\ e.ref = i
  BY <1>3 DEF Event, Events
<1> HIDE DEF k, e
<1>5. out' = [out EXCEPT ![i] = [@ EXCEPT !.st = k, !.fee = fee]] /\ queue' = Append(queue, e)
  BY <1>2, <1>3 DEF k, e
<1>6. [out[i] EXCEPT !.st = k, !.fee = fee] \in Outgoing
  BY <1>2, <1>3 DEF Outgoing
<1>7. /\ out' \in Seq(Outgoing) /\ Len(out') = Len(out)
      /\ \A j \in 1..Len(out) : out'[j] = IF j = i THEN [out[i] EXCEPT !.st = k, !.fee = fee] ELSE out[j]
  BY <1>3, <1>5, <1>6
<1>8. out'[i].st = k /\ out'[i].why = out[i].why /\ out'[i].ref = out[i].ref
  BY <1>3, <1>7 DEF Outgoing
<1>9. OutGrows
  BY <1>3, <1>7, <1>8 DEF OutGrows, Resolve
<1> QED
  BY <1>3, <1>4, <1>5, <1>7, <1>8, <1>9

\* A payment of ours ends: its event names how.
LEMMA ResolveStep ==
    ASSUME IInv, NEW i \in 1..Len(out), Resolve(i)
    PROVE  IInv' /\ MoneyMoves
<1>1. UNCHANGED <<balance, holds, entries, issued, held, revenue, nonces, now, height, crashes,
                  scenario, served, inbound, onchain, routed, api, main>>
  BY DEF Resolve, ledger, world
<1>2. OutGrows /\ Len(out') = Len(out)
  BY ResolveOut
<1>3. PICK e \in Events : queue' = Append(queue, e) /\ e.ref = i /\ out'[i].st = e.kind
  BY ResolveOut
<1>4. queue \in Seq(Events) /\ Len(out) \in Nat
  BY DEF IInv, OtherTypes
<1>5. queue' \in Seq(Events)
  BY <1>3, <1>4
<1>6. QueueInv'
  <2>1. /\ Len(queue') = Len(queue) + 1 /\ queue'[Len(queue')] = e
        /\ \A j \in 1..Len(queue) : queue'[j] = queue[j]
    BY <1>3, <1>4
  <2>2. ASSUME NEW j \in 1..Len(queue), queue[j].kind \in {"ok", "failed"}
        PROVE  queue[j].ref \in 1..Len(out') /\ out'[queue[j].ref].st = queue[j].kind
    <3> DEFINE r == queue[j].ref
    <3>1. r \in 1..Len(out) /\ out[r].st = queue[j].kind
      BY <2>2 DEF IInv, QueueInv
    <3>2. out'[r] = out[r]
      BY <1>2, <2>2, <3>1 DEF OutGrows
    <3> QED
      BY <1>2, <3>1, <3>2
  <2> QED
    BY <1>2, <1>3, <1>4, <2>1, <2>2 DEF QueueInv
<1>7. OtherTypes'
  BY <1>1, <1>2, <1>5 DEF IInv, OtherTypes, OutGrows
<1>8. ApiInv' /\ Booked
  BY <1>1 DEF IInv, ApiInv, Booked
<1> QED
  BY <1>1, <1>2, <1>6, <1>7, <1>8, MainKept, NonceKept, StepKeeps DEF MoneyMoves

\* A payment is routed through the LSP.
LEMMA ForwardedStep ==
    ASSUME IInv, Forwarded
    PROVE  IInv' /\ MoneyMoves
<1>1. UNCHANGED <<balance, holds, entries, issued, held, revenue, nonces, now, height, crashes,
                  scenario, served, inbound, out, onchain, api, main>>
  BY DEF Forwarded, ledger, world
<1> DEFINE e == Event("forwarded", routed', MinFee)
<1>2. routed' \in Nat /\ queue' = Append(queue, e) /\ queue \in Seq(Events)
  BY DEF Forwarded, Emit, IInv, OtherTypes
<1>3. e \in Events /\ e.kind = "forwarded"
  BY <1>2, LspConstants DEF Event, Events
<1> HIDE DEF e
<1>4. queue' \in Seq(Events)
  BY <1>2, <1>3
<1>5. Booked /\ OutGrows
  BY <1>1, OutSame DEF Booked
<1>6. QueueInv'
  BY <1>1, <1>2, <1>3 DEF IInv, QueueInv
<1>7. OtherTypes'
  BY <1>1, <1>2, <1>4 DEF IInv, OtherTypes
<1>8. ApiInv'
  BY <1>1 DEF IInv, ApiInv
<1> QED
  BY <1>1, <1>5, <1>6, <1>7, <1>8, MainKept, NonceKept, StepKeeps DEF MoneyMoves

\* A block, and what it times out.
LEMMA BlockStep ==
    ASSUME IInv, Block
    PROVE  IInv' /\ MoneyMoves
<1>1. UNCHANGED <<balance, holds, entries, issued, held, revenue, nonces, now, crashes,
                  scenario, served, out, onchain, routed, queue, api, main>>
  BY DEF Block, ledger
<1>2. height' \in Nat
  BY DEF Block, IInv, OtherTypes
<1>3. inbound' \in [Hashes -> {"none", "locked", "claimed", "refunded"}]
  BY DEF Block, IInv, OtherTypes
<1>4. Booked /\ OutGrows
  BY <1>1, OutSame DEF Booked
<1>5. OtherTypes'
  BY <1>1, <1>2, <1>3 DEF IInv, OtherTypes
<1>6. ApiInv'
  BY <1>1 DEF IInv, ApiInv
<1> QED
  BY <1>1, <1>4, <1>5, <1>6, MainKept, NonceKept, QueueKept, StepKeeps DEF MoneyMoves

\* Time passes: a nonce whose request is still good stays.
LEMMA SecondStep ==
    ASSUME IInv, Second
    PROVE  IInv' /\ MoneyMoves
<1>1. UNCHANGED <<balance, holds, entries, issued, held, revenue, nonces, height, crashes,
                  scenario, served, inbound, out, onchain, routed, queue, api, main>>
      /\ now' = now + 1
  BY DEF Second, ledger, ldk
<1>2. Booked /\ OutGrows
  BY <1>1, OutSame DEF Booked
<1>3. OtherTypes'
  BY <1>1 DEF IInv, OtherTypes
<1>4. ApiInv'
  BY <1>1 DEF IInv, ApiInv
<1>5. NonceInv'
  <2>1. now \in Nat /\ \A r \in scenario.requests : r.exp \in Nat
    BY LspConstants DEF IInv, OtherTypes, Requests
  <2> QED
    BY <1>1, <2>1, SMTT(30) DEF IInv, NonceInv
<1> QED
  BY <1>1, <1>2, <1>3, <1>4, <1>5, MainKept, QueueKept, StepKeeps DEF MoneyMoves

\* The threads start over with nothing at hand.
LEMMA IdleThreads ==
    /\ IdleApi.pc = "idle" /\ IdleApi.req \in Requests
    /\ IdleApi \in [pc : {"idle", "nonce", "pay", "withdraw", "settle", "unpaid"}, req : Requests]
    /\ IdleMain.pc = "idle" /\ ~IdleMain.ev
    /\ AckMain.pc = "ack" /\ AckMain.ev
<1>1. (CHOOSE r \in Requests : TRUE) \in Requests
  BY LspConstants
<1> QED
  BY <1>1 DEF IdleApi, IdleMain, AckMain, Main

\* The process stops: the ledger and LDK keep what they had.
LEMMA CrashStep ==
    ASSUME IInv, Crash
    PROVE  IInv' /\ MoneyMoves
<1>1. UNCHANGED <<balance, holds, entries, issued, held, revenue, nonces, now, height,
                  scenario, served, inbound, out, onchain, routed, queue>>
      /\ api' = IdleApi /\ main' = IdleMain
  BY DEF Crash, ledger, ldk
<1>2. crashes' \in 0..MaxCrashes
  BY LspConstants DEF Crash, IInv, OtherTypes
<1>3. Booked /\ OutGrows
  BY <1>1, OutSame DEF Booked
<1>4. OtherTypes'
  BY <1>1, <1>2, IdleThreads DEF IInv, OtherTypes
<1>5. ApiInv' /\ MainInv' /\ api'.pc = "idle"
  BY <1>1, IdleThreads DEF ApiInv, MainInv
<1> QED
  BY <1>1, <1>3, <1>4, <1>5, NonceKept, QueueKept, StepKeeps DEF MoneyMoves

-----------------------------------------------------------------------------
(* The account API                                                         *)

\* An id of a send or a withdrawal is none of a move.
LEMMA RequestIds ==
    ASSUME NEW r \in Requests
    PROVE  /\ WithdrawId(r) \in HoldIds /\ WithdrawId(r) \notin Moves \X Nat
           /\ \A h \in Hashes : SendId(h) \in HoldIds /\ SendId(h) \notin Moves \X Nat
<1>1. WithdrawId(r) \in HoldIds
  BY DEF HoldIds
<1>2. WithdrawId(r) \notin Moves \X Nat
  BY DEF WithdrawId, Moves
<1>3. \A h \in Hashes : SendId(h) \in HoldIds /\ SendId(h) \notin Moves \X Nat
  BY DEF HoldIds, SendId, Moves
<1> QED
  BY <1>1, <1>2, <1>3

\* A request comes in: one that is good has not been served twice.
LEMMA HandleStep ==
    ASSUME IInv, NEW r \in scenario.requests, handle(r)
    PROVE  IInv' /\ MoneyMoves
<1>1. UNCHANGED <<balance, holds, entries, issued, held, revenue, nonces, now, height, crashes,
                  scenario, served, inbound, out, onchain, routed, queue, main>>
      /\ verify(r) /\ api' = [pc |-> "nonce", req |-> r]
  BY DEF handle, ledger, world, ldk, At
<1>2. r \in Requests /\ r.exp \in Nat /\ now \in Nat
  BY LspConstants DEF IInv, OtherTypes, Requests
<1>3. Booked /\ OutGrows
  BY <1>1, OutSame DEF Booked
<1>4. NonceInv'
  <2>1. served[r] # 2
    BY <1>1, <1>2 DEF IInv, NonceInv, verify
  <2> QED
    BY <1>1, <2>1 DEF IInv, NonceInv
<1>5. OtherTypes' /\ ApiInv'
  BY <1>1, <1>2 DEF IInv, OtherTypes, ApiInv
<1> QED
  BY <1>1, <1>3, <1>4, <1>5, MainKept, QueueKept, StepKeeps DEF MoneyMoves

\* What a request that is let through does.
Effect(r) ==
    /\ Booked
    /\ issued' \subseteq OfKind("invoice") \cup OfKind("fee") \cup OfKind("offer")
    /\ held' \in [OfKind("held") -> [st : HeldStates, fid : Nat]]
    /\ \/ api' = IdleApi
       \/ api' = [pc |-> "pay", req |-> r] /\ r.op = "pay"
       \/ api' = [pc |-> "withdraw", req |-> r] /\ r.op = "withdraw"

Request(r) ==
    invoice(r) \/ fee_invoice(r) \/ offer(r) \/ channel_invoice(r) \/ pay(r) \/ withdraw(r)

\* Each kind of request has an effect of that form.
LEMMA RequestEffect ==
    ASSUME IInv, NEW r \in scenario.requests, Request(r)
    PROVE  Effect(r)
<1>2. scenario \in Scenarios /\ r \in Requests /\ r.node \in Nodes /\ r.amt \in Nat /\ r.exp \in Nat
      /\ now \in Nat
  BY LspConstants DEF IInv, OtherTypes, Requests
<1>3. Money
  BY DEF IInv
<1>4. issued \subseteq OfKind("invoice") \cup OfKind("fee") \cup OfKind("offer")
      /\ held \in [OfKind("held") -> [st : HeldStates, fid : Nat]]
  BY DEF IInv, OtherTypes
<1>5. ASSUME invoice(r) PROVE Effect(r)
  BY <1>2, <1>4, <1>5, LspConstants DEF invoice, Booked, Effect
<1>6. ASSUME fee_invoice(r) PROVE Effect(r)
  BY <1>2, <1>4, <1>6, LspConstants DEF fee_invoice, Booked, Effect
<1>7. ASSUME offer(r) PROVE Effect(r)
  BY <1>2, <1>4, <1>7, LspConstants DEF offer, Booked, Effect
<1>8. ASSUME channel_invoice(r) PROVE Effect(r)
  <2>1. r.hash \in OfKind("held")
    BY <1>2, <1>8, LspConstants DEF channel_invoice
  <2>2. held' \in [OfKind("held") -> [st : HeldStates, fid : Nat]]
    BY <1>4, <1>8, <2>1 DEF channel_invoice, held_insert, HeldStates
  <2> QED
    BY <1>4, <1>8, <2>2 DEF channel_invoice, Booked, Effect
<1>9. ASSUME pay(r) PROVE Effect(r)
  <2> DEFINE h == r.hash
             reserve == Amt(h) + fee_cap_msat(Amt(h))
  <2>1. h \in Hashes /\ r.op = "pay" /\ UNCHANGED <<issued, held>> /\ Amt(h) \in Nat
    BY <1>2, <1>9, LspConstants DEF pay, OfKind
  <2>2. CASE /\ h \in issued \cap OfKind("invoice")
             /\ IF Owner(h) = r.node THEN UNCHANGED <<balance, entries>>
                                     ELSE transfer(r.node, Owner(h), h)
             /\ api' = IdleApi /\ UNCHANGED holds
    <3>1. Owner(h) \in Nodes
      BY <2>2, LspConstants DEF OfKind
    <3>2. Booked
      BY <1>2, <1>3, <2>1, <2>2, <3>1, TransferBooked DEF Booked
    <3> QED
      BY <1>4, <2>1, <2>2, <3>2 DEF Effect
  <2>3. CASE /\ IF CanHold(r.node, SendId(h), reserve)
                THEN hold_kind(r.node, SendId(h), reserve, Amt(h), "send") /\ At("pay", r)
                ELSE api' = IdleApi /\ UNCHANGED holds
             /\ UNCHANGED <<balance, entries>>
    <3>1. reserve \in Nat
      BY <2>1, LspConstants DEF fee_cap_msat
    <3>2. SendId(h) \in HoldIds /\ SendId(h) \notin Moves \X Nat
      BY <1>2, <2>1, RequestIds
    <3> HIDE DEF reserve
    <3>3. CASE CanHold(r.node, SendId(h), reserve)
      <4>1. Booked
        BY <1>2, <1>3, <2>1, <2>3, <3>1, <3>2, <3>3, HoldBooked
      <4> QED
        BY <1>4, <2>1, <2>3, <3>3, <4>1 DEF At, Effect
    <3>4. CASE ~CanHold(r.node, SendId(h), reserve)
      BY <1>4, <2>1, <2>3, <3>4 DEF Booked, Effect
    <3> QED
      BY <3>3, <3>4
  <2> QED
    BY <1>9, <2>2, <2>3 DEF pay
<1>10. ASSUME withdraw(r) PROVE Effect(r)
  <2>1. WithdrawId(r) \in HoldIds /\ WithdrawId(r) \notin Moves \X Nat
    BY <1>2, RequestIds
  <2>2. CASE withdrawal(r.amt).ok /\ CanHold(r.node, WithdrawId(r), r.amt)
    <3>1. Booked
      BY <1>2, <1>3, <1>10, <2>1, <2>2, HoldBooked DEF withdraw
    <3> QED
      BY <1>4, <1>10, <2>2, <3>1 DEF withdraw, At, Effect
  <2>3. CASE ~(withdrawal(r.amt).ok /\ CanHold(r.node, WithdrawId(r), r.amt))
    BY <1>4, <1>10, <2>3 DEF withdraw, Booked, Effect
  <2> QED
    BY <2>2, <2>3
<1> QED
  BY <1>5, <1>6, <1>7, <1>8, <1>9, <1>10 DEF Request

\* A nonce is pruned only when its request has expired.
LEMMA NoncePruned ==
    ASSUME IInv, NEW r \in scenario.requests, use_nonce(r)
    PROVE  /\ nonces' \subseteq Requests /\ r \in nonces'
           /\ \A q \in scenario.requests : q \in nonces => q \in nonces' \/ q.exp < now
<1>1. now \in Nat /\ \A q \in scenario.requests : q \in Requests /\ q.exp \in Nat
  BY LspConstants DEF IInv, OtherTypes, Requests
<1> QED
  BY <1>1 DEF IInv, OtherTypes, use_nonce, Unexpired

\* The nonce of a request is looked up, and the request refused or served.
LEMMA ServeStep ==
    ASSUME IInv, serve
    PROVE  IInv' /\ MoneyMoves
<1>0. PICK r : r = api.req
  OBVIOUS
<1>1. UNCHANGED <<now, height, crashes, scenario, inbound, out, onchain, routed, queue, main>>
      /\ use_nonce(r) /\ api.pc = "nonce"
  BY <1>0 DEF serve, world, ldk
<1>2. r \in scenario.requests /\ served[r] # 2 /\ r \in Requests /\ r.exp \in Nat /\ now \in Nat
  BY <1>0, <1>1, LspConstants DEF IInv, NonceInv, OtherTypes, Requests
<1>3. OutGrows
  BY <1>1, OutSame
<1>4. CASE /\ api' = IdleApi
           /\ UNCHANGED <<balance, holds, entries, issued, held, revenue, served>>
  <2>1. Booked
    BY <1>4 DEF Booked
  <2>2. NonceInv'
    BY <1>1, <1>2, <1>4, NoncePruned, IdleThreads DEF IInv, NonceInv
  <2>3. OtherTypes' /\ ApiInv'
    BY <1>1, <1>2, <1>4, NoncePruned, IdleThreads DEF IInv, OtherTypes, ApiInv
  <2> QED
    BY <1>1, <1>3, <2>1, <2>2, <2>3, MainKept, QueueKept, StepKeeps DEF MoneyMoves
<1>5. CASE r \notin Unexpired /\ served' = [served EXCEPT ![r] = @ + 1] /\ Request(r)
  <2>1. Effect(r)
    BY <1>2, <1>5, RequestEffect
  <2>2. api' \in [pc : {"idle", "nonce", "pay", "withdraw", "settle", "unpaid"}, req : Requests]
        /\ ApiInv' /\ api'.pc # "nonce" /\ (api'.pc = "idle" \/ api'.req = r)
    BY <1>2, <2>1, IdleThreads DEF Effect, ApiInv
  <2>3. served \in [scenario.requests -> Nat] /\ served[r] \in {0, 1}
    BY <1>2 DEF IInv, OtherTypes, NonceInv
  <2>4. served' \in [scenario'.requests -> Nat]
    BY <1>1, <1>2, <1>5, <2>3
  <2>5. served[r] = 1 => r.exp < now
    BY <1>2, <1>5 DEF IInv, NonceInv, Unexpired
  <2>6. ASSUME NEW q \in scenario.requests
        PROVE  /\ served'[q] \in {0, 1, 2}
               /\ served'[q] # 0 => q \in nonces' \/ q.exp < now
               /\ served'[q] = 2 => q.exp < now
    <3>1. CASE q = r
      BY <1>1, <1>2, <1>5, <2>3, <2>5, <3>1, NoncePruned
    <3>2. CASE q # r
      BY <1>1, <1>2, <1>5, <2>3, <3>2, NoncePruned DEF IInv, NonceInv
    <3> QED
      BY <3>1, <3>2
  <2>7. NonceInv'
    BY <1>1, <1>2, <2>2, <2>6 DEF NonceInv
  <2>8. OtherTypes'
    BY <1>1, <1>2, <2>1, <2>2, <2>4, NoncePruned DEF IInv, OtherTypes, Effect
  <2> QED
    BY <1>1, <1>3, <2>1, <2>2, <2>7, <2>8, MainKept, QueueKept, StepKeeps DEF MoneyMoves, Effect
<1> QED
  BY <1>0, <1>4, <1>5 DEF serve, Request

\* The node is asked to pay.
LEMMA SendBolt11Step ==
    ASSUME IInv, send_bolt11
    PROVE  IInv' /\ MoneyMoves
<1> DEFINE r == api.req
<1>1. UNCHANGED <<balance, holds, entries, issued, held, revenue, nonces, now, height, crashes,
                  scenario, served, inbound, onchain, routed, queue, main>> /\ api.pc = "pay"
  BY DEF send_bolt11, ledger, world
<1>2. r \in Requests /\ r.op = "pay" /\ r.node \in Nodes /\ r.hash \in Hashes /\ Amt(r.hash) \in Nat
  BY <1>1, LspConstants DEF IInv, OtherTypes, ApiInv, OfKind
<1>3. OutGrows /\ api' \in {IdleApi, [pc |-> "unpaid", req |-> r]}
  <2>1. CASE Sent("send", r.node, r.hash, Amt(r.hash), Amt(r.hash)) /\ api' = IdleApi
    BY <1>2, <2>1, SentGrows
  <2>2. CASE At("unpaid", r) /\ UNCHANGED out
    BY <2>2, OutSame DEF At
  <2> QED
    BY <2>1, <2>2 DEF send_bolt11
<1>4. api' \in [pc : {"idle", "nonce", "pay", "withdraw", "settle", "unpaid"}, req : Requests]
      /\ ApiInv' /\ (api'.pc = "idle" \/ (api'.pc # "nonce" /\ api'.req = api.req))
  <2>1. CASE api' = IdleApi
    BY <2>1, IdleThreads DEF ApiInv
  <2>2. CASE api' = [pc |-> "unpaid", req |-> r]
    BY <1>2, <2>2 DEF ApiInv
  <2> QED
    BY <1>3, <2>1, <2>2
<1>5. OtherTypes'
  BY <1>1, <1>3, <1>4 DEF IInv, OtherTypes, OutGrows
<1>6. Booked
  BY <1>1 DEF Booked
<1> QED
  BY <1>1, <1>3, <1>4, <1>5, <1>6, MainKept, NonceKept, QueueKept, StepKeeps DEF MoneyMoves

\* The wallet is asked to send coins.
LEMMA SendOnchainStep ==
    ASSUME IInv, send_onchain
    PROVE  IInv' /\ MoneyMoves
<1>1. UNCHANGED <<balance, holds, entries, issued, held, revenue, nonces, now, height, crashes,
                  scenario, served, inbound, out, routed, queue, main>> /\ api.pc = "withdraw"
  BY DEF send_onchain, ledger, world
<1>2. Coins(api.req) \in [node : Nodes, amt : Nat, req : Requests, nth : Nat]
  <2>1. api.req \in scenario.requests /\ api.req \in Requests
    BY <1>1 DEF IInv, OtherTypes, NonceInv
  <2>2. served[api.req] \in Nat /\ api.req.node \in Nodes /\ api.req.amt \in Nat
    BY <2>1, LspConstants DEF IInv, OtherTypes
  <2> QED
    BY <2>1, <2>2 DEF Coins
<1>3. api.req \in Requests /\ onchain \subseteq [node : Nodes, amt : Nat, req : Requests, nth : Nat]
  BY DEF IInv, OtherTypes
<1>4. onchain' \subseteq [node : Nodes, amt : Nat, req : Requests, nth : Nat]
      /\ api' \in {[pc |-> "settle", req |-> api.req], [pc |-> "unpaid", req |-> api.req]}
  BY <1>2, <1>3 DEF send_onchain, At
<1>5. api' \in [pc : {"idle", "nonce", "pay", "withdraw", "settle", "unpaid"}, req : Requests]
      /\ ApiInv' /\ api'.pc # "nonce" /\ api'.req = api.req
  BY <1>3, <1>4 DEF ApiInv
<1>6. OtherTypes'
  BY <1>1, <1>4, <1>5 DEF IInv, OtherTypes
<1>7. Booked /\ OutGrows
  BY <1>1, OutSame DEF Booked
<1> QED
  BY <1>1, <1>5, <1>6, <1>7, MainKept, NonceKept, QueueKept, StepKeeps DEF MoneyMoves

\* The request ends: its hold is spent or given back.
LEMMA ApiSettleStep ==
    ASSUME IInv, ApiSettle
    PROVE  IInv' /\ MoneyMoves
<1>1. UNCHANGED <<entries, issued, held, nonces, now, height, crashes,
                  scenario, served, inbound, out, onchain, routed, queue, main>> /\ api' = IdleApi
  BY DEF ApiSettle, ldk, world
<1>2. Booked
  <2>1. CASE settle_withdrawal(WithdrawId(api.req), withdrawal(api.req.amt).fee)
    <3>1. PICK x \in HoldWith(WithdrawId(api.req)) :
             take_hold(WithdrawId(api.req)) /\ add_balance(x.node, -x.amt)
      BY <2>1 DEF settle_withdrawal
    <3> QED
      BY <1>1, <3>1, SpentBooked DEF IInv
  <2>2. CASE settle_hold(IF api.req.op = "pay" THEN SendId(api.req.hash) ELSE WithdrawId(api.req), 0)
    BY <1>1, <2>2, SettleBooked DEF IInv
  <2> QED
    BY <2>1, <2>2 DEF ApiSettle
<1>3. OtherTypes' /\ ApiInv' /\ api'.pc = "idle"
  BY <1>1, IdleThreads DEF IInv, OtherTypes, ApiInv
<1> QED
  BY <1>1, <1>2, <1>3, OutSame, MainKept, NonceKept, QueueKept, StepKeeps DEF MoneyMoves

-----------------------------------------------------------------------------
(* The main thread: events                                                 *)

\* A handler that leaves the API, the clock and the node's payments alone.
LEMMA MainStepKeeps ==
    ASSUME IInv, MoneyMoves,
           UNCHANGED <<issued, nonces, now, height, crashes, scenario, served, out, onchain,
                       routed, queue, api>>,
           held' \in [OfKind("held") -> [st : HeldStates, fid : Nat]],
           inbound' \in [Hashes -> {"none", "locked", "claimed", "refunded"}],
           main'.pc \in {"idle", "ack", "skim", "deliver", "forward", "claimed", "credited", "settled",
                         "read", "hold", "send", "rename"},
           MainInv'
    PROVE  IInv'
<1>1. OtherTypes' /\ ApiInv'
  BY DEF IInv, OtherTypes, ApiInv
<1> QED
  BY <1>1, OutSame, NonceKept, QueueKept, StepKeeps

\* Moving a held payment on keeps its table in order.
LEMMA HeldTyped ==
    ASSUME IInv, NEW h \in OfKind("held"), NEW st \in HeldStates, NEW fid \in Nat,
           held_update(h, st, fid)
    PROVE  held' \in [OfKind("held") -> [st : HeldStates, fid : Nat]]
BY DEF IInv, OtherTypes, held_update

\* Claiming or failing a payment in keeps its state one of the four.
LEMMA InboundTyped ==
    ASSUME IInv, NEW h \in Hashes, claim_for_hash(h) \/ fail_for_hash(h)
    PROVE  inbound' \in [Hashes -> {"none", "locked", "claimed", "refunded"}]
BY DEF IInv, OtherTypes, claim_for_hash, fail_for_hash

\* The states of a held payment are text, and its hash is one of the instance.
LEMMA HeldHashes ==
    /\ OfKind("held") \subseteq Hashes
    /\ \A h \in OfKind("held") : Owner(h) \in Nodes /\ Amt(h) \in Nat
BY LspConstants DEF OfKind

\* A payment received is credited once, or is revenue.
LEMMA OnPaymentReceivedBooked ==
    ASSUME IInv, NEW h \in Hashes, on_payment_received(h)
    PROVE  Booked
<1>1. UNCHANGED holds
  BY DEF on_payment_received
<1>2. CASE h \in OfKind("fee") /\ UNCHANGED <<balance, entries>>
  BY <1>1, <1>2 DEF Booked
<1>3. CASE (h \in OfKind("invoice") \/ h \in OfKind("offer")) /\ credit(Owner(h), h)
  <2>1. Owner(h) \in Nodes
    BY <1>3, LspConstants DEF OfKind
  <2> QED
    BY <1>1, <1>3, <2>1, CreditBooked
<1> QED
  BY <1>2, <1>3 DEF on_payment_received, on_offer_payment_received

\* A move that ended spends its hold or gives it back.
LEMMA OnDeliveryResultBooked ==
    ASSUME IInv, NEW i, NEW ok, on_delivery_result(i, ok)
    PROVE  Booked
<1> DEFINE id == MoveId(i)
           fee == IF out[i].why = "deliver" THEN 0
                  ELSE conversion_fee_msat((CHOOSE x \in HoldWith(MoveId(i)) : TRUE).amt)
<1>1. UNCHANGED entries /\ Money
  BY DEF on_delivery_result, IInv
<1>2. CASE UNCHANGED <<balance, holds>>
  BY <1>1, <1>2 DEF Booked
<1>3. CASE finish_conversion(id, fee)
  <2>1. PICK x \in HoldWith(id) : take_hold(id) /\ add_balance(x.node, -x.amt)
    BY <1>3 DEF finish_conversion
  <2> QED
    BY <1>1, <2>1, SpentBooked
<1>4. CASE abandon_conversion(id)
  BY <1>1, <1>4, ReleaseBooked DEF abandon_conversion
<1> QED
  BY <1>2, <1>3, <1>4 DEF on_delivery_result

\* A send that ended debits what left and gives the rest back.
LEMMA OnPaymentResolvedBooked ==
    ASSUME IInv, NEW i, NEW ok, NEW fee \in Nat, on_payment_resolved(i, ok, fee)
    PROVE  Booked
<1> DEFINE id == SendId(out[i].ref)
<1>1. UNCHANGED entries /\ Money
  BY DEF on_payment_resolved, IInv
<1>2. CASE UNCHANGED <<balance, holds>>
  BY <1>1, <1>2 DEF Booked
<1>3. CASE settle_send(id, fee)
  <2>1. PICK x \in HoldWith(id) : settle_hold(id, x.base + fee)
    BY <1>3 DEF settle_send
  <2>2. x.base \in Nat
    BY <1>1, <2>1 DEF HoldWith, Money, Hold
  <2>3. x.base + fee \in Nat
    BY <2>2
  <2> QED
    BY <1>1, <2>1, <2>3, SettleBooked
<1>4. CASE settle_hold(id, 0)
  BY <1>1, <1>4, SettleBooked
<1> QED
  BY <1>2, <1>3, <1>4 DEF on_payment_resolved

\* The event at hand is about a payment of its kind.
LEMMA HeadOfQueue ==
    ASSUME IInv, queue # <<>>
    PROVE  /\ Head(queue) \in Events /\ 1 \in 1..Len(queue) /\ Head(queue) = queue[1]
           /\ Head(queue).kind = "received" =>
                 Head(queue).ref \in Hashes \ (OfKind("held") \cup OfKind("ext"))
           /\ Head(queue).kind = "claimable" => Head(queue).ref \in OfKind("held")
           /\ Head(queue).kind \in {"ok", "failed"} => Head(queue).fee \in Nat
           /\ Tail(queue) \in Seq(Events)
           /\ Len(Tail(queue)) = Len(queue) - 1
           /\ \A k \in 1..Len(Tail(queue)) : Tail(queue)[k] = queue[k + 1]
<1>1. queue \in Seq(Events) /\ Len(queue) \in Nat /\ Len(queue) > 0
  BY DEF IInv, OtherTypes
<1>2. Head(queue) \in Events /\ Head(queue) = queue[1]
  BY <1>1
<1>3. Tail(queue) \in Seq(Events) /\ Len(Tail(queue)) = Len(queue) - 1
      /\ \A k \in 1..Len(Tail(queue)) : Tail(queue)[k] = queue[k + 1]
  BY <1>1
<1> QED
  BY <1>1, <1>2, <1>3 DEF Events

\* The handler of one event of LDK.
LEMMA AccountEventStep ==
    ASSUME IInv, account_event
    PROVE  IInv' /\ MoneyMoves
<1> DEFINE e == Head(queue)
<1>1. UNCHANGED <<issued, nonces, now, height, crashes, scenario, served, out, onchain,
                  routed, queue, api>> /\ queue # <<>>
  BY DEF account_event, world
<1>2. /\ e.kind = "received" => e.ref \in Hashes
      /\ e.kind = "claimable" => e.ref \in OfKind("held")
      /\ e.kind \in {"ok", "failed"} => e.fee \in Nat
  BY <1>1, HeadOfQueue
<1>3. held \in [OfKind("held") -> [st : HeldStates, fid : Nat]]
      /\ inbound \in [Hashes -> {"none", "locked", "claimed", "refunded"}]
  BY DEF IInv, OtherTypes
<1> HIDE DEF e
<1> DEFINE Effects ==
      /\ Booked
      /\ held' \in [OfKind("held") -> [st : HeldStates, fid : Nat]]
      /\ inbound' \in [Hashes -> {"none", "locked", "claimed", "refunded"}]
      /\ \/ main' = AckMain \/ main'.pc = "skim"
         \/ main'.pc \in {"deliver", "settled"} /\ main'.ref \in OfKind("held")
<1>4. ASSUME e.kind = "received", on_payment_received(e.ref) PROVE Effects
  BY <1>2, <1>3, <1>4, OnPaymentReceivedBooked DEF on_payment_received
<1>5. ASSUME e.kind = "claimable", on_claimable(e.ref) PROVE Effects
  <2>1. Booked /\ UNCHANGED inbound
    BY <1>5 DEF on_claimable, Booked
  <2>2. CASE held[e.ref].st = "open"
    <3>1. held' \in [OfKind("held") -> [st : HeldStates, fid : Nat]]
      BY <1>2, <1>5, <2>2, HeldTyped DEF on_claimable, HeldStates
    <3> QED
      BY <1>2, <1>3, <1>5, <2>1, <2>2, <3>1 DEF on_claimable, Main
  <2>3. CASE held[e.ref].st # "open"
    BY <1>3, <1>5, <2>1, <2>3 DEF on_claimable
  <2> QED
    BY <2>2, <2>3
<1>6. ASSUME PaymentForwarded(e.ref, e.fee) PROVE Effects
  BY <1>3, <1>6 DEF PaymentForwarded, Booked, Main
<1>7. ASSUME NEW ok, on_forward_result(e.ref, ok) PROVE Effects
  <2>1. Booked
    BY <1>7 DEF on_forward_result, Booked
  <2>2. CASE main' = AckMain /\ UNCHANGED <<held, inbound>>
    BY <1>3, <2>1, <2>2
  <2>3. ASSUME NEW h \in held_by_forward(e.ref),
               IF ok THEN claim_for_hash(h) /\ main' = Main("settled", h, e.ref, "none", TRUE)
                          /\ UNCHANGED held
                     ELSE held_update(h, "claimable", 0) /\ main' = AckMain /\ UNCHANGED inbound
        PROVE  Effects
    <3>1. h \in OfKind("held") /\ h \in Hashes
      BY HeldHashes DEF held_by_forward
    <3>2. CASE ok
      BY <1>3, <2>1, <2>3, <3>1, <3>2, InboundTyped DEF Main
    <3>3. CASE ~ok
      <4>1. held' \in [OfKind("held") -> [st : HeldStates, fid : Nat]]
        BY <2>3, <3>1, <3>3, HeldTyped DEF HeldStates
      <4> QED
        BY <1>3, <2>1, <2>3, <3>3, <4>1
    <3> QED
      BY <3>2, <3>3
  <2> QED
    BY <1>7, <2>2, <2>3 DEF on_forward_result
<1>8. ASSUME NEW ok, on_delivery_result(e.ref, ok) PROVE Effects
  BY <1>3, <1>8, OnDeliveryResultBooked DEF on_delivery_result
<1>9. ASSUME NEW ok, e.fee \in Nat, on_payment_resolved(e.ref, ok, e.fee) PROVE Effects
  BY <1>3, <1>9, OnPaymentResolvedBooked DEF on_payment_resolved
<1>10. Effects
  <2> HIDE DEF Effects
  <2> QED
    BY <1>2, <1>4, <1>5, <1>6, <1>7, <1>8, <1>9 DEF account_event, e
<1>11. /\ main'.pc \in {"idle", "ack", "skim", "deliver", "forward", "claimed", "credited", "settled",
                        "read", "hold", "send", "rename"}
       /\ MainInv'
  BY <1>10 DEF MainInv, AckMain, Main
<1> QED
  BY <1>1, <1>10, <1>11, MainStepKeeps DEF MoneyMoves

\* The skimmed part of what was earned is recorded.
LEMMA SkimRecordStep ==
    ASSUME IInv, SkimRecord
    PROVE  IInv' /\ MoneyMoves
<1>1. UNCHANGED <<balance, holds, entries, issued, held, nonces, now, height, crashes, scenario,
                  served, inbound, out, onchain, routed, queue, api>> /\ main' = AckMain
  BY DEF SkimRecord, world, ldk
<1>2. Booked /\ MainInv' /\ main'.pc = "ack"
  BY <1>1, IdleThreads DEF Booked, MainInv
<1>3. held' \in [OfKind("held") -> [st : HeldStates, fid : Nat]]
      /\ inbound' \in [Hashes -> {"none", "locked", "claimed", "refunded"}]
  BY <1>1 DEF IInv, OtherTypes
<1> QED
  BY <1>1, <1>2, <1>3, MainStepKeeps DEF MoneyMoves

\* The event is acknowledged.
LEMMA EventHandledStep ==
    ASSUME IInv, event_handled
    PROVE  IInv' /\ MoneyMoves
<1>1. UNCHANGED <<balance, holds, entries, issued, held, revenue, nonces, now, height, crashes,
                  scenario, served, inbound, out, onchain, routed, api>>
      /\ queue' = Tail(queue) /\ main' = IdleMain
  BY DEF event_handled, ledger, world
<1>2. Booked /\ OutGrows
  BY <1>1, OutSame DEF Booked
<1>3. queue' \in Seq(Events) /\ QueueInv'
  <2>1. CASE queue = <<>>
    BY <1>1, <2>1 DEF IInv, OtherTypes, QueueInv
  <2>2. CASE queue # <<>>
    <3>1. Len(queue) \in Nat
      BY DEF IInv, OtherTypes
    <3> QED
      BY <1>1, <2>2, <3>1, HeadOfQueue DEF IInv, QueueInv
  <2> QED
    BY <2>1, <2>2
<1>4. OtherTypes' /\ ApiInv' /\ MainInv'
  BY <1>1, <1>3, IdleThreads DEF IInv, OtherTypes, ApiInv, MainInv
<1> QED
  BY <1>1, <1>2, <1>3, <1>4, NonceKept, StepKeeps DEF MoneyMoves

-----------------------------------------------------------------------------
(* The main thread: held payments                                          *)

\* What Done leaves of the main thread.
LEMMA DoneIs ==
    ASSUME Done
    PROVE  main' \in {IdleMain, AckMain} /\ main'.pc \in {"idle", "ack"} /\ MainInv'
<1>1. main' \in {IdleMain, AckMain}
  BY DEF Done
<1> QED
  BY <1>1, IdleThreads DEF MainInv

\* A held payment near its deadline is taken or sent back.
LEMMA SettleIntoAccountStep ==
    ASSUME IInv, NEW h \in OfKind("held"), settle_into_account(h)
    PROVE  IInv' /\ MoneyMoves
<1>1. UNCHANGED <<balance, holds, entries, issued, nonces, now, height, crashes, scenario, served,
                  out, onchain, routed, queue, api>>
  BY DEF settle_into_account, world
<1>2. h \in Hashes
  BY HeldHashes
<1>3. held \in [OfKind("held") -> [st : HeldStates, fid : Nat]]
  BY DEF IInv, OtherTypes
<1>4. CASE claim_for_hash(h) /\ Go("claimed", h, 0, "none") /\ UNCHANGED held
  <2>1. inbound' \in [Hashes -> {"none", "locked", "claimed", "refunded"}]
    BY <1>2, <1>4, InboundTyped
  <2>2. MainInv' /\ main'.pc = "claimed"
    BY <1>4 DEF Go, Main, MainInv
  <2> QED
    BY <1>1, <1>3, <1>4, <2>1, <2>2, MainStepKeeps DEF MoneyMoves, Booked
<1>5. CASE fail_for_hash(h) /\ held_update(h, "failed", 0) /\ Done
  <2>1. inbound' \in [Hashes -> {"none", "locked", "claimed", "refunded"}]
    BY <1>2, <1>5, InboundTyped
  <2>2. held' \in [OfKind("held") -> [st : HeldStates, fid : Nat]]
    BY <1>5, HeldTyped DEF HeldStates
  <2> QED
    BY <1>1, <1>5, <2>1, <2>2, DoneIs, MainStepKeeps DEF MoneyMoves, Booked
<1> QED
  BY <1>4, <1>5 DEF settle_into_account

\* A held payment is forwarded to the phone.
LEMMA DeliverStep ==
    ASSUME IInv, NEW h \in OfKind("held"), deliver(h)
    PROVE  IInv' /\ MoneyMoves
<1>1. UNCHANGED <<balance, holds, entries, issued, held, revenue, nonces, now, height, crashes,
                  scenario, served, inbound, onchain, routed, queue, api>>
  BY DEF deliver, ledger, world
<1>2. Booked
  BY <1>1 DEF Booked
<1>3. /\ OutGrows /\ MainInv'
      /\ main'.pc \in {"idle", "ack", "forward"}
  <2>1. CASE Sent("forward", Owner(h), h, Amt(h), 0) /\ Go("forward", h, Len(out'), "none")
    <3>1. OutGrows /\ Len(out') = Len(out) + 1
      BY <2>1, HeldHashes, SentGrows
    <3>2. Len(out') \in 1..Len(out')
      BY <3>1 DEF IInv, OtherTypes
    <3>3. main' = Main("forward", h, Len(out'), "none", main.ev)
      BY <2>1 DEF Go
    <3> QED
      BY <3>1, <3>2, <3>3 DEF Main, MainInv
  <2>2. CASE Done /\ UNCHANGED out
    BY <2>2, DoneIs, OutSame
  <2> QED
    BY <2>1, <2>2 DEF deliver
<1>4. OtherTypes' /\ ApiInv'
  BY <1>1, <1>3 DEF IInv, OtherTypes, ApiInv, OutGrows
<1> QED
  BY <1>1, <1>2, <1>3, <1>4, NonceKept, QueueKept, StepKeeps DEF MoneyMoves

\* The ledger records what the node did with a held payment.
LEMMA HeldRecordStep ==
    ASSUME IInv, HeldRecord
    PROVE  IInv' /\ MoneyMoves
<1> DEFINE h == main.ref
<1>1. UNCHANGED <<holds, issued, revenue, nonces, now, height, crashes, scenario, served,
                  inbound, out, onchain, routed, queue, api>>
  BY DEF HeldRecord, world, ldk
<1>2. held \in [OfKind("held") -> [st : HeldStates, fid : Nat]]
      /\ inbound \in [Hashes -> {"none", "locked", "claimed", "refunded"}]
  BY DEF IInv, OtherTypes
<1>3. main.pc \in {"forward", "claimed", "credited", "settled"} /\ h \in OfKind("held")
  BY DEF HeldRecord, IInv, MainInv
<1>4. h \in Hashes /\ Owner(h) \in Nodes /\ held[h].fid \in Nat
  BY <1>2, <1>3, HeldHashes
<1>5. CASE main.pc = "claimed" /\ credit(Owner(h), h) /\ Go("credited", h, 0, "none") /\ UNCHANGED held
  <2>1. Booked
    BY <1>1, <1>4, <1>5, CreditBooked
  <2>2. MainInv' /\ main'.pc = "credited"
    BY <1>3, <1>5 DEF Go, Main, MainInv
  <2> QED
    BY <1>1, <1>2, <1>5, <2>1, <2>2, MainStepKeeps DEF MoneyMoves
<1>6. ASSUME NEW st \in HeldStates, NEW fid \in Nat,
             held_update(h, st, fid), Done, UNCHANGED <<balance, entries>>
      PROVE  IInv' /\ MoneyMoves
  <2>1. held' \in [OfKind("held") -> [st : HeldStates, fid : Nat]]
    BY <1>3, <1>6, HeldTyped
  <2> QED
    BY <1>1, <1>2, <1>6, <2>1, DoneIs, MainStepKeeps DEF MoneyMoves, Booked
<1>7. main.pc = "forward" => main.amt \in Nat
  BY DEF IInv, MainInv, OtherTypes
<1>8. {"forwarding", "credited", "done"} \subseteq HeldStates
  BY DEF HeldStates
<1> QED
  BY <1>4, <1>5, <1>6, <1>7, <1>8 DEF HeldRecord

-----------------------------------------------------------------------------
(* The main thread: balances                                               *)

\* What an account has free is an amount.
LEMMA FreeNat ==
    ASSUME Money, NEW n \in Nodes
    PROVE  free_msat(n) \in Nat
<1>1. free_msat(n) = balance[n] - Reserved(holds, n) /\ Reserved(holds, n) \in Nat
      /\ balance[n] \in Int /\ Reserved(holds, n) <= balance[n]
  BY AccountView, ReservedMoves DEF Money
<1> QED
  BY <1>1

\* An account with a balance is picked for delivery.
LEMMA DeliverBalancesStep ==
    ASSUME IInv, NEW n \in Nodes, deliver_balances(n)
    PROVE  IInv' /\ MoneyMoves
<1>1. UNCHANGED <<balance, holds, entries, issued, held, revenue, nonces, now, height, crashes,
                  scenario, served, inbound, out, onchain, routed, queue, api>>
      /\ main' = Main("read", n, 0, "deliver", main.ev)
  BY DEF deliver_balances, Go, ledger, world, ldk
<1>2. MainInv' /\ main'.pc = "read"
  BY <1>1 DEF Main, MainInv, Moves
<1>3. held' \in [OfKind("held") -> [st : HeldStates, fid : Nat]]
      /\ inbound' \in [Hashes -> {"none", "locked", "claimed", "refunded"}]
  BY <1>1 DEF IInv, OtherTypes
<1> QED
  BY <1>1, <1>2, <1>3, MainStepKeeps DEF MoneyMoves, Booked

\* An account over the cap is picked for conversion.
LEMMA RunConversionsStep ==
    ASSUME IInv, NEW n \in Nodes, run_conversions(n)
    PROVE  IInv' /\ MoneyMoves
<1>1. UNCHANGED <<balance, holds, entries, issued, held, revenue, nonces, now, height, crashes,
                  scenario, served, inbound, out, onchain, routed, queue, api>>
  BY DEF run_conversions, ledger, world, ldk
<1>2. PICK p \in plan(free_msat(n), AccountMax, n \in conversions) :
         main' = Main("read", n, p.amt, p.how, main.ev)
  BY DEF run_conversions, Go
<1>3. p.amt \in Nat /\ p.how \in Moves
  <2> DEFINE free == free_msat(n)
             moved == free - conversion_fee_msat(free)
  <2>1. free \in Nat
    BY FreeNat DEF IInv
  <2>2. free \div 100 \in Nat /\ MinFee \in Nat
    BY <2>1, LspConstants
  <2>3. conversion_fee_msat(free) \in Nat
    BY <2>2, MaxOfTwo DEF conversion_fee_msat
  <2>4. moved > 0 /\ p \in {[how |-> w, amt |-> moved] : w \in {"conv:pay", "conv:chan"}}
    BY <1>2, <2>1, <2>3 DEF plan
  <2>5. moved \in Nat
    BY <2>1, <2>3, <2>4
  <2> HIDE DEF moved
  <2> QED
    BY <2>4, <2>5 DEF Moves
<1>4. MainInv' /\ main'.pc = "read"
  BY <1>2, <1>3 DEF Main, MainInv
<1>5. held' \in [OfKind("held") -> [st : HeldStates, fid : Nat]]
      /\ inbound' \in [Hashes -> {"none", "locked", "claimed", "refunded"}]
  BY <1>1 DEF IInv, OtherTypes
<1> QED
  BY <1>1, <1>4, <1>5, MainStepKeeps DEF MoneyMoves, Booked

\* The id of a move not yet sent is none of one that was.
LEMMA PendingIds ==
    ASSUME NEW n \in Nodes, NEW how
    PROVE  PendingId(how, n) \in HoldIds /\ PendingId(how, n) \notin Moves \X Nat
BY DEF PendingId, HoldIds, Moves

\* What is free is read, then held.
LEMMA StartConversionStep ==
    ASSUME IInv, start_conversion
    PROVE  IInv' /\ MoneyMoves
<1>1. UNCHANGED <<balance, entries, issued, held, revenue, nonces, now, height, crashes,
                  scenario, served, inbound, out, onchain, routed, queue, api>>
  BY DEF start_conversion, world, ldk
<1>2. held' \in [OfKind("held") -> [st : HeldStates, fid : Nat]]
      /\ inbound' \in [Hashes -> {"none", "locked", "claimed", "refunded"}]
  BY <1>1 DEF IInv, OtherTypes
<1>3. CASE /\ main.pc = "read"
           /\ main' = Main("hold", main.ref, [plan |-> main.amt, free |-> free_msat(main.ref)],
                           main.how, FALSE)
           /\ UNCHANGED holds
  <2>1. main.ref \in Nodes /\ main.how \in Moves /\ main.amt \in Nat
    BY <1>3 DEF IInv, MainInv
  <2>2. free_msat(main.ref) \in Nat
    BY <2>1, FreeNat DEF IInv
  <2>3. MainInv' /\ main'.pc = "hold"
    BY <1>3, <2>1, <2>2 DEF Main, MainInv
  <2> QED
    BY <1>1, <1>2, <1>3, <2>3, MainStepKeeps DEF MoneyMoves, Booked
<1>4. CASE main.pc = "hold"
  <2> DEFINE id == PendingId(main.how, main.ref)
             a == main.amt.free
  <2>1. main.ref \in Nodes /\ main.how \in Moves /\ main.amt.plan \in Nat /\ a \in Nat
    BY <1>4 DEF IInv, MainInv
  <2>2. CASE CanHold(main.ref, id, a)
    <3>1. hold_kind(main.ref, id, a, a, "conversion")
          /\ main' = Main("send", main.ref, main.amt, main.how, main.ev)
      BY <1>4, <2>2 DEF start_conversion, Go
    <3>2. Booked
      BY <1>1, <2>1, <2>2, <3>1, PendingIds, HoldBooked DEF IInv
    <3>3. MainInv' /\ main'.pc = "send"
      BY <2>1, <3>1 DEF Main, MainInv
    <3> QED
      BY <1>1, <1>2, <3>2, <3>3, MainStepKeeps DEF MoneyMoves
  <2>3. CASE ~CanHold(main.ref, id, a)
    <3>1. UNCHANGED holds /\ main' = IdleMain
      BY <1>4, <2>3 DEF start_conversion
    <3>2. MainInv' /\ main'.pc = "idle"
      BY <3>1, IdleThreads DEF MainInv
    <3> QED
      BY <1>1, <1>2, <3>1, <3>2, MainStepKeeps DEF MoneyMoves, Booked
  <2> QED
    BY <2>2, <2>3
<1> QED
  BY <1>3, <1>4 DEF start_conversion

\* The move is sent, with an id no hold has, or given up.
LEMMA MoveSendStep ==
    ASSUME IInv, MoveSend
    PROVE  IInv' /\ MoneyMoves
<1> DEFINE n == main.ref
           a == IF main.how = "deliver" THEN main.amt.free ELSE main.amt.plan
<1>1. UNCHANGED <<balance, entries, issued, held, revenue, nonces, now, height, crashes,
                  scenario, served, inbound, onchain, routed, queue, api>> /\ main.pc = "send"
  BY DEF MoveSend, world
<1>2. n \in Nodes /\ main.how \in Moves /\ a \in Nat /\ main.amt.free \in Nat
  BY <1>1 DEF IInv, MainInv
<1> HIDE DEF a
<1>3. CASE Sent(main.how, n, "none", a, main.amt.free) /\ Go("rename", n, Len(out'), main.how)
           /\ UNCHANGED holds
  <2>1. OutGrows /\ Len(out') = Len(out) + 1 /\ out'[Len(out')].why = main.how
    <3>1. main.how \in Moves \cup {"send", "forward"} /\ "none" \in Hashes \cup {"none"}
      BY <1>2
    <3>2. /\ OutGrows /\ Len(out') = Len(out) + 1
          /\ out'[Len(out')] = [why |-> main.how, node |-> n, ref |-> "none", amt |-> a,
                                charge |-> main.amt.free, st |-> "flying", fee |-> 0]
      BY <1>2, <1>3, <3>1, SentGrows
    <3> QED
      BY <3>2
  <2>2. Len(out) \in Nat /\ Len(out') \in 1..Len(out')
    BY <2>1 DEF IInv, OtherTypes
  <2>3. main' = Main("rename", n, Len(out'), main.how, main.ev)
    BY <1>3 DEF Go
  <2>4. main'.pc = "rename" /\ main'.ref = n /\ main'.amt = Len(out') /\ main'.how = main.how
    BY <2>3 DEF Main
  <2>5. MoveId(main.amt)' = <<main.how, Len(out')>>
    BY <2>1, <2>4 DEF MoveId
  <2>6. HoldWith(MoveId(main.amt))' = {}
    <3>1. ASSUME NEW x \in holds PROVE x.id # <<main.how, Len(out')>>
      <4>1. x.id \in Moves \X Nat => x.id[2] <= Len(out)
        BY DEF IInv, IdsInv
      <4>2. <<main.how, Len(out')>> \in Moves \X Nat /\ <<main.how, Len(out')>>[2] = Len(out')
        BY <1>2, <2>2
      <4>3. ~(Len(out') <= Len(out))
        BY <2>1, <2>2
      <4> QED
        BY <4>1, <4>2, <4>3
    <3> QED
      BY <1>3, <2>5, <3>1 DEF HoldWith
  <2>7. MainInv'
    BY <1>2, <2>1, <2>2, <2>4, <2>6 DEF MainInv
  <2>8. OtherTypes' /\ ApiInv'
    BY <1>1, <2>1, <2>4 DEF IInv, OtherTypes, ApiInv, OutGrows
  <2>9. Booked
    BY <1>1, <1>3 DEF Booked
  <2> QED
    BY <1>1, <2>1, <2>7, <2>8, <2>9, NonceKept, QueueKept, StepKeeps DEF MoneyMoves
<1>4. CASE take_hold(PendingId(main.how, n)) /\ main' = IdleMain /\ UNCHANGED out
  <2>1. Booked
    BY <1>1, <1>4, ReleaseBooked DEF IInv
  <2>2. MainInv' /\ main'.pc = "idle"
    BY <1>4, IdleThreads DEF MainInv
  <2>3. held' \in [OfKind("held") -> [st : HeldStates, fid : Nat]]
        /\ inbound' \in [Hashes -> {"none", "locked", "claimed", "refunded"}]
    BY <1>1 DEF IInv, OtherTypes
  <2> QED
    BY <1>1, <1>4, <2>1, <2>2, <2>3, MainStepKeeps DEF MoneyMoves
<1> QED
  BY <1>3, <1>4 DEF MoveSend, a

\* The hold of the move takes the id of its payment.
LEMMA MoveRenameStep ==
    ASSUME IInv, MoveRename
    PROVE  IInv' /\ MoneyMoves
<1> DEFINE old == PendingId(main.how, main.ref)
           id == MoveId(main.amt)
<1>1. UNCHANGED <<balance, entries, issued, held, revenue, nonces, now, height, crashes,
                  scenario, served, inbound, out, onchain, routed, queue, api>>
      /\ main' = IdleMain /\ main.pc = "rename"
      /\ holds' = {IF x.id = old THEN [x EXCEPT !.id = id] ELSE x : x \in holds}
  BY DEF MoveRename, rename_hold, world, ldk
<1>2. main.ref \in Nodes /\ main.how \in Moves /\ main.amt \in 1..Len(out)
      /\ out[main.amt].why = main.how /\ HoldWith(id) = {}
  BY <1>1 DEF IInv, MainInv
<1>3. id \in Moves \X (1..Len(out))
  BY <1>2 DEF MoveId
<1> HIDE DEF old, id
<1>4. MoneyMoves
  <2>1. CASE HoldWith(old) = {}
    <3>1. holds' = holds
      BY <1>1, <2>1 DEF HoldWith
    <3> QED
      BY <1>1, <3>1 DEF MoneyMoves, Booked
  <2>2. ASSUME NEW x \in HoldWith(old) PROVE MoneyMoves
    <3>1. x \in holds /\ x.id = old /\ \A y \in holds : y.id = old => y = x
      BY DEF IInv, Money, HoldWith
    <3>2. holds' = (holds \ {x}) \cup {[x EXCEPT !.id = id]}
      <4> DEFINE g(y) == IF y.id = old THEN [y EXCEPT !.id = id] ELSE y
      <4>1. g(x) = [x EXCEPT !.id = id] /\ \A y \in holds \ {x} : g(y) = y
        BY <3>1
      <4>2. holds' = {g(y) : y \in holds}
        BY <1>1
      <4> HIDE DEF g
      <4> QED
        BY <3>1, <4>1, <4>2
    <3>3. HoldRenamed(x, id)
      BY <1>1, <1>2, <1>3, <3>1, <3>2 DEF HoldRenamed
    <3> QED
      BY <3>3 DEF MoneyMoves
  <2> QED
    BY <2>1, <2>2
<1>5. MainInv' /\ main'.pc = "idle"
  BY <1>1, IdleThreads DEF MainInv
<1>6. held' \in [OfKind("held") -> [st : HeldStates, fid : Nat]]
      /\ inbound' \in [Hashes -> {"none", "locked", "claimed", "refunded"}]
  BY <1>1 DEF IInv, OtherTypes
<1> QED
  BY <1>1, <1>4, <1>5, <1>6, MainStepKeeps

-----------------------------------------------------------------------------
(* The theorems                                                            *)

\* An empty ledger satisfies the invariant.
LEMMA InitInv ==
    ASSUME Init
    PROVE  IInv
<1>1. holds = {} /\ entries = {} /\ out = <<>> /\ queue = <<>> /\ main = IdleMain /\ api = IdleApi
      /\ balance = [n \in Nodes |-> 0]
  BY DEF Init
<1>2. Money
  <2>1. IsFiniteSet(holds)
    BY <1>1, FS_EmptySet
  <2>2. ASSUME NEW n \in Nodes PROVE Reserved(holds, n) = 0
    <3>1. {x \in holds : x.node = n} = {}
      BY <1>1
    <3>2. Reserved(holds, n) = SumAmt({})
      BY <3>1, Zenon DEF Reserved
    <3> QED
      BY <3>2, AmtEmpty
  <2> QED
    BY <1>1, <2>1, <2>2 DEF Money
<1>3. out \in Seq(Outgoing) /\ queue \in Seq(Events)
  BY <1>1
<1>4. served \in [scenario.requests -> Nat] /\ scenario \in Scenarios
  BY DEF Init
<1>5. held \in [OfKind("held") -> [st : HeldStates, fid : Nat]]
  BY DEF Init, HeldStates
<1>6. OtherTypes
  BY <1>1, <1>3, <1>4, <1>5, IdleThreads, LspConstants DEF Init, OtherTypes
<1>7. IdsInv /\ ApiInv /\ MainInv /\ QueueInv
  BY <1>1, IdleThreads DEF IdsInv, ApiInv, MainInv, QueueInv
<1>8. NonceInv
  BY <1>1, IdleThreads DEF Init, NonceInv
<1> QED
  BY <1>2, <1>6, <1>7, <1>8 DEF IInv

\* Every step keeps the invariant and is one of the ways money moves.
LEMMA NextInv ==
    ASSUME IInv, [Next]_vars
    PROVE  IInv' /\ MoneyMoves
<1>1. CASE ApiStep
  BY <1>1, HandleStep, ServeStep, SendBolt11Step, SendOnchainStep, ApiSettleStep DEF ApiStep
<1>2. CASE MainStep
  BY <1>2, AccountEventStep, SkimRecordStep, EventHandledStep, SettleIntoAccountStep, DeliverStep, HeldRecordStep,
     DeliverBalancesStep, RunConversionsStep, StartConversionStep, MoveSendStep, MoveRenameStep
     DEF MainStep
<1>3. CASE Network
  BY <1>3, PayInStep, ResolveStep, ForwardedStep DEF Network
<1>4. CASE UNCHANGED vars
  <2>1. UNCHANGED <<now, height, balance, holds, entries, issued, held, revenue, nonces, scenario,
                    served, inbound, out, onchain, routed, queue, api, main, crashes>>
    BY <1>4 DEF vars
  <2>2. Booked /\ OutGrows
    BY <2>1, OutSame DEF Booked
  <2>3. OtherTypes' /\ ApiInv'
    BY <2>1 DEF IInv, OtherTypes, ApiInv
  <2> QED
    BY <2>1, <2>2, <2>3, MainKept, NonceKept, QueueKept, StepKeeps DEF MoneyMoves
<1> QED
  BY <1>1, <1>2, <1>3, <1>4, BlockStep, SecondStep, CrashStep DEF Next

\* LspAccounts!IInv holds throughout: the invariant the theorems below rest on.
THEOREM Invariance == Spec => []IInv
<1>1. Init => IInv
  BY InitInv
<1>2. IInv /\ [Next]_vars => IInv'
  BY NextInv
<1> QED
  BY <1>1, <1>2, PTL DEF Spec

\* Every table and queue of the ledger, of LDK and of the two threads stays within its type.
THEOREM TypeCorrect == Spec => []TypeOK
<1>1. IInv => TypeOK
  BY DEF IInv, Money, OtherTypes, TypeOK
<1> QED
  BY <1>1, Invariance, PTL

\* hold_kind and transfer keep every account's reserved money within its balance, whatever
\* the two threads, a crash or a replayed event do.
THEOREM NothingOverdrawn == Spec => []NeverOverdrawn
<1>1. IInv => NeverOverdrawn
  BY AccountView DEF IInv, Money, NeverOverdrawn
<1> QED
  BY <1>1, Invariance, PTL

\* A signed request is let through at most once while it is good, however often it is
\* delivered, and once more at most after that: use_nonce forgets a nonce only when its request
\* has expired, and one request is between the two looks at the clock.
THEOREM RequestsActOnce == Spec => []ServedOnce
<1>1. IInv => ServedOnce
  BY DEF IInv, NonceInv, ServedOnce
<1> QED
  BY <1>1, Invariance, PTL

\* The ledger under its two threads, with crashes and replayed events, implements the
\* account its owner was promised.
THEOREM LedgerKeepsAccount == Spec => AccountKept
<1>1. Init => Acct!Init
  <2> SUFFICES ASSUME Init PROVE Acct!Init
    OBVIOUS
  <2>1. balance = [n \in Nodes |-> 0] /\ holds = {} /\ entries = {}
    BY DEF Init
  <2>2. \A n \in Nodes : account_of(n).held = 0
    <3>1. ASSUME NEW n \in Nodes PROVE HoldsOf(n) = {}
      BY <2>1 DEF HoldsOf
    <3>2. ASSUME NEW n \in Nodes PROVE account_of(n).held = SumAmt({})
      BY <3>1, Zenon DEF account_of
    <3> QED
      BY <3>2, AmtEmpty
  <2>3. \A n \in Nodes : {e.hash : e \in Credits(n)} = {}
    BY <2>1 DEF Credits
  <2> QED
    BY <2>1, <2>2, <2>3 DEF Acct!Init
<1>2. IInv /\ [Next]_vars => [Acct!Next]_(Acct!vars)
  BY NextInv, MoneyImplements DEF IInv
<1> QED
  BY <1>1, <1>2, Invariance, PTL DEF Spec, AccountKept, Acct!Spec

-----------------------------------------------------------------------------
(* A held payment goes one way, and one more for each stop and the deadline *)

\* The main thread is between the node's call for h and the ledger's, at one of the steps P.
AtHand(h, P) == main.pc \in P /\ main.ref = h

\* The forward the LSP knows of that may deliver h, if there is one.
Way(h) ==
    IF held[h].st \in {"forwarding", "done"} THEN {held[h].fid}
    ELSE IF AtHand(h, {"forward"}) THEN {main.amt} ELSE {}

\* h goes into its account as far as the LSP knows.
OwnCredit(h) == held[h].st = "credited" \/ AtHand(h, {"claimed", "credited"})

\* The ways h went that the LSP no longer knows of: forwards whose number was lost, a credit
\* whose row was, and a refund that came by itself.
LostForwards(h) == Forwards(h) \ Way(h)
LostCredit(h) == Credited(Owner(h), h) /\ ~OwnCredit(h)
LostRefund(h) == inbound[h] = "refunded" /\ held[h].st # "failed"
Extra(h) == Cardinality(LostForwards(h)) + One(LostCredit(h)) + One(LostRefund(h))

\* Where h stands in the ledger says where it stands with the node: which forward may
\* deliver it, whether its account was credited and whether its payer's money was taken.
HeldRow(h) ==
    /\ AtHand(h, {"forward", "claimed", "credited"}) => held[h].st = "claimable"
    /\ AtHand(h, {"settled"}) => held[h].st \in {"forwarding", "done"}
    /\ held[h].st \in {"forwarding", "done"} \/ held[h].fid = 0
    /\ \A i \in Way(h) : i \in 1..Len(out) /\ out[i].why = "forward" /\ out[i].ref = h
    /\ held[h].st = "done" \/ AtHand(h, {"settled"}) => out[held[h].fid].st = "ok"
    /\ held[h].st = "credited" \/ AtHand(h, {"credited"}) => Credited(Owner(h), h)
    /\ held[h].st \in {"done", "credited"} \/ AtHand(h, {"claimed", "credited", "settled"})
          => inbound[h] = "claimed" \/ Late
    /\ inbound[h] = "refunded" => held[h].st = "failed" \/ Late
    /\ Late => inbound[h] # "locked"
    /\ inbound[h] = "none" => held[h].st \in {"none", "open"}
    /\ held[h].st = "failed" => inbound[h] = "refunded" \/ crashes > 0
    /\ AtHand(h, {"claimed"}) => height + Safety >= Deadline

\* A payer's money that was taken is accounted for, and the LSP knows how unless it stopped.
HeldTaken(h) ==
    inbound[h] = "claimed" =>
        /\ \/ crashes > 0 \/ held[h].st \in {"done", "credited"}
           \/ AtHand(h, {"claimed", "credited", "settled"})
        /\ \/ Arrived(h) # {} \/ Credited(Owner(h), h) \/ AtHand(h, {"claimed"})
           \/ /\ crashes > 0 /\ held[h].st \in {"claimable", "failed"}
              /\ height + Safety >= Deadline /\ ~AtHand(h, {"forward"})

HeldOK(h) == HeldRow(h) /\ HeldTaken(h) /\ Extra(h) <= crashes + One(Late)

\* LDK tells only of payments that were made.
Claimables ==
    \A k \in 1..Len(queue) : queue[k].kind = "claimable" => inbound[queue[k].ref] # "none"

HeldInv == (\A h \in OfKind("held") : HeldOK(h)) /\ Claimables

\* Heights are numbers, and so are the counts.
LEMMA HeldNumbers ==
    ASSUME IInv
    PROVE  /\ height \in Nat /\ Deadline \in Nat /\ Safety \in Nat /\ crashes \in Nat /\ Len(out) \in Nat
           /\ \A P : One(P) \in {0, 1}
BY LspConstants DEF IInv, OtherTypes, One

\* The ways are finitely many.
LEMMA ForwardsFinite ==
    ASSUME IInv, NEW h, NEW S, S \subseteq Forwards(h)
    PROVE  IsFiniteSet(S) /\ Cardinality(S) \in Nat
<1>1. IsFiniteSet(1..Len(out))
  BY HeldNumbers, FS_Interval
<1>2. S \subseteq 1..Len(out)
  BY DEF Forwards
<1> QED
  BY <1>1, <1>2, FS_Subset, FS_CardinalityType

LEMMA ExtraNat ==
    ASSUME IInv, NEW h
    PROVE  Extra(h) \in Nat /\ Cardinality(LostForwards(h)) \in Nat
<1>1. Cardinality(LostForwards(h)) \in Nat
  BY ForwardsFinite DEF LostForwards
<1>2. One(LostCredit(h)) \in {0, 1} /\ One(LostRefund(h)) \in {0, 1}
  BY DEF One
<1> QED
  BY <1>1, <1>2 DEF Extra

\* The same after a step.
LEMMA ExtraNatNext ==
    ASSUME IInv', NEW h
    PROVE  Extra(h)' \in Nat
<1>1. Len(out') \in Nat
  BY DEF IInv, OtherTypes
<1>2. IsFiniteSet(1..Len(out')) /\ LostForwards(h)' \subseteq 1..Len(out')
  BY <1>1, FS_Interval DEF LostForwards, Forwards
<1>3. Cardinality(LostForwards(h)') \in Nat
  BY <1>2, FS_Subset, FS_CardinalityType
<1>4. One(LostCredit(h))' \in {0, 1} /\ One(LostRefund(h))' \in {0, 1}
  BY DEF One
<1> QED
  BY <1>3, <1>4 DEF Extra

\* No way is lost in a step: there are not more of them.
LEMMA ExtraKept ==
    ASSUME IInv, IInv', NEW h,
           LostForwards(h)' \subseteq LostForwards(h),
           LostCredit(h)' => LostCredit(h),
           LostRefund(h)' => LostRefund(h)
    PROVE  Extra(h)' <= Extra(h)
<1>1. Cardinality(LostForwards(h)') <= Cardinality(LostForwards(h))
  <2>1. IsFiniteSet(LostForwards(h))
    BY ForwardsFinite DEF LostForwards
  <2> QED
    BY <2>1, FS_Subset
<1>2. Cardinality(LostForwards(h)) \in Nat
  BY ExtraNat
<1>3. Cardinality(LostForwards(h)') \in Nat
  <2>1. IsFiniteSet(LostForwards(h)) /\ IsFiniteSet(LostForwards(h)')
    BY ForwardsFinite, FS_Subset DEF LostForwards
  <2> QED
    BY <2>1, FS_CardinalityType
<1>4. One(LostCredit(h))' \in {0, 1} /\ One(LostCredit(h)) \in {0, 1}
      /\ One(LostCredit(h))' <= One(LostCredit(h))
  BY DEF One
<1>5. One(LostRefund(h))' \in {0, 1} /\ One(LostRefund(h)) \in {0, 1}
      /\ One(LostRefund(h))' <= One(LostRefund(h))
  BY DEF One
<1> QED
  BY <1>1, <1>2, <1>3, <1>4, <1>5 DEF Extra

\* What arrived stays arrived.
LEMMA ArrivedStays ==
    ASSUME IInv, OutGrows, NEW h
    PROVE  Arrived(h) \subseteq Arrived(h)'
<1>1. Len(out) \in Nat /\ Len(out') \in Nat /\ Len(out') >= Len(out)
  BY DEF IInv, OtherTypes, OutGrows
<1> QED
  BY <1>1 DEF Arrived, Forwards, OutGrows

\* A step that leaves h, its forwards and the main thread's business with it alone.
Untouched(h) ==
    /\ held'[h] = held[h] /\ inbound'[h] = inbound[h]
    /\ Credited(Owner(h), h)' <=> Credited(Owner(h), h)
    /\ \A pc \in {"forward", "claimed", "credited", "settled"} :
          main'.pc = pc /\ main'.ref = h <=> main.pc = pc /\ main.ref = h
    /\ AtHand(h, {"forward"}) => main'.amt = main.amt
    /\ Forwards(h)' \subseteq Forwards(h)

\* Such a step keeps what is known of h.
LEMMA UntouchedOK ==
    ASSUME IInv, IInv', OutGrows, UNCHANGED <<crashes, height>>,
           NEW h \in OfKind("held"), HeldOK(h), Untouched(h)
    PROVE  HeldOK(h)'
<1>1. Len(out) \in Nat /\ Len(out') \in Nat /\ Len(out') >= Len(out)
  BY DEF IInv, OtherTypes, OutGrows
<1>2. /\ AtHand(h, {"forward"})' <=> AtHand(h, {"forward"})
      /\ AtHand(h, {"claimed"})' <=> AtHand(h, {"claimed"})
      /\ AtHand(h, {"credited"})' <=> AtHand(h, {"credited"})
      /\ AtHand(h, {"settled"})' <=> AtHand(h, {"settled"})
      /\ AtHand(h, {"claimed", "credited"})' <=> AtHand(h, {"claimed", "credited"})
      /\ AtHand(h, {"forward", "claimed", "credited"})' <=> AtHand(h, {"forward", "claimed", "credited"})
      /\ AtHand(h, {"claimed", "credited", "settled"})' <=> AtHand(h, {"claimed", "credited", "settled"})
  BY DEF Untouched, AtHand
<1>3. Way(h)' = Way(h)
  BY <1>2 DEF Way, Untouched
<1>4. \A i \in Way(h) : i \in 1..Len(out) /\ out[i].why = "forward" /\ out[i].ref = h
  BY DEF HeldOK, HeldRow
<1>5. \A i \in Way(h)' : i \in 1..Len(out') /\ out'[i].why = "forward" /\ out'[i].ref = h
  BY <1>1, <1>3, <1>4 DEF OutGrows
<1>6. held[h].st = "done" \/ AtHand(h, {"settled"}) => out'[held[h].fid].st = "ok"
  <2> SUFFICES ASSUME held[h].st = "done" \/ AtHand(h, {"settled"})
               PROVE  out'[held[h].fid].st = "ok"
    OBVIOUS
  <2>1. held[h].st \in {"forwarding", "done"} /\ out[held[h].fid].st = "ok"
    BY DEF HeldOK, HeldRow
  <2>2. held[h].fid \in 1..Len(out)
    BY <1>4, <2>1 DEF Way
  <2> QED
    BY <2>1, <2>2 DEF OutGrows
<1>7. held'[h] = held[h] /\ inbound'[h] = inbound[h] /\ (Late' <=> Late)
      /\ (Credited(Owner(h), h)' <=> Credited(Owner(h), h))
  BY DEF Untouched, Late
<1>8. HeldRow(h)'
  BY <1>2, <1>5, <1>6, <1>7 DEF HeldOK, HeldRow
<1>9. HeldTaken(h)'
  <2>1. Arrived(h) # {} => Arrived(h)' # {}
    BY ArrivedStays
  <2> QED
    BY <1>2, <1>7, <2>1 DEF HeldOK, HeldTaken
<1>10. Extra(h)' <= Extra(h)
  <2>1. LostForwards(h)' \subseteq LostForwards(h)
    BY <1>3 DEF LostForwards, Untouched
  <2>2. (LostCredit(h)' => LostCredit(h)) /\ (LostRefund(h)' => LostRefund(h))
    BY <1>2, <1>7 DEF LostCredit, OwnCredit, LostRefund
  <2> QED
    BY <2>1, <2>2, ExtraKept
<1>11. Extra(h)' <= (crashes + One(Late))'
  <2>1. One(Late)' = One(Late)
    BY <1>7 DEF One
  <2>2. Extra(h) \in Nat /\ crashes \in Nat /\ One(Late) \in {0, 1} /\ Extra(h)' \in Nat
    BY ExtraNat, ExtraNatNext, HeldNumbers
  <2> QED
    BY <1>10, <2>1, <2>2 DEF HeldOK
<1> QED
  BY <1>8, <1>9, <1>11 DEF HeldOK

\* No payment of ours is made: the forwards stay.
LEMMA ForwardsSame ==
    ASSUME out' = out, NEW h
    PROVE  Forwards(h)' = Forwards(h) /\ Arrived(h)' = Arrived(h)
BY DEF Forwards, Arrived

\* A payment of ours that is no forward of h.
LEMMA ForwardsSent ==
    ASSUME IInv, NEW x, NEW h, out' \in Seq(Outgoing), Len(out') = Len(out) + 1,
           \A i \in 1..Len(out) : out'[i] = out[i], out'[Len(out')] = x
    PROVE  /\ ~(x.why = "forward" /\ x.ref = h) => Forwards(h)' = Forwards(h)
           /\ Forwards(h)' \subseteq Forwards(h) \cup {Len(out')}
<1>1. Len(out) \in Nat /\ Len(out') \in Nat
  BY DEF IInv, OtherTypes
<1> QED
  BY <1>1 DEF Forwards

HeldSteps == {"forward", "claimed", "credited", "settled"}

\* Credits of other payments do not count for a held one.
CreditsQuiet == \A h \in OfKind("held") : Credited(Owner(h), h)' <=> Credited(Owner(h), h)

\* A step that has nothing to do with held payments.
LEMMA QuietStep ==
    ASSUME IInv, IInv', HeldInv, OutGrows, CreditsQuiet,
           UNCHANGED <<held, inbound, crashes, height>>,
           \A h \in OfKind("held") : Forwards(h)' \subseteq Forwards(h),
           main' = main \/ (main.pc \notin HeldSteps /\ main'.pc \notin HeldSteps),
           \A k \in 1..Len(queue') :
              queue'[k].kind = "claimable" => \E j \in 1..Len(queue) : queue'[k] = queue[j]
    PROVE  HeldInv'
<1>1. ASSUME NEW h \in OfKind("held") PROVE HeldOK(h)'
  <2>1. \A pc \in HeldSteps : main'.pc = pc /\ main'.ref = h <=> main.pc = pc /\ main.ref = h
    OBVIOUS
  <2>2. AtHand(h, {"forward"}) => main'.amt = main.amt
    BY DEF AtHand, HeldSteps
  <2>3. Untouched(h)
    BY <2>1, <2>2 DEF Untouched, HeldSteps, CreditsQuiet
  <2>4. HeldOK(h)
    BY DEF HeldInv
  <2> QED
    BY <2>3, <2>4, UntouchedOK
<1>2. Claimables'
  BY DEF HeldInv, Claimables
<1> QED
  BY <1>1, <1>2 DEF HeldInv

\* The same when the queue, the payments of the node and the entries stand still.
LEMMA QuietMain ==
    ASSUME IInv, IInv', HeldInv, UNCHANGED <<held, inbound, entries, out, queue, crashes, height>>,
           main' = main \/ (main.pc \notin HeldSteps /\ main'.pc \notin HeldSteps)
    PROVE  HeldInv'
<1>1. OutGrows /\ \A h \in OfKind("held") : Forwards(h)' = Forwards(h)
  BY OutSame, ForwardsSame
<1>2. CreditsQuiet
  BY DEF CreditsQuiet, Credited
<1> QED
  BY <1>1, <1>2, QuietStep

\* A block: at the deadline the payments in that are still locked go back.
LEMMA HeldBlock ==
    ASSUME IInv, IInv', HeldInv, Block
    PROVE  HeldInv'
<1>1. UNCHANGED <<held, entries, out, queue, crashes, main>>
  BY DEF Block, ledger
<1>2. height \in Nat /\ Deadline \in Nat /\ Safety \in Nat /\ height' = height + 1
  BY HeldNumbers DEF Block
<1>3. \A h \in Hashes : inbound'[h] = IF inbound[h] = "locked" /\ Late' THEN "refunded" ELSE inbound[h]
  BY DEF Block, Late
<1>4. Late => Late'
  BY <1>2 DEF Late
<1>5. ASSUME NEW h \in OfKind("held") PROVE HeldOK(h)'
  <2>1. HeldOK(h) /\ h \in Hashes
    BY HeldHashes DEF HeldInv
  <2>2. UNCHANGED <<Way(h), Forwards(h), Arrived(h)>>
    BY <1>1, ForwardsSame DEF Way, AtHand
  <2>3. (Credited(Owner(h), h)' <=> Credited(Owner(h), h)) /\ (OwnCredit(h)' <=> OwnCredit(h))
    BY <1>1 DEF Credited, OwnCredit, AtHand
  <2>4. inbound'[h] = IF inbound[h] = "locked" /\ Late' THEN "refunded" ELSE inbound[h]
    BY <1>3, <2>1
  <2>5. height + Safety >= Deadline => height' + Safety >= Deadline
    BY <1>2
  <2>6. HeldRow(h)'
    BY <1>1, <1>4, <2>1, <2>2, <2>3, <2>4, <2>5 DEF HeldOK, HeldRow, AtHand
  <2>7. HeldTaken(h)'
    BY <1>1, <2>1, <2>2, <2>3, <2>4, <2>5 DEF HeldOK, HeldTaken, AtHand
  <2>8. Extra(h)' <= (crashes + One(Late))'
    <3>1. Extra(h) <= crashes + One(Late) /\ Extra(h) \in Nat /\ crashes \in Nat
          /\ Extra(h)' \in Nat
      BY <2>1, ExtraNat, ExtraNatNext, HeldNumbers DEF HeldOK
    <3>2. LostForwards(h)' = LostForwards(h) /\ (LostCredit(h)' <=> LostCredit(h))
      BY <2>2, <2>3 DEF LostForwards, LostCredit
    <3>3. CASE inbound[h] = "locked" /\ Late'
      <4>1. ~Late
        BY <2>1, <3>3 DEF HeldOK, HeldRow
      <4>2. One(Late) = 0 /\ One(Late)' = 1
        BY <3>3, <4>1 DEF One
      <4>3. One(LostCredit(h))' = One(LostCredit(h)) /\ One(LostCredit(h)) \in {0, 1}
            /\ One(LostRefund(h)) \in {0, 1} /\ One(LostRefund(h))' \in {0, 1}
        BY <3>2 DEF One
      <4>4. One(LostRefund(h)) = 0
        BY <3>3 DEF One, LostRefund
      <4>5. Cardinality(LostForwards(h))' = Cardinality(LostForwards(h))
        BY <3>2
      <4>6. Cardinality(LostForwards(h)) \in Nat
        BY ExtraNat
      <4>7. Extra(h)' <= Extra(h) + 1
        BY <4>3, <4>4, <4>5, <4>6 DEF Extra
      <4> QED
        BY <1>1, <3>1, <4>2, <4>7
    <3>4. CASE ~(inbound[h] = "locked" /\ Late')
      <4>1. Extra(h)' <= Extra(h)
        <5>1. LostRefund(h)' => LostRefund(h)
          BY <1>1, <2>4, <3>4 DEF LostRefund
        <5> QED
          BY <3>2, <5>1, ExtraKept
      <4>2. One(Late) \in {0, 1} /\ One(Late)' \in {0, 1} /\ One(Late) <= One(Late)'
        BY <1>4 DEF One
      <4> QED
        BY <1>1, <3>1, <4>1, <4>2
    <3> QED
      BY <3>3, <3>4
  <2> QED
    BY <2>6, <2>7, <2>8 DEF HeldOK
<1>6. Claimables'
  <2>1. ASSUME NEW k \in 1..Len(queue), queue[k].kind = "claimable" PROVE queue[k].ref \in Hashes
    <3>1. queue[k] \in Events
      BY DEF IInv, OtherTypes
    <3> QED
      BY <2>1, <3>1, HeldHashes DEF Events
  <2> QED
    BY <1>1, <1>3, <2>1 DEF HeldInv, Claimables
<1> QED
  BY <1>5, <1>6 DEF HeldInv

\* A stop: what the main thread was about to record of one held payment is lost.
LEMMA HeldCrash ==
    ASSUME IInv, IInv', HeldInv, Crash
    PROVE  HeldInv'
<1>1. UNCHANGED <<held, inbound, entries, out, queue, height>> /\ main' = IdleMain
      /\ crashes' = crashes + 1
  BY DEF Crash, ledger, ldk
<1>2. crashes \in Nat /\ (Late' <=> Late) /\ main'.pc = "idle"
  BY <1>1, HeldNumbers, IdleThreads DEF Late
<1>3. ASSUME NEW h \in OfKind("held") PROVE HeldOK(h)'
  <2>1. HeldOK(h)
    BY DEF HeldInv
  <2>2. Forwards(h)' = Forwards(h) /\ Arrived(h)' = Arrived(h)
        /\ (Credited(Owner(h), h)' <=> Credited(Owner(h), h))
    BY <1>1, ForwardsSame DEF Credited
  <2>3. \A P \in SUBSET HeldSteps : ~AtHand(h, P)'
    BY <1>2 DEF AtHand, HeldSteps
  <2>4. ~AtHand(h, {"forward"})' /\ ~AtHand(h, {"claimed"})' /\ ~AtHand(h, {"credited"})'
        /\ ~AtHand(h, {"settled"})' /\ ~AtHand(h, {"claimed", "credited"})'
        /\ ~AtHand(h, {"forward", "claimed", "credited"})'
        /\ ~AtHand(h, {"claimed", "credited", "settled"})'
    BY <1>2 DEF AtHand
  <2>5. Way(h)' \subseteq Way(h)
    BY <1>1, <2>4 DEF Way
  <2>6. HeldRow(h)'
    BY <1>1, <1>2, <2>1, <2>2, <2>4, <2>5 DEF HeldOK, HeldRow
  <2>7. HeldTaken(h)'
    <3>1. AtHand(h, {"claimed"}) => held[h].st = "claimable" /\ height + Safety >= Deadline
      BY <2>1 DEF HeldOK, HeldRow, AtHand
    <3> QED
      BY <1>1, <1>2, <2>1, <2>2, <2>4, <3>1 DEF HeldOK, HeldTaken
  <2>8. Extra(h)' <= Extra(h) + 1
    <3>1. (LostRefund(h)' <=> LostRefund(h)) /\ One(LostRefund(h))' = One(LostRefund(h))
          /\ One(LostRefund(h)) \in {0, 1}
      BY <1>1 DEF LostRefund, One
    <3>2. Cardinality(LostForwards(h)) \in Nat
      BY ExtraNat
    <3>3. CASE AtHand(h, {"forward"})
      <4>1. LostForwards(h)' \subseteq LostForwards(h) \cup {main.amt} /\ IsFiniteSet(LostForwards(h))
        BY <1>1, <2>1, <2>2, <2>4, <3>3, ForwardsFinite DEF HeldOK, HeldRow, Way, LostForwards, AtHand
      <4>2. Cardinality(LostForwards(h)') <= Cardinality(LostForwards(h)) + 1
            /\ Cardinality(LostForwards(h)') \in Nat
        <5> DEFINE T == LostForwards(h) \cup {main.amt}
        <5>1. IsFiniteSet(T) /\ Cardinality(T) = IF main.amt \in LostForwards(h)
                                                 THEN Cardinality(LostForwards(h))
                                                 ELSE Cardinality(LostForwards(h)) + 1
          BY <4>1, FS_AddElement
        <5>2. IsFiniteSet(LostForwards(h)') /\ Cardinality(LostForwards(h)') <= Cardinality(T)
          BY <4>1, <5>1, FS_Subset
        <5>3. Cardinality(LostForwards(h)') \in Nat
          BY <5>2, FS_CardinalityType
        <5> QED
          BY <3>2, <5>1, <5>2, <5>3
      <4>3. LostCredit(h)' <=> LostCredit(h)
        BY <1>1, <2>2, <2>4, <3>3 DEF LostCredit, OwnCredit, AtHand
      <4>4. One(LostCredit(h))' = One(LostCredit(h)) /\ One(LostCredit(h)) \in {0, 1}
        BY <4>3 DEF One
      <4> QED
        BY <3>1, <3>2, <4>2, <4>4 DEF Extra
    <3>4. CASE ~AtHand(h, {"forward"})
      <4>1. LostForwards(h)' = LostForwards(h)
        BY <1>1, <2>2, <2>4, <3>4 DEF LostForwards, Way
      <4>2. Cardinality(LostForwards(h))' = Cardinality(LostForwards(h))
        BY <4>1
      <4>3. One(LostCredit(h))' \in {0, 1} /\ One(LostCredit(h)) \in {0, 1}
        BY DEF One
      <4> QED
        BY <3>1, <3>2, <4>2, <4>3 DEF Extra
    <3> QED
      BY <3>3, <3>4
  <2>9. Extra(h)' <= (crashes + One(Late))'
    <3>1. Extra(h) \in Nat /\ One(Late) \in {0, 1} /\ One(Late)' = One(Late) /\ Extra(h)' \in Nat
      BY <1>2, ExtraNat, ExtraNatNext DEF One
    <3> QED
      BY <1>1, <1>2, <2>1, <2>8, <3>1 DEF HeldOK
  <2> QED
    BY <2>6, <2>7, <2>9 DEF HeldOK
<1>4. Claimables'
  BY <1>1 DEF HeldInv, Claimables
<1> QED
  BY <1>3, <1>4 DEF HeldInv

\* Seconds, routed payments, requests coming in and acknowledgements.
LEMMA QuietClock ==
    ASSUME IInv, IInv', HeldInv,
           \/ Second \/ Forwarded \/ event_handled \/ SkimRecord \/ UNCHANGED vars
           \/ \E r \in scenario.requests : handle(r)
    PROVE  HeldInv'
<1>1. CASE Second
  BY <1>1, QuietMain DEF Second, ledger, ldk
<1>2. CASE \E r \in scenario.requests : handle(r)
  BY <1>2, QuietMain DEF handle, ledger, ldk, world
<1>3. CASE SkimRecord
  <2>1. UNCHANGED <<held, inbound, entries, out, queue, crashes, height>> /\ main' = AckMain
        /\ main.pc = "skim"
    BY <1>3 DEF SkimRecord, ldk, world
  <2>2. main.pc \notin HeldSteps /\ main'.pc \notin HeldSteps
    BY <2>1, IdleThreads DEF HeldSteps
  <2> QED
    BY <2>1, <2>2, QuietMain
<1>4. CASE Forwarded
  <2>1. UNCHANGED <<held, inbound, entries, out, crashes, height, main>>
    BY <1>4 DEF Forwarded, ledger, world
  <2>2. queue' = Append(queue, Event("forwarded", routed', MinFee)) /\ queue \in Seq(Events)
    BY <1>4 DEF Forwarded, Emit, IInv, OtherTypes
  <2>3. \A k \in 1..Len(queue') :
           queue'[k].kind = "claimable" => \E j \in 1..Len(queue) : queue'[k] = queue[j]
    BY <2>2 DEF Event
  <2>4. OutGrows /\ CreditsQuiet
        /\ \A h \in OfKind("held") : Forwards(h)' = Forwards(h)
    BY <2>1, OutSame, ForwardsSame DEF CreditsQuiet, Credited
  <2> QED
    BY <2>1, <2>3, <2>4, QuietStep
<1>5. CASE event_handled
  <2>1. UNCHANGED <<held, inbound, entries, out, crashes, height>>
        /\ main' = IdleMain /\ main.pc = "ack"
    BY <1>5 DEF event_handled, ledger, world
  <2>2. queue' = Tail(queue) /\ queue \in Seq(Events)
    BY <1>5 DEF event_handled, IInv, OtherTypes
  <2>3. \A k \in 1..Len(queue') :
           queue'[k].kind = "claimable" => \E j \in 1..Len(queue) : queue'[k] = queue[j]
    <3>1. CASE queue = <<>>
      BY <2>2, <3>1
    <3>2. CASE queue # <<>>
      <4>1. Len(queue) \in Nat
        BY <2>2
      <4>2. \A k \in 1..Len(queue') : k + 1 \in 1..Len(queue) /\ queue'[k] = queue[k + 1]
        BY <2>2, <3>2, <4>1, HeadOfQueue
      <4> QED
        BY <4>2
    <3> QED
      BY <3>1, <3>2
  <2>4. OutGrows /\ CreditsQuiet
        /\ \A h \in OfKind("held") : Forwards(h)' = Forwards(h)
    BY <2>1, OutSame, ForwardsSame DEF CreditsQuiet, Credited
  <2>5. main.pc \notin HeldSteps /\ main'.pc \notin HeldSteps
    BY <2>1, IdleThreads DEF HeldSteps
  <2> QED
    BY <2>1, <2>3, <2>4, <2>5, QuietStep
<1>6. CASE UNCHANGED vars
  BY <1>6, QuietMain DEF vars
<1> QED
  BY <1>1, <1>2, <1>3, <1>4, <1>5, <1>6

\* The later steps of an API request.
LEMMA QuietApi ==
    ASSUME IInv, IInv', HeldInv, send_bolt11 \/ send_onchain \/ ApiSettle
    PROVE  HeldInv'
<1>1. CASE send_bolt11
  <2>0. PICK r : r = api.req
    OBVIOUS
  <2>1. UNCHANGED <<held, inbound, entries, crashes, height, queue, main>>
        /\ api.pc = "pay"
    BY <1>1 DEF send_bolt11, ledger, world
  <2>2. CASE UNCHANGED out
    BY <2>1, <2>2, QuietMain
  <2>3. CASE Sent("send", r.node, r.hash, Amt(r.hash), Amt(r.hash))
    <3>1. r.node \in Nodes /\ r.hash \in Hashes \cup {"none"} /\ Amt(r.hash) \in Nat
          /\ "send" \in Moves \cup {"send", "forward"}
      BY <2>0, <2>1, LspConstants DEF IInv, OtherTypes, ApiInv, OfKind
    <3> DEFINE x == [why |-> "send", node |-> r.node, ref |-> r.hash, amt |-> Amt(r.hash),
                     charge |-> Amt(r.hash), st |-> "flying", fee |-> 0]
    <3>2. OutGrows /\ Len(out') = Len(out) + 1 /\ (\A i \in 1..Len(out) : out'[i] = out[i])
          /\ out'[Len(out')] = x
      BY <2>3, <3>1, SentGrows
    <3>3. x.why # "forward" /\ out' \in Seq(Outgoing)
      BY <3>2 DEF OutGrows
    <3> HIDE DEF x
    <3>4. \A h \in OfKind("held") : Forwards(h)' = Forwards(h)
      BY <3>2, <3>3, ForwardsSent
    <3>5. CreditsQuiet
      BY <2>1 DEF CreditsQuiet, Credited
    <3> QED
      BY <2>1, <3>2, <3>4, <3>5, QuietStep
  <2> QED
    BY <1>1, <2>0, <2>2, <2>3 DEF send_bolt11
<1>2. CASE send_onchain
  BY <1>2, QuietMain DEF send_onchain, ledger, world
<1>3. CASE ApiSettle
  BY <1>3, QuietMain DEF ApiSettle, ldk, world
<1> QED
  BY <1>1, <1>2, <1>3

\* The steps that move balances into channels.
LEMMA QuietMoves ==
    ASSUME IInv, IInv', HeldInv,
           (\E n \in Nodes : deliver_balances(n) \/ run_conversions(n))
           \/ start_conversion \/ MoveSend \/ MoveRename
    PROVE  HeldInv'
<1>1. CASE \E n \in Nodes : deliver_balances(n) \/ run_conversions(n)
  <2>1. UNCHANGED <<held, inbound, entries, out, queue, crashes, height>>
        /\ main.pc = "idle" /\ main'.pc = "read"
    BY <1>1 DEF deliver_balances, run_conversions, Go, Main, ledger, world, ldk
  <2> QED
    BY <2>1, QuietMain DEF HeldSteps
<1>2. CASE start_conversion
  <2>1. UNCHANGED <<held, inbound, entries, out, queue, crashes, height>>
    BY <1>2 DEF start_conversion, world, ldk
  <2>2. main.pc \in {"read", "hold"} /\ main'.pc \in {"hold", "send", "idle"}
    BY <1>2, IdleThreads DEF start_conversion, Go, Main
  <2> QED
    BY <2>1, <2>2, QuietMain DEF HeldSteps
<1>3. CASE MoveRename
  <2>1. UNCHANGED <<held, inbound, entries, out, queue, crashes, height>>
        /\ main.pc = "rename" /\ main'.pc = "idle"
    BY <1>3, IdleThreads DEF MoveRename, world, ldk
  <2> QED
    BY <2>1, QuietMain DEF HeldSteps
<1>4. CASE MoveSend
  <2> DEFINE n == main.ref
             a == IF main.how = "deliver" THEN main.amt.free ELSE main.amt.plan
             x == [why |-> main.how, node |-> n, ref |-> "none", amt |-> a,
                   charge |-> main.amt.free, st |-> "flying", fee |-> 0]
  <2>1. UNCHANGED <<held, inbound, entries, queue, crashes, height>>
        /\ main.pc = "send" /\ main'.pc \in {"rename", "idle"}
    BY <1>4, IdleThreads DEF MoveSend, Go, Main, world
  <2>2. CASE UNCHANGED out
    BY <2>1, <2>2, QuietMain DEF HeldSteps
  <2>3. CASE Sent(main.how, n, "none", a, main.amt.free)
    <3>1. n \in Nodes /\ main.how \in Moves \cup {"send", "forward"} /\ a \in Nat
          /\ main.amt.free \in Nat /\ "none" \in Hashes \cup {"none"} /\ main.how # "forward"
      BY <2>1 DEF IInv, MainInv, Moves
    <3> HIDE DEF a
    <3>2. OutGrows /\ Len(out') = Len(out) + 1 /\ (\A i \in 1..Len(out) : out'[i] = out[i])
          /\ out'[Len(out')] = x
      BY <2>3, <3>1, SentGrows
    <3>3. x.why # "forward" /\ out' \in Seq(Outgoing)
      BY <3>1, <3>2 DEF OutGrows
    <3> HIDE DEF x
    <3>4. \A h \in OfKind("held") : Forwards(h)' = Forwards(h)
      BY <3>2, <3>3, ForwardsSent
    <3>5. CreditsQuiet
      BY <2>1 DEF CreditsQuiet, Credited
    <3> QED
      BY <2>1, <3>2, <3>4, <3>5, QuietStep DEF HeldSteps
  <2> QED
    BY <1>4, <2>2, <2>3 DEF MoveSend
<1> QED
  BY <1>1, <1>2, <1>3, <1>4

\* A payment of ours ends: a forward that failed is none any more.
LEMMA HeldResolve ==
    ASSUME IInv, IInv', HeldInv, NEW i \in 1..Len(out), Resolve(i)
    PROVE  HeldInv'
<1>1. UNCHANGED <<held, inbound, entries, crashes, height, main>>
      /\ out[i].st = "flying"
  BY DEF Resolve, ledger, world
<1>2. OutGrows /\ Len(out') = Len(out) /\ \A j \in 1..Len(out) : j # i => out'[j] = out[j]
  BY ResolveOut
<1>3. PICK e \in Events : queue' = Append(queue, e) /\ e.kind \in {"ok", "failed"}
  BY ResolveOut
<1>4. queue \in Seq(Events) /\ Len(out) \in Nat
  BY DEF IInv, OtherTypes
<1>5. \A k \in 1..Len(queue') :
         queue'[k].kind = "claimable" => \E j \in 1..Len(queue) : queue'[k] = queue[j]
  BY <1>3, <1>4
<1>6. \A h \in OfKind("held") : Forwards(h)' \subseteq Forwards(h)
  BY <1>1, <1>2, <1>4 DEF Forwards, OutGrows
<1>7. CreditsQuiet
  BY <1>1 DEF CreditsQuiet, Credited
<1> QED
  BY <1>1, <1>2, <1>5, <1>6, <1>7, QuietStep

\* The payer of a held payment pays: its money is locked.
LEMMA HeldPayIn ==
    ASSUME IInv, IInv', HeldInv, NEW h \in Hashes, PayIn(h)
    PROVE  HeldInv'
<1>1. UNCHANGED <<held, entries, out, crashes, height, main>> /\ inbound[h] = "none"
  BY DEF PayIn, ledger, world
<1>2. OutGrows /\ CreditsQuiet
      /\ \A g \in OfKind("held") : Forwards(g)' = Forwards(g)
  BY <1>1, OutSame, ForwardsSame DEF CreditsQuiet, Credited
<1>3. inbound \in [Hashes -> {"none", "locked", "claimed", "refunded"}] /\ queue \in Seq(Events)
  BY DEF IInv, OtherTypes
<1>4. /\ \A g \in Hashes \ {h} : inbound'[g] = inbound[g]
      /\ inbound'[h] # "none"
      /\ h \in OfKind("held") => inbound'[h] = "locked" /\ held[h].st = "open" /\ ~Late /\ ~Late'
  <2>1. CASE h \in issued /\ inbound' = [inbound EXCEPT ![h] = "claimed"]
    <3>1. h \notin OfKind("held")
      BY <2>1 DEF IInv, OtherTypes, OfKind
    <3> QED
      BY <1>3, <2>1, <3>1
  <2>2. CASE held[h].st = "open" /\ height < Deadline /\ inbound' = [inbound EXCEPT ![h] = "locked"]
    <3>1. ~Late /\ ~Late'
      BY <1>1, <2>2, HeldNumbers DEF Late
    <3> QED
      BY <1>3, <2>2, <3>1
  <2> QED
    BY <2>1, <2>2 DEF PayIn
<1>e. PICK k \in {"received", "claimable"} : queue' = Append(queue, Event(k, h, 0))
  BY DEF PayIn, Emit
<1> DEFINE e == Event(k, h, 0)
<1>f. queue' = Append(queue, e) /\ e.ref = h
  BY <1>e DEF Event
<1> HIDE DEF e
<1>5. ASSUME NEW g \in OfKind("held") PROVE HeldOK(g)'
  <2>1. g \in Hashes /\ HeldOK(g)
    BY HeldHashes DEF HeldInv
  <2>2. CASE g # h
    <3>1. Untouched(g)
      BY <1>1, <1>2, <1>4, <2>1, <2>2 DEF Untouched, CreditsQuiet
    <3> QED
      BY <1>1, <1>2, <2>1, <3>1, UntouchedOK
  <2>3. CASE g = h
    <3>1. inbound'[g] = "locked" /\ inbound[g] = "none" /\ held[g].st = "open" /\ ~Late /\ ~Late'
      BY <1>1, <1>3, <1>4, <2>1, <2>3
    <3>2. UNCHANGED <<Forwards(g), Way(g)>> /\ (Credited(Owner(g), g)' <=> Credited(Owner(g), g))
          /\ (OwnCredit(g)' <=> OwnCredit(g))
      BY <1>1, <1>2, ForwardsSame DEF Way, AtHand, CreditsQuiet, OwnCredit
    <3>3. HeldRow(g)' /\ HeldTaken(g)'
      BY <1>1, <2>1, <3>1, <3>2 DEF HeldOK, HeldRow, HeldTaken, AtHand
    <3>4. Extra(g)' <= Extra(g)
      <4>1. LostForwards(g)' \subseteq LostForwards(g) /\ (LostCredit(g)' => LostCredit(g))
            /\ ~LostRefund(g)'
        BY <1>1, <3>1, <3>2 DEF LostForwards, LostCredit, LostRefund
      <4> QED
        BY <4>1, ExtraKept
    <3>5. Extra(g)' <= (crashes + One(Late))'
      <4>1. One(Late)' = One(Late) /\ One(Late) \in {0, 1}
        BY <3>1 DEF One
      <4>2. Extra(g) \in Nat /\ crashes \in Nat /\ Extra(g)' \in Nat
        BY ExtraNat, ExtraNatNext, HeldNumbers
      <4> QED
        BY <1>1, <2>1, <3>4, <4>1, <4>2 DEF HeldOK
    <3> QED
      BY <3>3, <3>5 DEF HeldOK
  <2> QED
    BY <2>2, <2>3
<1>6. ASSUME NEW j \in 1..Len(queue'), queue'[j].kind = "claimable"
      PROVE  inbound'[queue'[j].ref] # "none"
  <2>1. CASE j \in 1..Len(queue)
    <3>1. queue'[j] = queue[j] /\ queue[j] \in Events
      BY <1>3, <1>f, <2>1
    <3>2. queue[j].ref \in Hashes /\ inbound[queue[j].ref] # "none"
      BY <1>6, <2>1, <3>1, HeldHashes DEF HeldInv, Claimables, Events
    <3> QED
      BY <1>3, <1>4, <3>1, <3>2
  <2>2. CASE j \notin 1..Len(queue)
    <3>1. queue'[j] = e
      BY <1>3, <1>f, <2>2
    <3> QED
      BY <1>4, <1>f, <3>1
  <2> QED
    BY <2>1, <2>2
<1> QED
  BY <1>5, <1>6 DEF HeldInv, Claimables


\* A step on one held payment that loses track of none of its ways.
LEMMA OneTouched ==
    ASSUME IInv, IInv', HeldInv, OutGrows, UNCHANGED <<queue, crashes, height>>,
           NEW h \in OfKind("held"),
           \A g \in OfKind("held") \ {h} :
              /\ held'[g] = held[g] /\ inbound'[g] = inbound[g]
              /\ Credited(Owner(g), g)' <=> Credited(Owner(g), g)
              /\ Forwards(g)' \subseteq Forwards(g),
           inbound[h] # "none" => inbound'[h] # "none",
           main.pc \notin HeldSteps \/ main.ref = h,
           main'.pc \notin HeldSteps \/ main'.ref = h,
           HeldOK(h) => /\ HeldRow(h)' /\ HeldTaken(h)'
                        /\ LostForwards(h)' \subseteq LostForwards(h)
                        /\ LostCredit(h)' => LostCredit(h)
                        /\ LostRefund(h)' => LostRefund(h)
    PROVE  HeldInv'
<1>1. ASSUME NEW g \in OfKind("held") PROVE HeldOK(g)'
  <2>1. CASE g = h
    <3>1. HeldOK(h)
      BY DEF HeldInv
    <3>2. Extra(h)' <= Extra(h)
      BY <3>1, ExtraKept
    <3>3. One(Late)' = One(Late) /\ One(Late) \in {0, 1}
      BY DEF One, Late
    <3>4. Extra(h) \in Nat /\ crashes \in Nat /\ Extra(h)' \in Nat
      BY ExtraNat, ExtraNatNext, HeldNumbers
    <3>5. Extra(h)' <= (crashes + One(Late))'
      BY <3>1, <3>2, <3>3, <3>4 DEF HeldOK
    <3> QED
      BY <2>1, <3>1, <3>5 DEF HeldOK
  <2>2. CASE g # h
    <3>1. \A pc \in HeldSteps : ~(main.pc = pc /\ main.ref = g) /\ ~(main'.pc = pc /\ main'.ref = g)
      BY <2>2
    <3>2. Untouched(g)
      BY <2>2, <3>1 DEF Untouched, HeldSteps, AtHand
    <3>3. HeldOK(g)
      BY DEF HeldInv
    <3> QED
      BY <3>2, <3>3, UntouchedOK
  <2> QED
    BY <2>1, <2>2
<1>2. ASSUME NEW k \in 1..Len(queue'), queue'[k].kind = "claimable"
      PROVE  inbound'[queue'[k].ref] # "none"
  <2>1. queue \in Seq(Events)
    BY DEF IInv, OtherTypes
  <2>2. queue[k].ref \in OfKind("held") /\ inbound[queue[k].ref] # "none"
    BY <1>2, <2>1 DEF HeldInv, Claimables, Events
  <2> QED
    BY <2>2
<1> QED
  BY <1>1, <1>2 DEF HeldInv, Claimables

\* A request: the invoice of a held payment is made when there was none.
LEMMA HeldServe ==
    ASSUME IInv, IInv', HeldInv, serve
    PROVE  HeldInv'
<1>0. PICK r : r = api.req
  OBVIOUS
<1>1. UNCHANGED <<inbound, out, queue, crashes, height, main>> /\ api.pc = "nonce"
  BY DEF serve, world, ldk
<1>2. r \in Requests
  BY <1>0 DEF IInv, OtherTypes
<1>3. CASE UNCHANGED <<held, entries>>
  BY <1>1, <1>3, QuietMain
<1>4. CASE Request(r)
  <2>1. OutGrows /\ \A h \in OfKind("held") : Forwards(h)' = Forwards(h) /\ Arrived(h)' = Arrived(h)
    BY <1>1, OutSame, ForwardsSame
  <2>2. CreditsQuiet
    <3>1. CASE entries' = entries
      BY <3>1 DEF CreditsQuiet, Credited
    <3>2. CASE r.hash \in OfKind("invoice") /\ transfer(r.node, Owner(r.hash), r.hash)
      <4>1. r.hash \notin OfKind("held")
        BY <3>2 DEF OfKind
      <4>2. entries' = entries
            \/ entries' = entries \cup {[node |-> Owner(r.hash), hash |-> r.hash, from |-> r.node]}
        BY <3>2 DEF transfer
      <4> QED
        BY <4>1, <4>2 DEF CreditsQuiet, Credited
    <3> QED
      BY <1>4, <3>1, <3>2 DEF Request, invoice, fee_invoice, offer, channel_invoice, pay, withdraw
  <2>3. CASE UNCHANGED held
    BY <1>1, <2>1, <2>2, <2>3, QuietStep
  <2>4. CASE r.op = "channel_invoice" /\ held[r.hash].st = "none" /\ held_insert(r.hash)
    <3>0. PICK h : h = r.hash
      OBVIOUS
    <3>1. h \in OfKind("held") /\ held[h].st = "none" /\ held_insert(h)
          /\ held \in [OfKind("held") -> [st : HeldStates, fid : Nat]]
      BY <1>2, <2>4, <3>0, LspConstants DEF IInv, OtherTypes
    <3>2. held'[h].st = "open" /\ held'[h].fid = 0
          /\ \A g \in OfKind("held") \ {h} : held'[g] = held[g]
      BY <3>1 DEF held_insert
    <3>3. Credited(Owner(h), h)' <=> Credited(Owner(h), h)
      BY <2>2, <3>1 DEF CreditsQuiet
    <3>4. ASSUME HeldOK(h)
          PROVE  /\ HeldRow(h)' /\ HeldTaken(h)'
                 /\ LostForwards(h)' \subseteq LostForwards(h)
                 /\ LostCredit(h)' => LostCredit(h)
                 /\ LostRefund(h)' => LostRefund(h)
      <4>1. ~AtHand(h, {"forward"}) /\ ~AtHand(h, {"claimed"}) /\ ~AtHand(h, {"credited"})
            /\ ~AtHand(h, {"settled"})
        BY <3>1, <3>4 DEF HeldOK, HeldRow, AtHand
      <4>2. Way(h)' = {} /\ Way(h) = {} /\ ~OwnCredit(h) /\ ~OwnCredit(h)'
        BY <1>1, <3>1, <3>2, <4>1 DEF Way, AtHand, OwnCredit
      <4>3. HeldRow(h)'
        BY <1>1, <3>1, <3>2, <3>3, <3>4, <4>1, <4>2 DEF HeldOK, HeldRow, AtHand, Late
      <4>4. HeldTaken(h)'
        BY <1>1, <2>1, <3>1, <3>2, <3>3, <3>4, <4>1 DEF HeldOK, HeldTaken, AtHand
      <4> QED
        BY <1>1, <2>1, <3>1, <3>2, <3>3, <4>2, <4>3, <4>4 DEF LostForwards, LostCredit, LostRefund
    <3>5. ASSUME NEW g \in OfKind("held") PROVE HeldOK(g)'
      <4>1. HeldOK(g) /\ HeldOK(h)
        BY <3>1 DEF HeldInv
      <4>2. CASE g # h
        <5>1. Untouched(g)
          BY <1>1, <2>1, <2>2, <3>2, <4>2 DEF Untouched, CreditsQuiet
        <5> QED
          BY <1>1, <2>1, <4>1, <5>1, UntouchedOK
      <4>3. CASE g = h
        <5>1. Extra(h)' <= Extra(h)
          BY <3>4, <4>1, ExtraKept
        <5>2. One(Late)' = One(Late) /\ One(Late) \in {0, 1}
          BY <1>1 DEF One, Late
        <5>3. Extra(h) \in Nat /\ crashes \in Nat /\ Extra(h)' \in Nat
          BY ExtraNat, ExtraNatNext, HeldNumbers
        <5> QED
          BY <1>1, <3>4, <4>1, <4>3, <5>1, <5>2, <5>3 DEF HeldOK
      <4> QED
        BY <4>2, <4>3
    <3> QED
      BY <1>1, <3>5 DEF HeldInv, Claimables
  <2> QED
    BY <1>4, <2>3, <2>4 DEF Request, invoice, fee_invoice, offer, channel_invoice, pay, withdraw
<1> QED
  BY <1>0, <1>3, <1>4 DEF serve, Request

\* Near the deadline h is claimed for the account, or failed.
LEMMA HeldSettleIntoAccount ==
    ASSUME IInv, IInv', HeldInv, NEW h \in OfKind("held"), settle_into_account(h)
    PROVE  HeldInv'
<1>1. UNCHANGED <<entries, out, queue, crashes, height>>
      /\ held[h].st = "claimable" /\ main.pc \notin HeldSteps /\ height + Safety >= Deadline
  BY DEF settle_into_account, Delivering, world, HeldSteps
<1>2. h \in Hashes /\ inbound \in [Hashes -> {"none", "locked", "claimed", "refunded"}]
      /\ held \in [OfKind("held") -> [st : HeldStates, fid : Nat]]
  BY HeldHashes DEF IInv, OtherTypes
<1>3. OutGrows /\ (Late' <=> Late)
      /\ \A g \in OfKind("held") : /\ Forwards(g)' = Forwards(g) /\ Arrived(g)' = Arrived(g)
                                   /\ (Credited(Owner(g), g)' <=> Credited(Owner(g), g))
  BY <1>1, OutSame, ForwardsSame DEF Credited, Late
<1>4. HeldOK(h) /\ held[h].fid = 0 /\ Way(h) = {} /\ ~OwnCredit(h) /\ inbound[h] # "none"
  BY <1>1 DEF HeldInv, HeldOK, HeldRow, HeldSteps, Way, AtHand, OwnCredit
<1>5. CASE claim_for_hash(h) /\ Go("claimed", h, 0, "none") /\ UNCHANGED held
  <2>1. main'.pc = "claimed" /\ main'.ref = h
    BY <1>5 DEF Go, Main
  <2>2. \A g \in OfKind("held") : inbound'[g] = IF g = h /\ inbound[h] = "locked" THEN "claimed" ELSE inbound[g]
    BY <1>2, <1>5, HeldHashes DEF claim_for_hash
  <2>3. inbound'[h] = "claimed" \/ Late
    BY <1>1, <1>2, <1>4, <2>2 DEF HeldOK, HeldRow
  <2>4. Way(h)' = {}
    BY <1>1, <1>5, <2>1 DEF Way, AtHand
  <2>5. HeldRow(h)'
    BY <1>1, <1>2, <1>3, <1>4, <1>5, <2>1, <2>2, <2>3, <2>4 DEF HeldOK, HeldRow, AtHand
  <2>6. HeldTaken(h)'
    BY <2>1 DEF HeldTaken, AtHand
  <2>7. LostForwards(h)' \subseteq LostForwards(h) /\ (LostCredit(h)' => LostCredit(h))
        /\ (LostRefund(h)' => LostRefund(h))
    BY <1>1, <1>3, <1>4, <1>5, <2>2, <2>4 DEF LostForwards, LostCredit, LostRefund
  <2> QED
    BY <1>1, <1>3, <1>5, <2>1, <2>2, <2>5, <2>6, <2>7, OneTouched
<1>6. CASE fail_for_hash(h) /\ held_update(h, "failed", 0) /\ Done
  <2>1. main'.pc \notin HeldSteps
    BY <1>6, DoneIs DEF HeldSteps
  <2>2. \A g \in OfKind("held") : inbound'[g] = IF g = h /\ inbound[h] = "locked" THEN "refunded" ELSE inbound[g]
    BY <1>2, <1>6, HeldHashes DEF fail_for_hash
  <2>3. held'[h].st = "failed" /\ held'[h].fid = 0 /\ \A g \in OfKind("held") \ {h} : held'[g] = held[g]
    BY <1>2, <1>6 DEF held_update
  <2>4. Way(h)' = {} /\ ~OwnCredit(h)' /\ \A P \in SUBSET HeldSteps : ~AtHand(h, P)'
    BY <2>1, <2>3 DEF Way, AtHand, OwnCredit, HeldSteps
  <2>5. inbound'[h] = "refunded" \/ crashes > 0
    BY <1>1, <1>2, <1>4, <2>2 DEF HeldOK, HeldTaken, AtHand, HeldSteps
  <2>6. HeldRow(h)'
    BY <1>1, <1>2, <1>3, <1>4, <2>1, <2>2, <2>3, <2>4, <2>5 DEF HeldOK, HeldRow, AtHand, HeldSteps
  <2>7. HeldTaken(h)'
    BY <1>1, <1>2, <1>3, <1>4, <2>1, <2>2, <2>3 DEF HeldOK, HeldTaken, AtHand, HeldSteps
  <2>8. LostForwards(h)' \subseteq LostForwards(h) /\ (LostCredit(h)' => LostCredit(h))
        /\ (LostRefund(h)' => LostRefund(h))
    BY <1>3, <1>4, <2>3, <2>4 DEF LostForwards, LostCredit, LostRefund
  <2> QED
    BY <1>1, <1>3, <2>1, <2>2, <2>3, <2>6, <2>7, <2>8, OneTouched
<1> QED
  BY <1>5, <1>6 DEF settle_into_account

\* h is on its way to the phone.
LEMMA HeldDeliver ==
    ASSUME IInv, IInv', HeldInv, NEW h \in OfKind("held"), deliver(h)
    PROVE  HeldInv'
<1>1. UNCHANGED <<entries, inbound, held, queue, crashes, height>>
      /\ held[h].st = "claimable" /\ main.pc \notin HeldSteps /\ height + Safety < Deadline
  BY DEF deliver, Delivering, ledger, world, HeldSteps
<1>2. CASE Done /\ UNCHANGED out
  <2>1. main'.pc \notin HeldSteps
    BY <1>2, DoneIs DEF HeldSteps
  <2> QED
    BY <1>1, <1>2, <2>1, QuietMain
<1>3. CASE Sent("forward", Owner(h), h, Amt(h), 0) /\ Go("forward", h, Len(out'), "none")
  <2> DEFINE x == [why |-> "forward", node |-> Owner(h), ref |-> h, amt |-> Amt(h),
                   charge |-> 0, st |-> "flying", fee |-> 0]
  <2>1. OutGrows /\ Len(out') = Len(out) + 1 /\ (\A i \in 1..Len(out) : out'[i] = out[i])
        /\ out'[Len(out')] = x
    BY <1>3, HeldHashes, SentGrows
  <2>2. x.why = "forward" /\ x.ref = h /\ out' \in Seq(Outgoing)
    BY <2>1 DEF OutGrows
  <2> HIDE DEF x
  <2>3. \A g \in OfKind("held") \ {h} : Forwards(g)' = Forwards(g)
    BY <2>1, <2>2, ForwardsSent
  <2>4. Forwards(h)' \subseteq Forwards(h) \cup {Len(out')}
    BY <2>1, <2>2, ForwardsSent
  <2>5. main'.pc = "forward" /\ main'.ref = h /\ main'.amt = Len(out')
    BY <1>3 DEF Go, Main
  <2>6. (Late' <=> Late) /\ \A g \in OfKind("held") : Credited(Owner(g), g)' <=> Credited(Owner(g), g)
    BY <1>1 DEF Credited, Late
  <2>7. ASSUME HeldOK(h)
        PROVE  /\ HeldRow(h)' /\ HeldTaken(h)'
               /\ LostForwards(h)' \subseteq LostForwards(h)
               /\ LostCredit(h)' => LostCredit(h)
               /\ LostRefund(h)' => LostRefund(h)
    <3>1. Way(h) = {} /\ Way(h)' = {Len(out')} /\ ~OwnCredit(h) /\ ~OwnCredit(h)'
      BY <1>1, <2>5 DEF HeldSteps, Way, AtHand, OwnCredit
    <3>2. Len(out') \in 1..Len(out') /\ out'[Len(out')].why = "forward" /\ out'[Len(out')].ref = h
      BY <2>1, <2>2 DEF IInv, OtherTypes
    <3>3. HeldRow(h)'
      BY <1>1, <2>5, <2>6, <2>7, <3>1, <3>2 DEF HeldOK, HeldRow, AtHand, HeldSteps
    <3>4. HeldTaken(h)'
      <4>1. Arrived(h) # {} => Arrived(h)' # {}
        BY <2>1, ArrivedStays
      <4>2. ~(height + Safety >= Deadline)
        BY <1>1, HeldNumbers
      <4>3. ~AtHand(h, {"claimed"}) /\ ~AtHand(h, {"claimed", "credited", "settled"})
        BY <1>1 DEF AtHand, HeldSteps
      <4> QED
        BY <1>1, <2>6, <2>7, <4>1, <4>2, <4>3 DEF HeldOK, HeldTaken
    <3> QED
      BY <1>1, <2>4, <2>6, <3>1, <3>3, <3>4 DEF LostForwards, LostCredit, LostRefund
  <2> QED
    BY <1>1, <2>1, <2>3, <2>5, <2>6, <2>7, OneTouched
<1> QED
  BY <1>2, <1>3 DEF deliver

\* The ledger catches up with the node.
LEMMA HeldHeldRecord ==
    ASSUME IInv, IInv', HeldInv, HeldRecord
    PROVE  HeldInv'
<1>0. PICK h : h = main.ref
  OBVIOUS
<1>1. UNCHANGED <<inbound, out, queue, crashes, height>> /\ main.pc \in HeldSteps /\ h \in OfKind("held")
  BY <1>0 DEF HeldRecord, IInv, MainInv, world, ldk, HeldSteps
<1>2. held \in [OfKind("held") -> [st : HeldStates, fid : Nat]] /\ HeldOK(h)
  BY <1>1 DEF IInv, OtherTypes, HeldInv
<1>3. OutGrows /\ (Late' <=> Late)
      /\ \A g \in OfKind("held") : Forwards(g)' = Forwards(g) /\ Arrived(g)' = Arrived(g)
  BY <1>1, OutSame, ForwardsSame DEF Late
<1>4. CASE main.pc = "claimed" /\ credit(Owner(h), h) /\ Go("credited", h, 0, "none") /\ UNCHANGED held
  <2>1. main'.pc = "credited" /\ main'.ref = h
    BY <1>4 DEF Go, Main
  <2>2. Credited(Owner(h), h)'
    <3>1. CASE Credited(Owner(h), h)
      BY <1>4, <3>1 DEF credit, Credited
    <3>2. CASE ~Credited(Owner(h), h)
      <4> DEFINE x == [node |-> Owner(h), hash |-> h, from |-> "ln"]
      <4>1. x \in entries' /\ x.node = Owner(h) /\ x.hash = h
        BY <1>4, <3>2 DEF credit
      <4> HIDE DEF x
      <4> QED
        BY <4>1 DEF Credited
    <3> QED
      BY <3>1, <3>2
  <2>3. \A g \in OfKind("held") \ {h} : Credited(Owner(g), g)' <=> Credited(Owner(g), g)
    BY <1>4 DEF credit, Credited
  <2>4. held[h].st = "claimable" /\ held[h].fid = 0 /\ Way(h) = {} /\ Way(h)' = {}
        /\ OwnCredit(h) /\ OwnCredit(h)' /\ (inbound[h] = "claimed" \/ Late)
    BY <1>0, <1>2, <1>4, <2>1 DEF HeldOK, HeldRow, Way, AtHand, OwnCredit
  <2>5. HeldRow(h)' /\ HeldTaken(h)'
    BY <1>1, <1>2, <1>3, <1>4, <2>1, <2>2, <2>4 DEF HeldOK, HeldRow, HeldTaken, AtHand
  <2>6. LostForwards(h)' \subseteq LostForwards(h) /\ (LostCredit(h)' => LostCredit(h))
        /\ (LostRefund(h)' => LostRefund(h))
    BY <1>1, <1>3, <1>4, <2>4 DEF LostForwards, LostCredit, LostRefund
  <2> QED
    BY <1>0, <1>1, <1>3, <1>4, <2>1, <2>3, <2>5, <2>6, OneTouched
<1>5. ASSUME NEW st \in HeldStates, NEW fid \in Nat, held_update(h, st, fid), Done,
             UNCHANGED <<balance, entries>>,
             \/ main.pc = "forward" /\ st = "forwarding" /\ fid = main.amt
             \/ main.pc = "credited" /\ st = "credited" /\ fid = held[h].fid
             \/ main.pc = "settled" /\ st = "done" /\ fid = held[h].fid
      PROVE  HeldInv'
  <2>1. main'.pc \notin HeldSteps
    BY <1>5, DoneIs DEF HeldSteps
  <2>2. held'[h].st = st /\ held'[h].fid = fid /\ \A g \in OfKind("held") \ {h} : held'[g] = held[g]
    BY <1>1, <1>2, <1>5 DEF held_update
  <2>3. \A g \in OfKind("held") : Credited(Owner(g), g)' <=> Credited(Owner(g), g)
    BY <1>5 DEF Credited
  <2>4. Way(h)' = Way(h) /\ (OwnCredit(h)' <=> OwnCredit(h)) /\ held[h].st # "failed"
    <3>1. CASE main.pc = "forward" /\ st = "forwarding" /\ fid = main.amt
      BY <1>0, <1>2, <2>1, <2>2, <3>1 DEF HeldOK, HeldRow, Way, AtHand, OwnCredit, HeldSteps
    <3>2. CASE main.pc = "credited" /\ st = "credited" /\ fid = held[h].fid
      BY <1>0, <1>2, <2>1, <2>2, <3>2 DEF HeldOK, HeldRow, Way, AtHand, OwnCredit, HeldSteps
    <3>3. CASE main.pc = "settled" /\ st = "done" /\ fid = held[h].fid
      BY <1>0, <1>2, <2>1, <2>2, <3>3 DEF HeldOK, HeldRow, Way, AtHand, OwnCredit, HeldSteps
    <3> QED
      BY <1>5, <3>1, <3>2, <3>3
  <2>5. HeldRow(h)' /\ HeldTaken(h)'
    <3>1. CASE main.pc = "forward" /\ st = "forwarding" /\ fid = main.amt
      BY <1>0, <1>1, <1>2, <1>3, <2>1, <2>2, <2>3, <2>4, <3>1
         DEF HeldOK, HeldRow, HeldTaken, AtHand, HeldSteps
    <3>2. CASE main.pc = "credited" /\ st = "credited" /\ fid = held[h].fid
      BY <1>0, <1>1, <1>2, <1>3, <2>1, <2>2, <2>3, <2>4, <3>2
         DEF HeldOK, HeldRow, HeldTaken, AtHand, HeldSteps
    <3>3. CASE main.pc = "settled" /\ st = "done" /\ fid = held[h].fid
      BY <1>0, <1>1, <1>2, <1>3, <2>1, <2>2, <2>3, <2>4, <3>3
         DEF HeldOK, HeldRow, HeldTaken, AtHand, HeldSteps
    <3> QED
      BY <1>5, <3>1, <3>2, <3>3
  <2>6. LostForwards(h)' \subseteq LostForwards(h) /\ (LostCredit(h)' => LostCredit(h))
        /\ (LostRefund(h)' => LostRefund(h))
    BY <1>1, <1>3, <2>3, <2>4 DEF LostForwards, LostCredit, LostRefund
  <2> QED
    BY <1>0, <1>1, <1>3, <2>1, <2>2, <2>3, <2>5, <2>6, OneTouched
<1>6. (main.pc = "forward" => main.amt \in Nat) /\ held[h].fid \in Nat
      /\ {"forwarding", "credited", "done"} \subseteq HeldStates
  BY <1>1, <1>2 DEF IInv, MainInv, OtherTypes, HeldStates
<1> QED
  BY <1>0, <1>4, <1>5, <1>6 DEF HeldRecord

\* An event: of h being paid, of its forward ending, or of something else.
LEMMA HeldAccountEvent ==
    ASSUME IInv, IInv', HeldInv, account_event
    PROVE  HeldInv'
<1> DEFINE e == Head(queue)
<1>1. UNCHANGED <<out, queue, crashes, height>> /\ main.pc = "idle" /\ queue # <<>>
  BY DEF account_event, world
<1>2. e = queue[1] /\ 1 \in 1..Len(queue)
      /\ (e.kind = "received" => e.ref \in Hashes)
      /\ (e.kind = "claimable" => e.ref \in OfKind("held"))
  BY <1>1, HeadOfQueue
<1>3. held \in [OfKind("held") -> [st : HeldStates, fid : Nat]]
      /\ inbound \in [Hashes -> {"none", "locked", "claimed", "refunded"}]
  BY DEF IInv, OtherTypes
<1> HIDE DEF e
<1>4. OutGrows /\ (Late' <=> Late)
      /\ \A g \in OfKind("held") : Forwards(g)' = Forwards(g) /\ Arrived(g)' = Arrived(g)
  BY <1>1, OutSame, ForwardsSame DEF Late
<1>5. main.pc \notin HeldSteps /\ AckMain.pc \notin HeldSteps
  BY <1>1, IdleThreads DEF HeldSteps
<1>6. ASSUME CreditsQuiet, UNCHANGED <<held, inbound>>, main'.pc \notin HeldSteps PROVE HeldInv'
  BY <1>1, <1>4, <1>5, <1>6, QuietStep
<1>7. ASSUME UNCHANGED entries PROVE CreditsQuiet
  BY <1>7 DEF CreditsQuiet, Credited
<1>8. CASE e.kind = "received" /\ on_payment_received(e.ref)
  <2>1. UNCHANGED <<held, inbound>> /\ main' = AckMain
    BY <1>8 DEF on_payment_received
  <2>2. CreditsQuiet
    <3>1. CASE UNCHANGED entries
      BY <1>7, <3>1
    <3>2. CASE e.ref \in OfKind("invoice") \cup OfKind("offer") /\ credit(Owner(e.ref), e.ref)
      <4>1. e.ref \notin OfKind("held")
        BY <3>2 DEF OfKind
      <4>2. entries' = entries
            \/ entries' = entries \cup {[node |-> Owner(e.ref), hash |-> e.ref, from |-> "ln"]}
        BY <3>2 DEF credit
      <4> QED
        BY <4>1, <4>2 DEF CreditsQuiet, Credited
    <3> QED
      BY <1>8, <3>1, <3>2 DEF on_payment_received, on_offer_payment_received
  <2> QED
    BY <1>5, <1>6, <2>1, <2>2
<1>9. CASE e.kind = "claimable" /\ on_claimable(e.ref)
  <2>0. PICK h : h = e.ref
    OBVIOUS
  <2>1. UNCHANGED <<entries, inbound>> /\ h \in OfKind("held") /\ on_claimable(h) /\ CreditsQuiet
    BY <1>2, <1>7, <1>9, <2>0 DEF on_claimable
  <2>2. CASE held[h].st # "open"
    BY <1>5, <1>6, <2>1, <2>2 DEF on_claimable
  <2>3. CASE held[h].st = "open"
    <3>1. main'.pc = "deliver" /\ held' = [held EXCEPT ![h] = [st |-> "claimable", fid |-> 0]]
      BY <2>1, <2>3 DEF on_claimable, Main, held_update
    <3>2. held'[h].st = "claimable" /\ held'[h].fid = 0 /\ \A g \in OfKind("held") \ {h} : held'[g] = held[g]
      BY <1>3, <2>1, <3>1
    <3>3. main'.pc \notin HeldSteps
      BY <3>1 DEF HeldSteps
    <3>4. HeldOK(h) /\ inbound[h] # "none"
      BY <1>2, <1>9, <2>0, <2>1 DEF HeldInv, Claimables
    <3>5. Way(h) = {} /\ Way(h)' = {} /\ ~OwnCredit(h) /\ ~OwnCredit(h)'
      BY <1>5, <2>3, <3>2, <3>3 DEF Way, AtHand, HeldSteps, OwnCredit
    <3>6. HeldRow(h)' /\ HeldTaken(h)'
      BY <1>1, <1>4, <1>5, <2>1, <2>3, <3>2, <3>3, <3>4, <3>5
         DEF HeldOK, HeldRow, HeldTaken, AtHand, HeldSteps, CreditsQuiet
    <3>7. LostForwards(h)' \subseteq LostForwards(h) /\ (LostCredit(h)' => LostCredit(h))
          /\ (LostRefund(h)' => LostRefund(h))
      BY <1>4, <2>1, <2>3, <3>2, <3>5 DEF LostForwards, LostCredit, LostRefund, CreditsQuiet
    <3> QED
      BY <1>1, <1>4, <1>5, <2>1, <3>2, <3>3, <3>6, <3>7, OneTouched DEF CreditsQuiet
  <2> QED
    BY <2>2, <2>3
<1>10. CASE PaymentForwarded(e.ref, e.fee)
  <2>1. main'.pc = "skim" /\ UNCHANGED <<entries, held, inbound>>
    BY <1>10 DEF PaymentForwarded, Main
  <2> QED
    BY <1>6, <1>7, <2>1 DEF HeldSteps
<1>11. ASSUME NEW ok, on_delivery_result(e.ref, ok) PROVE HeldInv'
  BY <1>5, <1>6, <1>7, <1>11 DEF on_delivery_result
<1>12. ASSUME NEW ok, on_payment_resolved(e.ref, ok, e.fee) PROVE HeldInv'
  BY <1>5, <1>6, <1>7, <1>12 DEF on_payment_resolved
<1>13. CASE e.kind \in {"ok", "failed"} /\ on_forward_result(e.ref, e.kind = "ok")
  <2>0. PICK i : i = e.ref
    OBVIOUS
  <2>1. UNCHANGED entries /\ i \in 1..Len(out) /\ out[i].st = e.kind
    BY <1>2, <1>13, <2>0 DEF on_forward_result, IInv, QueueInv
  <2>2. CASE main' = AckMain /\ UNCHANGED <<held, inbound>>
    BY <1>5, <1>6, <1>7, <2>1, <2>2
  <2>3. ASSUME NEW h \in held_by_forward(i),
               IF e.kind = "ok"
               THEN claim_for_hash(h) /\ main' = Main("settled", h, i, "none", TRUE) /\ UNCHANGED held
               ELSE held_update(h, "claimable", 0) /\ main' = AckMain /\ UNCHANGED inbound
        PROVE  HeldInv'
    <3>1. h \in OfKind("held") /\ h \in Hashes /\ held[h].fid = i /\ i # 0 /\ HeldOK(h)
      BY <2>1, HeldHashes DEF held_by_forward, HeldInv
    <3>2. CreditsQuiet /\ (Credited(Owner(h), h)' <=> Credited(Owner(h), h))
      BY <1>7, <2>1, <3>1 DEF CreditsQuiet
    <3>3. held[h].st \in {"forwarding", "done"} /\ Way(h) = {i} /\ ~OwnCredit(h) /\ inbound[h] # "none"
      BY <1>5, <3>1 DEF HeldOK, HeldRow, Way, OwnCredit, AtHand, HeldSteps
    <3>4. CASE e.kind = "ok"
      <4>1. main'.pc = "settled" /\ main'.ref = h /\ UNCHANGED held
        BY <2>3, <3>4 DEF Main
      <4>2. \A g \in OfKind("held") : inbound'[g] = IF g = h /\ inbound[h] = "locked" THEN "claimed" ELSE inbound[g]
        BY <1>3, <2>3, <3>1, <3>4, HeldHashes DEF claim_for_hash
      <4>3. Way(h)' = {i} /\ ~OwnCredit(h)' /\ (inbound'[h] = "claimed" \/ Late)
        BY <1>3, <3>1, <3>3, <4>1, <4>2 DEF HeldOK, HeldRow, Way, OwnCredit, AtHand
      <4>4. i \in Arrived(h)
        BY <2>1, <3>1, <3>3, <3>4 DEF HeldOK, HeldRow, Arrived, Forwards
      <4>5. HeldRow(h)'
        BY <1>1, <1>4, <2>1, <3>1, <3>2, <3>3, <3>4, <4>1, <4>2, <4>3 DEF HeldOK, HeldRow, AtHand
      <4>6. HeldTaken(h)'
        BY <1>4, <3>1, <4>1, <4>4 DEF HeldTaken, AtHand
      <4>7. LostForwards(h)' \subseteq LostForwards(h) /\ (LostCredit(h)' => LostCredit(h))
            /\ (LostRefund(h)' => LostRefund(h))
        BY <1>4, <3>1, <3>2, <3>3, <4>1, <4>2, <4>3 DEF LostForwards, LostCredit, LostRefund
      <4> QED
        BY <1>1, <1>4, <1>5, <3>1, <3>2, <4>1, <4>2, <4>5, <4>6, <4>7, OneTouched DEF CreditsQuiet
    <3>5. CASE e.kind # "ok"
      <4>1. main' = AckMain /\ UNCHANGED inbound /\ held' = [held EXCEPT ![h] = [st |-> "claimable", fid |-> 0]]
        BY <2>3, <3>5 DEF held_update
      <4>2. held'[h].st = "claimable" /\ held'[h].fid = 0 /\ \A g \in OfKind("held") \ {h} : held'[g] = held[g]
        BY <1>3, <3>1, <4>1
      <4>3. held[h].st = "forwarding" /\ out[i].st = "failed"
        BY <1>13, <2>1, <3>1, <3>3, <3>5 DEF HeldOK, HeldRow
      <4>4. Way(h)' = {} /\ ~OwnCredit(h)' /\ i \notin Forwards(h)
        BY <1>5, <4>1, <4>2, <4>3 DEF Way, AtHand, HeldSteps, OwnCredit, Forwards
      <4>5. HeldRow(h)' /\ HeldTaken(h)'
        BY <1>1, <1>4, <1>5, <3>1, <3>2, <3>3, <4>1, <4>2, <4>3, <4>4
           DEF HeldOK, HeldRow, HeldTaken, AtHand, HeldSteps
      <4>6. LostForwards(h)' \subseteq LostForwards(h) /\ (LostCredit(h)' => LostCredit(h))
            /\ (LostRefund(h)' => LostRefund(h))
        BY <1>4, <3>1, <3>2, <3>3, <4>1, <4>2, <4>3, <4>4 DEF LostForwards, LostCredit, LostRefund
      <4> QED
        BY <1>1, <1>4, <1>5, <3>1, <3>2, <4>1, <4>2, <4>5, <4>6, OneTouched DEF CreditsQuiet
    <3> QED
      BY <3>4, <3>5
  <2> QED
    BY <1>13, <2>0, <2>2, <2>3 DEF on_forward_result
<1> QED
  BY <1>8, <1>9, <1>10, <1>11, <1>12, <1>13 DEF account_event, e

\* At the start no held payment is known.
LEMMA InitHeld ==
    ASSUME Init
    PROVE  HeldInv
<1>1. ASSUME NEW h \in OfKind("held") PROVE HeldOK(h)
  <2>1. held[h].st = "none" /\ held[h].fid = 0 /\ inbound[h] = "none" /\ out = <<>> /\ entries = {}
        /\ main.pc = "idle" /\ crashes = 0
    BY HeldHashes, IdleThreads DEF Init
  <2>2. Way(h) = {} /\ Forwards(h) = {} /\ ~Credited(Owner(h), h)
    BY <2>1 DEF Way, AtHand, Forwards, Credited
  <2>3. Extra(h) = 0
    <3>1. Cardinality(LostForwards(h)) = 0
      <4>1. LostForwards(h) = {}
        BY <2>2 DEF LostForwards
      <4> QED
        BY <4>1, FS_EmptySet
    <3>2. One(LostCredit(h)) = 0 /\ One(LostRefund(h)) = 0
      BY <2>1, <2>2 DEF One, LostCredit, LostRefund
    <3> QED
      BY <3>1, <3>2 DEF Extra
  <2>4. One(Late) \in {0, 1}
    BY DEF One
  <2> QED
    BY <2>1, <2>2, <2>3, <2>4 DEF HeldOK, HeldRow, HeldTaken, AtHand
<1>2. queue = <<>>
  BY DEF Init
<1> QED
  BY <1>1, <1>2 DEF HeldInv, Claimables

\* Every step keeps what is known of the held payments.
LEMMA NextHeld ==
    ASSUME IInv, HeldInv, [Next]_vars
    PROVE  HeldInv'
<1>0. IInv'
  BY NextInv
<1>1. CASE ApiStep
  BY <1>0, <1>1, HeldServe, QuietApi, QuietClock DEF ApiStep
<1>2. CASE MainStep
  BY <1>0, <1>2, HeldAccountEvent, QuietClock, HeldSettleIntoAccount, HeldDeliver, HeldHeldRecord,
     QuietMoves DEF MainStep
<1>3. CASE Network
  BY <1>0, <1>3, HeldPayIn, HeldResolve, QuietClock DEF Network
<1> QED
  BY <1>0, <1>1, <1>2, <1>3, QuietClock, HeldBlock, HeldCrash DEF Next

\* Where a held payment stands says how many ways it went: of the forward, the credit and the
\* refund the LSP knows of there is at most one.
LEMMA HeldOKMeansOnce ==
    ASSUME IInv, HeldInv
    PROVE  HeldOnce
<1> SUFFICES ASSUME NEW h \in OfKind("held")
             PROVE  /\ Cardinality(Forwards(h)) + One(Credited(Owner(h), h))
                          + One(inbound[h] = "refunded") <= 1 + crashes + One(Late)
                    /\ held[h].st = "done" => Arrived(h) # {} /\ (inbound[h] = "claimed" \/ Late)
                    /\ held[h].st = "credited" =>
                          Credited(Owner(h), h) /\ (inbound[h] = "claimed" \/ Late)
                    /\ held[h].st = "failed" => inbound[h] = "refunded" \/ crashes > 0
                    /\ inbound[h] = "claimed" => \/ Arrived(h) # {} \/ Credited(Owner(h), h)
                                                 \/ main.pc = "claimed" /\ main.ref = h
                                                 \/ crashes > 0 /\ held[h].st \in {"claimable", "failed"}
  BY DEF HeldOnce
<1>1. HeldOK(h)
  BY DEF HeldInv
<1>2. Way(h) = {} \/ (~OwnCredit(h) /\ held[h].st # "failed")
  BY <1>1 DEF HeldOK, HeldRow, Way, AtHand, OwnCredit
<1>3. ~(OwnCredit(h) /\ held[h].st = "failed")
  BY <1>1 DEF HeldOK, HeldRow, AtHand, OwnCredit
<1>4. Cardinality(LostForwards(h)) \in Nat /\ Cardinality(Forwards(h)) \in Nat
      /\ Cardinality(Forwards(h)) <= Cardinality(LostForwards(h)) + One(Way(h) # {})
  <2>1. IsFiniteSet(LostForwards(h)) /\ IsFiniteSet(Forwards(h))
    BY ForwardsFinite DEF LostForwards
  <2>2. Cardinality(LostForwards(h)) \in Nat /\ Cardinality(Forwards(h)) \in Nat
    BY <2>1, FS_CardinalityType
  <2>3. CASE Way(h) = {}
    <3>1. LostForwards(h) = Forwards(h)
      BY <2>3 DEF LostForwards
    <3>2. Cardinality(LostForwards(h)) = Cardinality(Forwards(h))
      BY <3>1
    <3>3. One(Way(h) # {}) = 0
      BY <2>3 DEF One
    <3> QED
      BY <2>2, <3>2, <3>3
  <2>4. CASE Way(h) # {}
    <3>1. PICK i : Way(h) = {i}
      BY <2>4, Zenon DEF Way
    <3> DEFINE T == LostForwards(h) \cup {i}
    <3>2. IsFiniteSet(T) /\ Cardinality(T) = IF i \in LostForwards(h)
                                             THEN Cardinality(LostForwards(h))
                                             ELSE Cardinality(LostForwards(h)) + 1
      BY <2>1, FS_AddElement
    <3>3. Forwards(h) \subseteq T
      BY <3>1 DEF LostForwards
    <3>4. Cardinality(Forwards(h)) <= Cardinality(T)
      BY <3>2, <3>3, FS_Subset
    <3>5. One(Way(h) # {}) = 1
      BY <2>4 DEF One
    <3> HIDE DEF T
    <3> QED
      BY <2>2, <3>2, <3>4, <3>5
  <2> QED
    BY <2>3, <2>4
<1>5. One(Credited(Owner(h), h)) <= One(LostCredit(h)) + One(OwnCredit(h))
      /\ One(inbound[h] = "refunded") <= One(LostRefund(h)) + One(held[h].st = "failed")
      /\ One(Way(h) # {}) + One(OwnCredit(h)) + One(held[h].st = "failed") <= 1
  BY <1>2, <1>3 DEF One, LostCredit, LostRefund
<1>6. /\ One(Credited(Owner(h), h)) \in {0, 1} /\ One(LostCredit(h)) \in {0, 1} /\ One(OwnCredit(h)) \in {0, 1}
      /\ One(inbound[h] = "refunded") \in {0, 1} /\ One(LostRefund(h)) \in {0, 1}
      /\ One(held[h].st = "failed") \in {0, 1} /\ One(Way(h) # {}) \in {0, 1}
      /\ One(Late) \in {0, 1} /\ crashes \in Nat
  BY HeldNumbers DEF One
<1>7. Extra(h) <= crashes + One(Late)
  BY <1>1 DEF HeldOK
<1>8. Cardinality(Forwards(h)) + One(Credited(Owner(h), h)) + One(inbound[h] = "refunded")
         <= 1 + crashes + One(Late)
  BY <1>4, <1>5, <1>6, <1>7 DEF Extra
<1>9. held[h].st = "done" => Arrived(h) # {}
  <2> SUFFICES ASSUME held[h].st = "done" PROVE Arrived(h) # {}
    OBVIOUS
  <2> DEFINE i == held[h].fid
  <2>1. i \in Way(h) /\ out[i].st = "ok"
    BY <1>1 DEF HeldOK, HeldRow, Way
  <2>2. i \in 1..Len(out) /\ out[i].why = "forward" /\ out[i].ref = h
    BY <1>1, <2>1 DEF HeldOK, HeldRow
  <2>3. i \in Arrived(h)
    BY <2>1, <2>2 DEF Arrived, Forwards
  <2> QED
    BY <2>3
<1> QED
  BY <1>1, <1>8, <1>9 DEF HeldOK, HeldRow, HeldTaken, AtHand

\* A held payment goes one way - to the phone, to the account or back to its payer - and at most
\* one more for every stop of the process and for its payer's deadline: deliver,
\* on_forward_result and settle_into_account, with the node's calls and the ledger's apart.
THEOREM HeldGoesOneWay == Spec => []HeldOnce
<1>1. Init => HeldInv
  BY InitHeld
<1>2. IInv /\ HeldInv /\ [Next]_vars => HeldInv'
  BY NextHeld
<1>3. IInv /\ HeldInv => HeldOnce
  BY HeldOKMeansOnce
<1> QED
  BY <1>1, <1>2, <1>3, Invariance, PTL DEF Spec

-----------------------------------------------------------------------------
(* What an account was debited is what left for it                         *)

\* Payments credited or given add up.
LEMMA PaidAdd ==
    ASSUME NEW E, IsFiniteSet(E), NEW e, e \notin E, \A y \in E \cup {e} : y.hash \in Hashes
    PROVE  PaidIn(E) \in Int /\ PaidIn(E \cup {e}) = PaidIn(E) + Amt(e.hash)
<1> DEFINE f == [y \in E \cup {e} |-> Amt(y.hash)]
           g == [y \in E |-> Amt(y.hash)]
<1>1. PaidIn(E \cup {e}) = SumFunctionOnSet(f, E \cup {e}) /\ PaidIn(E) = SumFunctionOnSet(g, E)
  BY DEF PaidIn, SumFunction
<1>2. \A y \in E \cup {e} : f[y] \in Int
  BY LspConstants
<1>3. \A y \in E : f[y] = g[y] /\ g[y] \in Int
  BY <1>2
<1>4. SumFunctionOnSet(f, E) = SumFunctionOnSet(g, E)
  BY <1>3, SumSame
<1>5. SumFunctionOnSet(f, E \cup {e}) = SumFunctionOnSet(f, E) + f[e]
  BY <1>2, SumAdd
<1>6. SumFunctionOnSet(g, E) \in Int
  BY <1>3, SumInt
<1> QED
  BY <1>1, <1>4, <1>5, <1>6

\* What was credited or given is an amount.
LEMMA PaidInt ==
    ASSUME NEW E, IsFiniteSet(E), \A y \in E : y.hash \in Hashes
    PROVE  PaidIn(E) \in Int
<1> DEFINE g == [y \in E |-> Amt(y.hash)]
<1>1. PaidIn(E) = SumFunctionOnSet(g, E)
  BY DEF PaidIn, SumFunction
<1>2. \A y \in E : g[y] \in Int
  BY LspConstants
<1> QED
  BY <1>1, <1>2, SumInt

\* Only a hold that ends debits an account, and its own, whatever was credited or given.
LEMMA DebitMoves ==
    ASSUME Money, IsFiniteSet(entries), NEW n \in Nodes
    PROVE  /\ Debited(n) \in Int
           /\ UNCHANGED <<balance, entries>> => Debited(n)' = Debited(n)
           /\ \A x, a : HoldEnded(x, a) =>
                 Debited(n)' = Debited(n) + (IF n = x.node THEN a ELSE 0)
           /\ \A m, h : PaidInto(m, h) => Debited(n)' = Debited(n)
           /\ \A m, k, h : PaidFrom(m, k, h) => Debited(n)' = Debited(n)
<1>1. /\ IsFiniteSet(Credits(n)) /\ IsFiniteSet(Given(n))
      /\ \A e \in entries : e.hash \in Hashes
      /\ balance \in [Nodes -> Int]
  BY FS_Subset DEF Credits, Given, Money
<1>2. PaidIn(Credits(n)) \in Int /\ PaidIn(Given(n)) \in Int
  BY <1>1, PaidInt DEF Credits, Given
<1>3. Debited(n) \in Int
  BY <1>1, <1>2 DEF Debited
<1>4. ASSUME UNCHANGED <<balance, entries>> PROVE Debited(n)' = Debited(n)
  BY <1>4 DEF Debited, Credits, Given
<1>5. ASSUME NEW x, NEW a, HoldEnded(x, a)
      PROVE  Debited(n)' = Debited(n) + (IF n = x.node THEN a ELSE 0)
  <2>1. /\ x.node \in Nodes /\ a \in Int /\ entries' = entries
        /\ balance' = [balance EXCEPT ![x.node] = @ - a]
    BY <1>5 DEF HoldEnded, Money, Hold
  <2>2. PaidIn(Credits(n))' = PaidIn(Credits(n)) /\ PaidIn(Given(n))' = PaidIn(Given(n))
    BY <2>1 DEF Credits, Given
  <2>3. balance'[n] = balance[n] - (IF n = x.node THEN a ELSE 0) /\ balance[n] \in Int
    BY <1>1, <2>1
  <2> QED
    BY <1>2, <2>1, <2>2, <2>3 DEF Debited
<1>6. ASSUME NEW m \in Nodes, NEW h \in Hashes, NEW src, ~Credited(m, h), src \in Nodes \cup {"ln"},
             entries' = entries \cup {[node |-> m, hash |-> h, from |-> src]}
      PROVE  /\ PaidIn(Credits(n))' = PaidIn(Credits(n)) + (IF n = m THEN Amt(h) ELSE 0)
             /\ PaidIn(Given(n))' = PaidIn(Given(n)) + (IF n = src THEN Amt(h) ELSE 0)
  <2> DEFINE e == [node |-> m, hash |-> h, from |-> src]
  <2>1. e.node = m /\ e.hash = h /\ e.from = src /\ e \notin entries /\ entries' = entries \cup {e}
    BY <1>6 DEF Credited
  <2> HIDE DEF e
  <2>2. PaidIn(Credits(n))' = PaidIn(Credits(n)) + (IF n = m THEN Amt(h) ELSE 0)
    <3>1. CASE n = m
      <4>1. Credits(n)' = Credits(n) \cup {e} /\ e \notin Credits(n)
            /\ \A y \in Credits(n) \cup {e} : y.hash \in Hashes
        BY <1>1, <2>1, <3>1 DEF Credits
      <4>2. PaidIn(Credits(n) \cup {e}) = PaidIn(Credits(n)) + Amt(e.hash)
        BY <1>1, <4>1, PaidAdd
      <4>3. PaidIn(Credits(n))' = PaidIn(Credits(n) \cup {e})
        BY <4>1 DEF PaidIn
      <4> QED
        BY <2>1, <3>1, <4>2, <4>3
    <3>2. CASE n # m
      <4>1. Credits(n)' = Credits(n)
        BY <2>1, <3>2 DEF Credits
      <4>2. PaidIn(Credits(n))' = PaidIn(Credits(n))
        BY <4>1 DEF PaidIn
      <4> QED
        BY <1>2, <3>2, <4>2
    <3> QED
      BY <3>1, <3>2
  <2>3. PaidIn(Given(n))' = PaidIn(Given(n)) + (IF n = src THEN Amt(h) ELSE 0)
    <3>1. CASE n = src
      <4>1. Given(n)' = Given(n) \cup {e} /\ e \notin Given(n)
            /\ \A y \in Given(n) \cup {e} : y.hash \in Hashes
        BY <1>1, <2>1, <3>1 DEF Given
      <4>2. PaidIn(Given(n) \cup {e}) = PaidIn(Given(n)) + Amt(e.hash)
        BY <1>1, <4>1, PaidAdd
      <4>3. PaidIn(Given(n))' = PaidIn(Given(n) \cup {e})
        BY <4>1 DEF PaidIn
      <4> QED
        BY <2>1, <3>1, <4>2, <4>3
    <3>2. CASE n # src
      <4>1. Given(n)' = Given(n)
        BY <2>1, <3>2 DEF Given
      <4>2. PaidIn(Given(n))' = PaidIn(Given(n))
        BY <4>1 DEF PaidIn
      <4> QED
        BY <1>2, <3>2, <4>2
    <3> QED
      BY <3>1, <3>2
  <2> QED
    BY <2>2, <2>3
<1>7. ASSUME NEW m, NEW h, PaidInto(m, h) PROVE Debited(n)' = Debited(n)
  <2>1. m \in Nodes /\ h \in Hashes /\ ~Credited(m, h) /\ "ln" \notin Nodes
        /\ entries' = entries \cup {[node |-> m, hash |-> h, from |-> "ln"]}
        /\ balance' = [balance EXCEPT ![m] = @ + Amt(h)]
    BY <1>7, LspConstants DEF PaidInto
  <2>2. /\ PaidIn(Credits(n))' = PaidIn(Credits(n)) + (IF n = m THEN Amt(h) ELSE 0)
        /\ PaidIn(Given(n))' = PaidIn(Given(n)) + (IF n = "ln" THEN Amt(h) ELSE 0)
    BY <1>6, <2>1
  <2>3. Amt(h) \in Int /\ balance'[n] = balance[n] + (IF n = m THEN Amt(h) ELSE 0)
        /\ balance[n] \in Int
    BY <1>1, <2>1, LspConstants
  <2> QED
    BY <1>2, <2>1, <2>2, <2>3 DEF Debited
<1>8. ASSUME NEW m, NEW k, NEW h, PaidFrom(m, k, h) PROVE Debited(n)' = Debited(n)
  <2>1. m \in Nodes /\ k \in Nodes /\ m # k /\ h \in Hashes /\ ~Credited(k, h)
        /\ entries' = entries \cup {[node |-> k, hash |-> h, from |-> m]}
        /\ balance' = [balance EXCEPT ![k] = @ + Amt(h), ![m] = @ - Amt(h)]
    BY <1>8 DEF PaidFrom
  <2>2. /\ PaidIn(Credits(n))' = PaidIn(Credits(n)) + (IF n = k THEN Amt(h) ELSE 0)
        /\ PaidIn(Given(n))' = PaidIn(Given(n)) + (IF n = m THEN Amt(h) ELSE 0)
    BY <1>6, <2>1
  <2>3. Amt(h) \in Int /\ balance[n] \in Int
        /\ balance'[n] = balance[n] + (IF n = k THEN Amt(h) ELSE 0) - (IF n = m THEN Amt(h) ELSE 0)
    BY <1>1, <2>1, LspConstants
  <2> QED
    BY <1>2, <2>1, <2>2, <2>3 DEF Debited
<1> QED
  BY <1>3, <1>4, <1>5, <1>7, <1>8

\* Nothing was replayed, or no replayed event can meet a second payment of its invoice.
Exact == crashes = 0 \/ ~Retried

\* What LDK says of one of the LSP's own payments.
IsResult(e) == e.kind \in {"ok", "failed"}

\* LDK has still to tell how payment i ended, or tells it again.
Due(i) ==
    \E k \in 1..Len(queue) :
        IsResult(queue[k]) /\ queue[k].ref = i /\ ~(k = 1 /\ main.pc = "ack")
Pending(i) == out[i].st = "flying" \/ Due(i)

\* A payment for an account, and not the delivery of a held one.
IsSend(i) == out[i].why = "send"
IsMove(i) == out[i].why \in Moves
IsTask(i) == IsSend(i) \/ IsMove(i)

\* It has not been charged: the hold it is charged from is there.
Open(i) ==
    \/ IsSend(i) /\ Due(i) /\ HoldWith(SendId(out[i].ref)) # {}
    \/ IsMove(i) /\ (HoldWith(MoveId(i)) # {} \/ (main.pc = "rename" /\ main.amt = i))
Settled(i) == IsTask(i) /\ out[i].st = "ok" /\ ~Open(i)
SettledOf(n) == {i \in 1..Len(out) : out[i].node = n /\ Settled(i)}
ChargeOf(S) == SumFunction([i \in S |-> out[i].charge + out[i].fee])

\* Coins left for the request at hand and its hold is about to be spent.
Leaving(c) == api.pc = "settle" /\ c = Coins(api.req)
WithdrawnOf(n) == {c \in onchain : c.node = n /\ ~Leaving(c)}

\* The account was debited for what left and is no longer open.
Balanced(n) == Debited(n) = ChargeOf(SettledOf(n)) + SumAmt(WithdrawnOf(n))

PendingKinds == {"deliver:pending", "conv:pending"}

\* The API thread serves a request it let through, and which.
Working == api.pc \notin {"idle", "nonce"}
AtPay == api.pc \in {"pay", "unpaid"} /\ api.req.op = "pay"
AtWithdraw == api.pc \in {"withdraw", "settle", "unpaid"} /\ api.req.op = "withdraw"

\* The thread that made hold x stopped before it could end it: nobody ever will, and what
\* it stands for may have left.
Orphan(x) ==
    \/ /\ x.id[1] \in PendingKinds
       /\ ~(main.pc \in {"send", "rename"} /\ PendingId(main.how, main.ref) = x.id)
    \/ /\ x.id[1] = "withdraw"
       /\ ~(AtWithdraw /\ WithdrawId(api.req) = x.id)
Lost(n) == \E x \in HoldsOf(n) : Orphan(x)

\* Hold x pays for invoice h and any fee of it.
Covers(x, n, h) == x.node = n /\ x.base = Amt(h) /\ x.amt >= Amt(h) + MinFee

\* The event at hand is the head of the queue until it is acknowledged, and handled in
\* more than one step only if it is no result of a task.
HandInv ==
    /\ main.pc = "idle" => ~main.ev
    /\ main.pc \in {"ack", "skim"} => main.ev
    /\ main.ev => queue # <<>>
    /\ main.ev /\ main.pc # "ack" => (IsResult(queue[1]) => out[queue[1].ref].why = "forward")

\* Who is at work, what was sent and what left come of requests that were served.
ServedInv ==
    /\ IsFiniteSet(entries) /\ IsFiniteSet(onchain)
    /\ Working => api.req \in scenario.requests /\ served[api.req] >= 1 /\ (AtPay \/ AtWithdraw)
    /\ \A c \in onchain :
          c.req \in scenario.requests /\ c.req.op = "withdraw" /\ c.nth <= served[c.req]
    /\ \A i \in 1..Len(out) : IsSend(i) =>
          /\ out[i].ref \in Hashes /\ out[i].charge = Amt(out[i].ref)
          /\ \E r \in scenario.requests : r.op = "pay" /\ r.hash = out[i].ref /\ served[r] >= 1

\* A payment pays a fee only if it is a send, no invoice is paid twice, and LDK tells each
\* result once until it is acknowledged.
OutInv ==
    /\ \A i \in 1..Len(out) : out[i].fee <= MinFee /\ (IsMove(i) => out[i].fee = 0)
    /\ \A i, j \in 1..Len(out) :
          IsSend(i) /\ IsSend(j) /\ out[i].ref = out[j].ref
          /\ out[i].st # "failed" /\ out[j].st # "failed" => i = j
    /\ \A k \in 1..Len(queue) : IsResult(queue[k]) =>
          /\ queue[k].fee = out[queue[k].ref].fee
          /\ \A l \in 1..Len(queue) : IsResult(queue[l]) /\ queue[l].ref = queue[k].ref => l = k

\* The hold of a withdrawal or of a move that starts is the one its thread made.
ThreadHolds ==
    /\ \A x \in holds : x.id[1] \in PendingKinds \cup {"withdraw"} => x.node = x.id[2]
    /\ AtWithdraw => \E x \in HoldWith(WithdrawId(api.req)) : x.amt = api.req.amt
    /\ api.pc \in {"withdraw", "unpaid"} => Coins(api.req) \notin onchain
    /\ api.pc = "settle" => Coins(api.req) \in onchain
    /\ main.pc = "send" => \E x \in HoldWith(PendingId(main.how, main.ref)) : x.amt = main.amt.free
    /\ main.pc = "rename" =>
          /\ out[main.amt].node = main.ref
          /\ \E x \in HoldWith(PendingId(main.how, main.ref)) : x.amt = out[main.amt].charge

\* The hold of a move is its charge, and is there until the move ended.
MovesHeld ==
    \A i \in 1..Len(out) : IsMove(i) =>
        /\ \A x \in HoldWith(MoveId(i)) : x.node = out[i].node /\ x.amt = out[i].charge
        /\ out[i].st = "flying" => Open(i) \/ Lost(out[i].node)

HoldInv == ThreadHolds /\ MovesHeld

\* The hold of a send is the one its request made, for as long as the send is pending.
SendInv ==
    /\ AtPay =>
          /\ \E x \in HoldWith(SendId(api.req.hash)) : Covers(x, api.req.node, api.req.hash)
          /\ \A i \in 1..Len(out) : IsSend(i) /\ out[i].ref = api.req.hash => ~Pending(i)
    /\ \A i, j \in 1..Len(out) :
          IsSend(i) /\ IsSend(j) /\ out[i].ref = out[j].ref /\ Pending(i) /\ Pending(j) => i = j
    /\ \A i \in 1..Len(out) : IsSend(i) /\ Pending(i) =>
          /\ crashes = 0 \/ out[i].st = "flying" => HoldWith(SendId(out[i].ref)) # {}
          /\ \A x \in HoldWith(SendId(out[i].ref)) : Covers(x, out[i].node, out[i].ref)
    /\ ~Retried => \A i \in 1..Len(out) :
          IsSend(i) /\ ~Pending(i) => HoldWith(SendId(out[i].ref)) = {}

\* An invoice that is not asked for again is sent at most once.
OnceInv ==
    ~Retried =>
        /\ \A i, j \in 1..Len(out) : IsSend(i) /\ IsSend(j) /\ out[i].ref = out[j].ref => i = j
        /\ AtPay => \A i \in 1..Len(out) : IsSend(i) => out[i].ref # api.req.hash

\* An account is balanced unless one of its holds is nobody's.
BalanceInv == \A n \in Nodes : Lost(n) \/ Balanced(n)

ChargeInv ==
    HandInv /\ ServedInv /\ OutInv /\ OnceInv /\ HoldInv /\ (Exact => SendInv /\ BalanceInv)

\* Each payment has its type, and a set of them is finite.
LEMMA OutTyped ==
    ASSUME out \in Seq(Outgoing)
    PROVE  /\ Len(out) \in Nat
           /\ \A i \in 1..Len(out) : /\ out[i] \in Outgoing /\ out[i].charge \in Nat
                                      /\ out[i].fee \in Nat /\ out[i].node \in Nodes
           /\ \A S \in SUBSET (1..Len(out)) : IsFiniteSet(S)
<1>1. Len(out) \in Nat /\ \A i \in 1..Len(out) : out[i] \in Outgoing
  OBVIOUS
<1>2. \A i \in 1..Len(out) : out[i].charge \in Nat /\ out[i].fee \in Nat /\ out[i].node \in Nodes
  BY <1>1 DEF Outgoing
<1>3. IsFiniteSet(1..Len(out))
  BY <1>1, FS_Interval
<1>4. \A S \in SUBSET (1..Len(out)) : IsFiniteSet(S)
  BY <1>3, FS_Subset
<1> QED
  BY <1>1, <1>2, <1>4

\* A sum of charges: payments are added one by one.
LEMMA ChargeAdd ==
    ASSUME out \in Seq(Outgoing), NEW S \in SUBSET (1..Len(out)), NEW i \in 1..Len(out), i \notin S
    PROVE  /\ ChargeOf(S) \in Int
           /\ ChargeOf(S \cup {i}) = ChargeOf(S) + out[i].charge + out[i].fee
<1> DEFINE f == [j \in S \cup {i} |-> out[j].charge + out[j].fee]
           g == [j \in S |-> out[j].charge + out[j].fee]
<1>1. ChargeOf(S \cup {i}) = SumFunctionOnSet(f, S \cup {i}) /\ ChargeOf(S) = SumFunctionOnSet(g, S)
  BY DEF ChargeOf, SumFunction
<1>2. IsFiniteSet(S)
  BY OutTyped
<1>3. \A j \in 1..Len(out) : out[j].charge \in Nat /\ out[j].fee \in Nat
  BY OutTyped
<1>4. \A j \in S \cup {i} : f[j] \in Int
  BY <1>3
<1>5. \A j \in S : f[j] = g[j] /\ g[j] \in Int
  BY <1>4
<1>6. SumFunctionOnSet(f, S) = SumFunctionOnSet(g, S)
  BY <1>2, <1>5, SumSame
<1>7. SumFunctionOnSet(f, S \cup {i}) = SumFunctionOnSet(f, S) + f[i]
  BY <1>2, <1>4, SumAdd
<1>8. SumFunctionOnSet(g, S) \in Int
  BY <1>2, <1>5, SumInt
<1>9. f[i] = out[i].charge + out[i].fee /\ out[i].charge \in Nat /\ out[i].fee \in Nat
  BY <1>3
<1> HIDE DEF f, g
<1> QED
  BY <1>1, <1>6, <1>7, <1>8, <1>9

\* A sum of charges is an amount, and stays while the payments do.
LEMMA ChargeSame ==
    ASSUME out \in Seq(Outgoing), NEW S \in SUBSET (1..Len(out)),
           \A i \in S : out'[i] = out[i]
    PROVE  ChargeOf(S) \in Int /\ ChargeOf(S)' = ChargeOf(S)
<1> DEFINE f == [j \in S |-> out'[j].charge + out'[j].fee]
           g == [j \in S |-> out[j].charge + out[j].fee]
<1>1. ChargeOf(S)' = SumFunctionOnSet(f, S) /\ ChargeOf(S) = SumFunctionOnSet(g, S)
  BY DEF ChargeOf, SumFunction
<1>2. IsFiniteSet(S)
  BY OutTyped
<1>3. \A j \in S : f[j] = g[j] /\ g[j] \in Int
  BY OutTyped
<1>4. SumFunctionOnSet(f, S) = SumFunctionOnSet(g, S)
  BY <1>2, <1>3, SumSame
<1>5. SumFunctionOnSet(g, S) \in Int
  BY <1>2, <1>3, SumInt
<1> HIDE DEF f, g
<1> QED
  BY <1>1, <1>4, <1>5

\* The settled payments of an account, and what they charge, stay.
LEMMA SettledSame ==
    ASSUME out \in Seq(Outgoing), out' \in Seq(Outgoing), Len(out') >= Len(out), NEW n,
           \A i \in 1..Len(out') : i > Len(out) => out'[i].st = "flying",
           \A i \in 1..Len(out) : out'[i].node = out[i].node,
           \A i \in 1..Len(out) : out[i].node = n => /\ Settled(i)' <=> Settled(i)
                                                     /\ Settled(i) => out'[i] = out[i]
    PROVE  ChargeOf(SettledOf(n))' = ChargeOf(SettledOf(n))
<1>1. PICK S : S = SettledOf(n)
  OBVIOUS
<1>2. Len(out) \in Nat /\ Len(out') \in Nat
  OBVIOUS
<1>3. SettledOf(n)' = S
  <2>1. ASSUME NEW i, i \in SettledOf(n)' PROVE i \in S
    <3>1. i \in 1..Len(out') /\ out'[i].node = n /\ Settled(i)'
      BY <2>1 DEF SettledOf
    <3>2. out'[i].st = "ok"
      BY <3>1 DEF Settled
    <3>3. i \in 1..Len(out)
      BY <1>2, <3>1, <3>2
    <3>4. Settled(i) /\ out'[i] = out[i] /\ out[i].node = n
      BY <3>1, <3>3
    <3> QED
      BY <1>1, <3>1, <3>3, <3>4 DEF SettledOf
  <2>2. ASSUME NEW i, i \in S PROVE i \in SettledOf(n)'
    <3>1. i \in 1..Len(out) /\ out[i].node = n /\ Settled(i)
      BY <1>1, <2>2 DEF SettledOf
    <3>2. i \in 1..Len(out') /\ Settled(i)' /\ out'[i] = out[i]
      BY <1>2, <3>1
    <3> QED
      BY <3>1, <3>2 DEF SettledOf
  <2> QED
    BY <2>1, <2>2
<1>4. S \in SUBSET (1..Len(out)) /\ \A i \in S : out'[i] = out[i]
  BY <1>1 DEF SettledOf
<1>5. ChargeOf(S)' = ChargeOf(S)
  BY <1>4, ChargeSame
<1>6. ChargeOf(SettledOf(n))' = ChargeOf(S)'
  BY <1>3 DEF ChargeOf
<1> QED
  BY <1>1, <1>5, <1>6

\* Nothing settles and nothing is debited.
LEMMA BalancedSame ==
    ASSUME out \in Seq(Outgoing), out' \in Seq(Outgoing), Len(out') >= Len(out), NEW n,
           \A i \in 1..Len(out') : i > Len(out) => out'[i].st = "flying",
           \A i \in 1..Len(out) : out'[i].node = out[i].node,
           \A i \in 1..Len(out) : out[i].node = n => /\ Settled(i)' <=> Settled(i)
                                                     /\ Settled(i) => out'[i] = out[i],
           WithdrawnOf(n)' = WithdrawnOf(n),
           Debited(n)' = Debited(n), Balanced(n)
    PROVE  Balanced(n)'
<1>1. ChargeOf(SettledOf(n))' = ChargeOf(SettledOf(n))
  BY SettledSame
<1>2. SumAmt(WithdrawnOf(n))' = SumAmt(WithdrawnOf(n))
  BY DEF SumAmt
<1> QED
  BY <1>1, <1>2 DEF Balanced

\* One payment settles and its account is debited the charge and the fee.
LEMMA BalancedOut ==
    ASSUME out \in Seq(Outgoing), out' = out, NEW n \in Nodes, NEW i \in 1..Len(out),
           ~Settled(i), Settled(i)',
           \A j \in 1..Len(out) : j # i => (Settled(j)' <=> Settled(j)),
           WithdrawnOf(n)' = WithdrawnOf(n), SumAmt(WithdrawnOf(n)) \in Int,
           Debited(n)' = Debited(n) + (IF n = out[i].node THEN out[i].charge + out[i].fee ELSE 0),
           Balanced(n)
    PROVE  Balanced(n)'
<1>1. PICK S : S = SettledOf(n)
  OBVIOUS
<1>2. S \in SUBSET (1..Len(out)) /\ i \notin S /\ out[i].charge \in Nat /\ out[i].fee \in Nat
  BY <1>1, OutTyped DEF SettledOf
<1>3. SettledOf(n)' = IF n = out[i].node THEN S \cup {i} ELSE S
  BY <1>1 DEF SettledOf
<1>4. ChargeOf(SettledOf(n))' = ChargeOf(SettledOf(n)')
  BY DEF ChargeOf
<1>5. ChargeOf(S) \in Int /\ ChargeOf(S \cup {i}) = ChargeOf(S) + out[i].charge + out[i].fee
  BY <1>2, ChargeAdd
<1>6. SumAmt(WithdrawnOf(n))' = SumAmt(WithdrawnOf(n))
  BY DEF SumAmt
<1>7. Debited(n) = ChargeOf(S) + SumAmt(WithdrawnOf(n))
  BY <1>1 DEF Balanced
<1>8. CASE n = out[i].node
  BY <1>2, <1>3, <1>4, <1>5, <1>6, <1>7, <1>8 DEF Balanced
<1>9. CASE n # out[i].node
  BY <1>2, <1>3, <1>4, <1>5, <1>6, <1>7, <1>9 DEF Balanced
<1> QED
  BY <1>8, <1>9

\* The coins of one request are debited.
LEMMA BalancedCoins ==
    ASSUME out \in Seq(Outgoing), out' = out, NEW n \in Nodes, NEW r \in onchain,
           IsFiniteSet(onchain), \A q \in onchain : q.amt \in Nat,
           onchain' = onchain, Leaving(r), \A q : ~Leaving(q)',
           \A j \in 1..Len(out) : Settled(j)' <=> Settled(j),
           Debited(n)' = Debited(n) + (IF n = r.node THEN r.amt ELSE 0),
           Balanced(n)
    PROVE  Balanced(n)'
<1>1. ChargeOf(SettledOf(n))' = ChargeOf(SettledOf(n)) /\ ChargeOf(SettledOf(n)) \in Int
  <2>1. Len(out) \in Nat /\ SettledOf(n) \in SUBSET (1..Len(out))
    BY DEF SettledOf
  <2>2. PICK S : S = SettledOf(n)
    OBVIOUS
  <2>3. ChargeOf(S) \in Int
    BY <2>1, <2>2, ChargeSame
  <2>4. ChargeOf(SettledOf(n))' = ChargeOf(SettledOf(n))
    BY <2>1, SettledSame
  <2> QED
    BY <2>2, <2>3, <2>4
<1>2. IsFiniteSet(WithdrawnOf(n)) /\ \A q \in WithdrawnOf(n) : q.amt \in Nat
  BY FS_Subset DEF WithdrawnOf
<1>3. SumAmt(WithdrawnOf(n)) \in Nat
  BY <1>2, AmtNat
<1>4. SumAmt(WithdrawnOf(n))' = SumAmt(WithdrawnOf(n)')
  BY DEF SumAmt
<1>5. Debited(n) = ChargeOf(SettledOf(n)) + SumAmt(WithdrawnOf(n)) /\ r.amt \in Nat
  BY DEF Balanced
<1>6. CASE n = r.node
  <2>1. WithdrawnOf(n)' = WithdrawnOf(n) \cup {r} /\ r \notin WithdrawnOf(n)
    BY <1>6 DEF WithdrawnOf, Leaving, Coins
  <2>2. SumAmt(WithdrawnOf(n) \cup {r}) = SumAmt(WithdrawnOf(n)) + r.amt
    BY <1>2, <1>5, <2>1, AmtAdd
  <2> QED
    BY <1>1, <1>3, <1>4, <1>5, <1>6, <2>1, <2>2 DEF Balanced
<1>7. CASE n # r.node
  <2>1. WithdrawnOf(n)' = WithdrawnOf(n)
    BY <1>7 DEF WithdrawnOf, Leaving, Coins
  <2> QED
    BY <1>1, <1>3, <1>4, <1>5, <1>7, <2>1 DEF Balanced
<1> QED
  BY <1>6, <1>7

\* Orphans stay, so only the accounts that were balanced matter.
LEMMA BalanceKept ==
    ASSUME BalanceInv,
           \A x \in holds : Orphan(x) => x \in holds' /\ Orphan(x)',
           \A n \in Nodes : Balanced(n) => Balanced(n)' \/ Lost(n)'
    PROVE  BalanceInv'
<1>1. ASSUME NEW n \in Nodes, Lost(n) PROVE Lost(n)'
  BY <1>1 DEF Lost, HoldsOf
<1> QED
  BY <1>1 DEF BalanceInv

\* Unless a request is served, what was asked for again stays.
LEMMA RetriedSame ==
    ASSUME UNCHANGED <<scenario, served>>
    PROVE  Retried' <=> Retried
BY DEF Retried

\* A request that is served again makes the promise smaller.
LEMMA ExactBefore ==
    ASSUME IInv, IInv', crashes' = crashes, scenario' = scenario,
           \A r \in scenario.requests : served'[r] >= served[r]
    PROVE  (~Retried' => ~Retried) /\ (Exact' => Exact)
<1>1. \A r \in scenario.requests : served[r] \in Nat /\ served'[r] \in Nat
  BY DEF IInv, OtherTypes
<1>2. ~Retried' => ~Retried
  BY <1>1 DEF Retried
<1> QED
  BY <1>2 DEF Exact

-----------------------------------------------------------------------------
(* Steps that settle nothing                                               *)

\* No payment for an account starts or ends.
TasksSame ==
    /\ out' \in Seq(Outgoing) /\ Len(out') >= Len(out)
    /\ \A i \in 1..Len(out) : out'[i] = out[i]
    /\ \A i \in 1..Len(out') : i > Len(out) =>
          out'[i].why = "forward" /\ out'[i].fee = 0 /\ out'[i].st = "flying"

\* No result is added to LDK's queue; its head may go.
EventsKept ==
    \E d \in 0..1 : \A k \in 1..Len(queue') :
        IsResult(queue'[k]) => k + d \in 1..Len(queue) /\ queue'[k] = queue[k + d]

\* What LDK has to tell of a task is what it had to tell.
DueSame == \A i \in 1..Len(out) : IsTask(i) => (Due(i)' <=> Due(i))

\* The main thread moves no balance, or is where it was.
AtSame == main' = main \/ (main.pc \notin {"send", "rename"} /\ main'.pc \notin {"send", "rename"})

\* Unchanged payments have unchanged kinds.
LEMMA TaskKinds ==
    ASSUME IInv, TasksSame
    PROVE  /\ Len(out) \in Nat /\ Len(out') \in Nat
           /\ \A i \in 1..Len(out) : /\ i \in 1..Len(out') /\ IsSend(i)' = IsSend(i)
                                     /\ IsMove(i)' = IsMove(i) /\ MoveId(i)' = MoveId(i)
           /\ \A i \in 1..Len(out') : IsTask(i)' => i \in 1..Len(out)
<1>1. Len(out) \in Nat /\ Len(out') \in Nat /\ Len(out') >= Len(out)
  BY DEF IInv, OtherTypes, TasksSame
<1>2. ASSUME NEW i \in 1..Len(out)
      PROVE  /\ i \in 1..Len(out') /\ IsSend(i)' = IsSend(i)
             /\ IsMove(i)' = IsMove(i) /\ MoveId(i)' = MoveId(i)
  BY <1>1 DEF TasksSame, IsSend, IsMove, MoveId
<1>3. ASSUME NEW i \in 1..Len(out'), IsTask(i)' PROVE i \in 1..Len(out)
  BY <1>1, <1>3 DEF TasksSame, IsTask, IsSend, IsMove, Moves
<1> QED
  BY <1>1, <1>2, <1>3

\* The payments and the queue stay in order.
LEMMA OutKept ==
    ASSUME IInv, OutInv, TasksSame, EventsKept
    PROVE  OutInv'
<1>1. Len(out) \in Nat /\ Len(out') \in Nat /\ Len(queue) \in Nat /\ MinFee \in Nat
  BY TaskKinds, LspConstants DEF IInv, OtherTypes
<1>2. ASSUME NEW i \in 1..Len(out')
      PROVE  out'[i].fee <= MinFee /\ (IsMove(i)' => out'[i].fee = 0)
  BY <1>1, <1>2 DEF OutInv, TasksSame, IsMove
<1>3. ASSUME NEW i \in 1..Len(out'), NEW j \in 1..Len(out'),
             IsSend(i)', IsSend(j)', out'[i].ref = out'[j].ref,
             out'[i].st # "failed", out'[j].st # "failed"
      PROVE  i = j
  <2>1. i \in 1..Len(out) /\ j \in 1..Len(out) /\ IsSend(i) /\ IsSend(j)
    BY <1>3, TaskKinds DEF IsTask
  <2> QED
    BY <1>3, <2>1 DEF OutInv, TasksSame
<1>4. ASSUME NEW k \in 1..Len(queue'), IsResult(queue'[k])
      PROVE  /\ queue'[k].fee = out'[queue'[k].ref].fee
             /\ \A l \in 1..Len(queue') :
                   IsResult(queue'[l]) /\ queue'[l].ref = queue'[k].ref => l = k
  <2>1. PICK d \in 0..1 : \A l \in 1..Len(queue') :
           IsResult(queue'[l]) => l + d \in 1..Len(queue) /\ queue'[l] = queue[l + d]
    BY DEF EventsKept
  <2>2. k + d \in 1..Len(queue) /\ queue'[k] = queue[k + d] /\ IsResult(queue[k + d])
    BY <1>4, <2>1
  <2>3. queue[k + d].ref \in 1..Len(out)
    BY <2>2 DEF IInv, QueueInv, IsResult
  <2>4. queue'[k].fee = out'[queue'[k].ref].fee
    BY <2>2, <2>3 DEF OutInv, TasksSame
  <2>5. ASSUME NEW l \in 1..Len(queue'), IsResult(queue'[l]), queue'[l].ref = queue'[k].ref
        PROVE  l = k
    <3>1. l + d \in 1..Len(queue) /\ queue'[l] = queue[l + d] /\ IsResult(queue[l + d])
      BY <2>1, <2>5
    <3>2. l + d = k + d
      BY <2>2, <2>5, <3>1 DEF OutInv
    <3> QED
      BY <2>1, <3>2
  <2> QED
    BY <2>4, <2>5
<1> QED
  BY <1>2, <1>3, <1>4 DEF OutInv

\* Nobody new is at work.
LEMMA ServedKept ==
    ASSUME IInv, ServedInv, TasksSame, IsFiniteSet(entries'),
           scenario' = scenario, served' = served, onchain' = onchain,
           Working' => Working /\ api'.req = api.req /\ (AtPay \/ AtWithdraw)'
    PROVE  ServedInv'
<1>1. ASSUME NEW i \in 1..Len(out'), IsSend(i)'
      PROVE  /\ out'[i].ref \in Hashes /\ out'[i].charge = Amt(out'[i].ref)
             /\ \E r \in scenario'.requests : r.op = "pay" /\ r.hash = out'[i].ref /\ served'[r] >= 1
  <2>1. i \in 1..Len(out) /\ IsSend(i) /\ out'[i] = out[i]
    BY <1>1, TaskKinds DEF IsTask, TasksSame
  <2> QED
    BY <2>1 DEF ServedInv
<1> QED
  BY <1>1 DEF ServedInv

\* No send is new, and nobody new is about to make one.
SendsOld ==
    /\ \A i \in 1..Len(out') : IsSend(i)' =>
          /\ i \in 1..Len(out) /\ IsSend(i) /\ out'[i].ref = out[i].ref /\ out'[i].node = out[i].node
          /\ out'[i].st = "flying" => out[i].st = "flying"
    /\ AtPay' => AtPay /\ api'.req = api.req

\* Then none is sent again.
LEMMA OnceKept ==
    ASSUME OnceInv, SendsOld, ~Retried' => ~Retried
    PROVE  OnceInv'
BY DEF OnceInv, SendsOld

\* And each keeps its hold, if no hold of a send and no result moved.
LEMMA SendKept ==
    ASSUME SendInv, SendsOld, crashes' = crashes, ~Retried' => ~Retried,
           \A h : HoldWith(SendId(h))' = HoldWith(SendId(h)),
           \A i \in 1..Len(out) : IsSend(i) => (Pending(i)' <=> Pending(i))
    PROVE  SendInv'
<1>1. ~Retried' => ~Retried
  OBVIOUS
<1>2. ASSUME AtPay'
      PROVE  /\ \E x \in HoldWith(SendId(api.req.hash))' : Covers(x, api'.req.node, api'.req.hash)
             /\ \A i \in 1..Len(out') : IsSend(i)' /\ out'[i].ref = api'.req.hash => ~Pending(i)'
  <2>1. AtPay /\ api'.req = api.req
    BY <1>2 DEF SendsOld
  <2>2. PICK h : h = api.req.hash
    OBVIOUS
  <2>3. HoldWith(SendId(api.req.hash))' = HoldWith(SendId(api.req.hash))
    BY <2>1, <2>2 DEF HoldWith, SendId
  <2> QED
    BY <2>1, <2>3 DEF SendInv, SendsOld
<1>3. \A i, j \in 1..Len(out') :
         IsSend(i)' /\ IsSend(j)' /\ out'[i].ref = out'[j].ref /\ Pending(i)' /\ Pending(j)' => i = j
  BY DEF SendInv, SendsOld
<1>4. ASSUME NEW i \in 1..Len(out'), IsSend(i)'
      PROVE  /\ Pending(i)' =>
                   /\ crashes' = 0 \/ out'[i].st = "flying" => HoldWith(SendId(out[i].ref))' # {}
                   /\ \A x \in HoldWith(SendId(out[i].ref))' : Covers(x, out'[i].node, out'[i].ref)
             /\ ~Retried' /\ ~Pending(i)' => HoldWith(SendId(out[i].ref))' = {}
  <2>1. /\ i \in 1..Len(out) /\ IsSend(i) /\ out'[i].ref = out[i].ref /\ out'[i].node = out[i].node
        /\ out'[i].st = "flying" => out[i].st = "flying"
    BY <1>4 DEF SendsOld
  <2>2. PICK h : h = out[i].ref
    OBVIOUS
  <2>3. HoldWith(SendId(out[i].ref))' = HoldWith(SendId(out[i].ref))
    BY <2>1, <2>2 DEF HoldWith, SendId
  <2> QED
    BY <1>1, <2>1, <2>3 DEF SendInv
<1> QED
  BY <1>2, <1>3, <1>4 DEF SendInv

\* Whose hold is whose stays.
LEMMA OrphanSame ==
    ASSUME AtSame, api' = api
    PROVE  \A x : Orphan(x)' <=> Orphan(x)
BY DEF AtSame, Orphan, PendingId, AtWithdraw

\* The open tasks stay open.
LEMMA OpenSame ==
    ASSUME IInv, TasksSame, DueSame, AtSame, holds' = holds
    PROVE  \A i \in 1..Len(out) : /\ Open(i)' <=> Open(i)
                                  /\ Settled(i)' <=> Settled(i)
                                  /\ IsSend(i) => (Pending(i)' <=> Pending(i))
<1> SUFFICES ASSUME NEW i \in 1..Len(out)
             PROVE  /\ Open(i)' <=> Open(i)
                    /\ Settled(i)' <=> Settled(i)
                    /\ IsSend(i) => (Pending(i)' <=> Pending(i))
  OBVIOUS
<1>1. out'[i] = out[i] /\ IsSend(i)' = IsSend(i) /\ IsMove(i)' = IsMove(i) /\ MoveId(i)' = MoveId(i)
      /\ (IsTask(i) => (Due(i)' <=> Due(i)))
  BY TaskKinds DEF TasksSame, DueSame
<1>2. (main.pc = "rename" /\ main.amt = i)' <=> (main.pc = "rename" /\ main.amt = i)
  BY DEF AtSame
<1>3. HoldWith(MoveId(i))' = HoldWith(MoveId(i))
  BY <1>1 DEF HoldWith
<1>4. HoldWith(SendId(out[i].ref))' = HoldWith(SendId(out[i].ref))
  BY <1>1 DEF HoldWith, SendId
<1>5. Open(i)' <=> Open(i)
  BY <1>1, <1>2, <1>3, <1>4 DEF Open, IsTask
<1>6. Settled(i)' <=> Settled(i)
  BY <1>1, <1>5 DEF Settled, IsTask
<1>7. IsSend(i) => (Pending(i)' <=> Pending(i))
  BY <1>1 DEF Pending, IsTask
<1> QED
  BY <1>5, <1>6, <1>7

\* A step that touches no hold, no request and no task keeps everything.
LEMMA QuietCharge ==
    ASSUME IInv, IInv', ChargeInv, HandInv', ServedInv', TasksSame, EventsKept, DueSame, AtSame,
           UNCHANGED <<holds, api, onchain, served, scenario, crashes>>,
           \A n \in Nodes : Debited(n)' = Debited(n)
    PROVE  ChargeInv'
<1>1. OutInv'
  BY OutKept DEF ChargeInv
<1>3. \A x : Orphan(x)' <=> Orphan(x)
  BY OrphanSame
<1>4. \A n : Lost(n)' <=> Lost(n)
  BY <1>3 DEF Lost, HoldsOf
<1>5. HoldInv'
  <2>1. HoldInv /\ \A id : HoldWith(id)' = HoldWith(id)
    BY DEF ChargeInv, HoldWith
  <2>2. /\ \A x \in holds' : x.id[1] \in PendingKinds \cup {"withdraw"} => x.node = x.id[2]
        /\ AtWithdraw' => \E x \in HoldWith(WithdrawId(api.req))' : x.amt = api'.req.amt
        /\ api'.pc \in {"withdraw", "unpaid"} => Coins(api.req)' \notin onchain'
        /\ api'.pc = "settle" => Coins(api.req)' \in onchain'
    BY <2>1 DEF HoldInv, ThreadHolds, MovesHeld, AtWithdraw, HoldWith, WithdrawId, Coins
  <2>3. ASSUME main'.pc = "send"
        PROVE  \E x \in HoldWith(PendingId(main.how, main.ref))' : x.amt = main'.amt.free
    <3>1. main' = main
      BY <2>3 DEF AtSame
    <3> QED
      BY <2>1, <2>3, <3>1 DEF HoldInv, ThreadHolds, MovesHeld, HoldWith, PendingId
  <2>4. ASSUME main'.pc = "rename"
        PROVE  /\ out'[main'.amt].node = main'.ref
               /\ \E x \in HoldWith(PendingId(main.how, main.ref))' : x.amt = out'[main'.amt].charge
    <3>1. main' = main /\ main.amt \in 1..Len(out)
      BY <2>4 DEF AtSame, IInv, MainInv
    <3>2. out'[main.amt] = out[main.amt]
      BY <3>1 DEF TasksSame
    <3> QED
      BY <2>1, <2>4, <3>1, <3>2 DEF HoldInv, ThreadHolds, MovesHeld, HoldWith, PendingId
  <2>5. ASSUME NEW i \in 1..Len(out'), IsMove(i)'
        PROVE  /\ \A x \in HoldWith(MoveId(i))' : x.node = out'[i].node /\ x.amt = out'[i].charge
               /\ out'[i].st = "flying" => Open(i)' \/ Lost(out[i].node)'
    <3>1. i \in 1..Len(out) /\ IsMove(i) /\ out'[i] = out[i] /\ MoveId(i)' = MoveId(i)
      BY <2>5, TaskKinds DEF TasksSame, IsTask
    <3>2. Open(i)' <=> Open(i)
      BY <3>1, OpenSame
    <3>3. HoldWith(MoveId(i))' = HoldWith(MoveId(i))
      BY <3>1 DEF HoldWith
    <3>4. Lost(out[i].node)' <=> Lost(out[i].node)
      BY <1>3, <3>1 DEF Lost, HoldsOf
    <3> QED
      BY <2>1, <3>1, <3>2, <3>3, <3>4 DEF HoldInv, ThreadHolds, MovesHeld
  <2> QED
    BY <2>2, <2>3, <2>4, <2>5 DEF HoldInv, ThreadHolds, MovesHeld
<1>6. Exact' <=> Exact
  BY DEF Exact, Retried
<1>7. SendsOld
  BY TaskKinds DEF SendsOld, TasksSame, IsTask, AtPay
<1>8. OnceInv'
  BY <1>7, OnceKept, RetriedSame DEF ChargeInv
<1>9. ASSUME SendInv PROVE SendInv'
  <2>1. \A h : HoldWith(SendId(h))' = HoldWith(SendId(h))
    BY DEF HoldWith, SendId
  <2> QED
    BY <1>7, <1>9, <2>1, OpenSame, SendKept, RetriedSame
<1>10. ASSUME BalanceInv PROVE BalanceInv'
  <2>1. ASSUME NEW n \in Nodes, Balanced(n) PROVE Balanced(n)'
    <3>1. WithdrawnOf(n)' = WithdrawnOf(n)
      BY DEF WithdrawnOf, Leaving, Coins
    <3>2. /\ out \in Seq(Outgoing) /\ out' \in Seq(Outgoing) /\ Len(out') >= Len(out)
          /\ \A i \in 1..Len(out') : i > Len(out) => out'[i].st = "flying"
          /\ \A i \in 1..Len(out) : (Settled(i)' <=> Settled(i)) /\ out'[i] = out[i]
      BY OpenSame DEF TasksSame, IInv, OtherTypes
    <3> QED
      BY <2>1, <3>1, <3>2, BalancedSame
  <2> QED
    BY <1>4, <1>10, <2>1 DEF BalanceInv
<1> QED
  BY <1>1, <1>5, <1>6, <1>8, <1>9, <1>10 DEF ChargeInv

\* Money moves between accounts, or comes in: nobody is debited.
LEMMA DebitQuiet ==
    ASSUME IInv, ServedInv, MoneyMoves, holds' = holds
    PROVE  IsFiniteSet(entries') /\ \A n \in Nodes : Debited(n)' = Debited(n)
<1>1. Money /\ IsFiniteSet(entries)
  BY DEF IInv, ServedInv
<1>2. CASE UNCHANGED <<balance, entries>>
  BY <1>1, <1>2, DebitMoves
<1>3. ASSUME NEW x, NEW a, HoldEnded(x, a) PROVE FALSE
  BY <1>3 DEF HoldEnded
<1>4. ASSUME NEW n, NEW h, PaidInto(n, h)
      PROVE  IsFiniteSet(entries') /\ \A m \in Nodes : Debited(m)' = Debited(m)
  <2>1. IsFiniteSet(entries')
    BY <1>1, <1>4, FS_AddElement DEF PaidInto
  <2> QED
    BY <1>1, <1>4, <2>1, DebitMoves
<1>5. ASSUME NEW m, NEW n, NEW h, PaidFrom(m, n, h)
      PROVE  IsFiniteSet(entries') /\ \A k \in Nodes : Debited(k)' = Debited(k)
  <2>1. IsFiniteSet(entries')
    BY <1>1, <1>5, FS_AddElement DEF PaidFrom
  <2> QED
    BY <1>1, <1>5, <2>1, DebitMoves
<1> QED
  BY <1>2, <1>3, <1>4, <1>5 DEF MoneyMoves, Booked, HoldMade, HoldRenamed

\* Payments that do not change, or a held payment sent on.
LEMMA TasksOut ==
    ASSUME IInv, out' = out
    PROVE  TasksSame
BY DEF IInv, OtherTypes, TasksSame

\* The queue does not change, or an event that is no result joins it.
LEMMA QueueSame ==
    ASSUME IInv, queue' = queue
    PROVE  EventsKept
<1>1. Len(queue) \in Nat
  BY DEF IInv, OtherTypes
<1>2. \A k \in 1..Len(queue') : k + 0 \in 1..Len(queue) /\ queue'[k] = queue[k + 0]
  BY <1>1
<1> QED
  BY <1>2 DEF EventsKept

LEMMA QueueGrows ==
    ASSUME IInv, HandInv, NEW e, ~IsResult(e), queue' = Append(queue, e), main' = main, out' = out
    PROVE  EventsKept /\ DueSame /\ HandInv'
<1>1. queue \in Seq(Events) /\ Len(queue) \in Nat
  BY DEF IInv, OtherTypes
<1>2. /\ Len(queue') = Len(queue) + 1 /\ queue'[Len(queue) + 1] = e
      /\ \A k \in 1..Len(queue) : queue'[k] = queue[k]
  BY <1>1
<1>3. EventsKept
  <2>1. \A k \in 1..Len(queue') :
           IsResult(queue'[k]) => k + 0 \in 1..Len(queue) /\ queue'[k] = queue[k + 0]
    BY <1>1, <1>2
  <2> QED
    BY <2>1 DEF EventsKept
<1>4. DueSame
  BY <1>1, <1>2 DEF DueSame, Due
<1>5. HandInv'
  <2>1. ASSUME queue # <<>> PROVE queue' # <<>> /\ queue'[1] = queue[1]
    BY <1>1, <1>2, <2>1
  <2> QED
    BY <2>1 DEF HandInv
<1> QED
  BY <1>3, <1>4, <1>5

\* The event at hand is no result of a task.
HeadOther == queue # <<>> /\ (IsResult(queue[1]) => out[queue[1].ref].why = "forward")

\* The main thread goes on with an event that is no result of a task, or with none.
LEMMA MainQuiet ==
    ASSUME IInv, queue' = queue, main.pc # "ack", main'.pc = "ack" => HeadOther
    PROVE  DueSame
<1> SUFFICES ASSUME NEW i \in 1..Len(out), IsTask(i) PROVE Due(i)' <=> Due(i)
  BY DEF DueSame
<1>1. CASE main'.pc # "ack"
  BY <1>1 DEF Due
<1>2. CASE main'.pc = "ack"
  <2>1. ~(IsResult(queue[1]) /\ queue[1].ref = i)
    BY <1>2 DEF HeadOther, IsTask, IsSend, IsMove, Moves
  <2> QED
    BY <1>2, <2>1 DEF Due
<1> QED
  BY <1>1, <1>2

\* No request is served and no payment is made.
LEMMA ServedQuiet ==
    ASSUME IInv, ServedInv, MoneyMoves, TasksSame, UNCHANGED <<holds, api, onchain, served, scenario>>
    PROVE  ServedInv'
BY DebitQuiet, ServedKept DEF ServedInv, AtPay, AtWithdraw, Working

\* A main step that leaves holds, requests and tasks alone.
LEMMA QuietMainCharge ==
    ASSUME IInv, IInv', MoneyMoves, ChargeInv, HandInv', TasksSame,
           UNCHANGED <<holds, api, onchain, served, scenario, crashes, queue>>,
           main.pc \notin {"ack", "send", "rename"}, main'.pc \notin {"send", "rename"},
           main'.pc = "ack" => HeadOther
    PROVE  ChargeInv'
<1>1. EventsKept /\ DueSame /\ AtSame
  BY QueueSame, MainQuiet DEF AtSame
<1> QED
  BY <1>1, DebitQuiet, ServedQuiet, QuietCharge DEF ChargeInv

\* A step of the network or the clock, which the two threads do not see.
LEMMA ChargeClock ==
    ASSUME IInv, IInv', MoneyMoves, ChargeInv,
           (\E h \in Hashes : PayIn(h)) \/ Forwarded \/ Block \/ Second \/ UNCHANGED vars
    PROVE  ChargeInv'
<1>1. UNCHANGED <<holds, api, onchain, served, scenario, crashes, main, out>>
  BY DEF PayIn, Forwarded, Block, Second, ledger, world, ldk, vars
<1>2. TasksSame /\ AtSame
  BY <1>1, TasksOut DEF AtSame
<1>3. CASE queue' = queue
  <2>1. EventsKept /\ DueSame /\ HandInv'
    BY <1>1, <1>3, QueueSame DEF DueSame, Due, HandInv, ChargeInv
  <2> QED
    BY <1>1, <1>2, <2>1, DebitQuiet, ServedQuiet, QuietCharge DEF ChargeInv
<1>4. ASSUME NEW e, ~IsResult(e), queue' = Append(queue, e) PROVE ChargeInv'
  <2>1. EventsKept /\ DueSame /\ HandInv'
    BY <1>1, <1>4, QueueGrows DEF ChargeInv
  <2> QED
    BY <1>1, <1>2, <2>1, DebitQuiet, ServedQuiet, QuietCharge DEF ChargeInv
<1>5. ASSUME NEW h \in Hashes, PayIn(h) PROVE ChargeInv'
  <2>1. PICK k \in {"received", "claimable"} : queue' = Append(queue, Event(k, h, 0))
    BY <1>5 DEF PayIn, Emit
  <2>2. ~IsResult(Event(k, h, 0))
    BY DEF IsResult, Event
  <2> QED
    BY <1>4, <2>1, <2>2
<1>6. ASSUME Forwarded PROVE ChargeInv'
  <2>1. queue' = Append(queue, Event("forwarded", routed', MinFee))
    BY <1>6 DEF Forwarded, Emit
  <2>2. ~IsResult(Event("forwarded", routed', MinFee))
    BY DEF IsResult, Event
  <2> QED
    BY <1>4, <2>1, <2>2
<1>7. ASSUME Block \/ Second \/ UNCHANGED vars PROVE queue' = queue
  BY <1>7 DEF Block, Second, ldk, vars
<1> QED
  BY <1>3, <1>5, <1>6, <1>7

\* What Done leaves of the main thread and its event.
LEMMA DoneHand ==
    ASSUME HandInv, Done, UNCHANGED <<queue, out>>, main.pc # "ack"
    PROVE  /\ main'.pc \in {"idle", "ack"} /\ HandInv'
           /\ main'.pc = "ack" => HeadOther
<1>1. CASE main.ev
  BY <1>1, IdleThreads DEF HandInv, Done, HeadOther
<1>2. CASE ~main.ev
  BY <1>2, IdleThreads DEF HandInv, Done, HeadOther
<1> QED
  BY <1>1, <1>2

\* Held payments are no money of an account until they are credited.
LEMMA ChargeHeld ==
    ASSUME IInv, IInv', MoneyMoves, ChargeInv,
           HeldRecord \/ \E h \in OfKind("held") : settle_into_account(h) \/ deliver(h)
    PROVE  ChargeInv'
<1>1. UNCHANGED <<holds, api, onchain, served, scenario, crashes, queue>>
  BY DEF HeldRecord, settle_into_account, deliver, world, ldk, ledger
<1>2. main.pc \in {"idle", "deliver", "forward", "claimed", "credited", "settled"}
  BY DEF HeldRecord, settle_into_account, deliver, Delivering
<1>3. HandInv
  BY DEF ChargeInv
<1>4. CASE Done /\ out' = out
  <2>1. main'.pc \in {"idle", "ack"} /\ HandInv' /\ (main'.pc = "ack" => HeadOther)
    BY <1>1, <1>2, <1>3, <1>4, DoneHand
  <2> QED
    BY <1>1, <1>2, <1>4, <2>1, TasksOut, QuietMainCharge
<1>5. ASSUME NEW pc \in {"claimed", "credited", "forward"}, NEW ref, NEW amt, Go(pc, ref, amt, "none"),
             TasksSame
      PROVE  ChargeInv'
  <2>1. main'.pc = pc /\ main'.ev = main.ev
    BY <1>5 DEF Go, Main
  <2>2. HandInv'
    <3>1. ASSUME main.ev
          PROVE  queue # <<>> /\ (IsResult(queue[1]) => out'[queue[1].ref].why = "forward")
      <4>1. queue # <<>> /\ (IsResult(queue[1]) => out[queue[1].ref].why = "forward")
        BY <1>2, <1>3, <3>1 DEF HandInv
      <4>2. 1 \in 1..Len(queue)
        BY <4>1, HeadOfQueue
      <4>3. IsResult(queue[1]) => queue[1].ref \in 1..Len(out)
        BY <4>2 DEF IInv, QueueInv, IsResult
      <4> QED
        BY <1>5, <4>1, <4>3 DEF TasksSame
    <3> QED
      BY <1>1, <2>1, <3>1 DEF HandInv
  <2> QED
    BY <1>1, <1>2, <1>5, <2>1, <2>2, QuietMainCharge
<1>6. ASSUME HeldRecord PROVE ChargeInv'
  <2>1. out' = out
    BY <1>6 DEF HeldRecord, ldk
  <2>2. TasksSame
    BY <2>1, TasksOut
  <2>3. Done \/ Go("credited", main.ref, 0, "none")
    BY <1>6 DEF HeldRecord
  <2> QED
    BY <1>4, <1>5, <2>1, <2>2, <2>3
<1>7. ASSUME NEW h \in OfKind("held"), settle_into_account(h) PROVE ChargeInv'
  <2>1. out' = out
    BY <1>7 DEF settle_into_account
  <2>2. TasksSame
    BY <2>1, TasksOut
  <2>3. Done \/ Go("claimed", h, 0, "none")
    BY <1>7 DEF settle_into_account
  <2> QED
    BY <1>4, <1>5, <2>1, <2>2, <2>3
<1>8. ASSUME NEW h \in OfKind("held"), deliver(h) PROVE ChargeInv'
  <2>1. CASE Done /\ UNCHANGED out
    BY <1>4, <2>1
  <2>2. CASE Sent("forward", Owner(h), h, Amt(h), 0) /\ Go("forward", h, Len(out'), "none")
    <3>1. Owner(h) \in Nodes /\ Amt(h) \in Nat /\ h \in Hashes /\ 0 \in Nat
      BY HeldHashes
    <3>2. /\ OutGrows /\ Len(out') = Len(out) + 1
          /\ \A i \in 1..Len(out) : out'[i] = out[i]
          /\ out'[Len(out')] = [why |-> "forward", node |-> Owner(h), ref |-> h, amt |-> Amt(h),
                                charge |-> 0, st |-> "flying", fee |-> 0]
      BY <2>2, <3>1, SentGrows
    <3>3. Len(out) \in Nat
      BY DEF IInv, OtherTypes
    <3>4. TasksSame
      BY <3>2, <3>3 DEF TasksSame, OutGrows
    <3> QED
      BY <1>5, <2>2, <3>4
  <2> QED
    BY <1>8, <2>1, <2>2 DEF deliver
<1> QED
  BY <1>6, <1>7, <1>8

\* Picking an account, and reading what it has free, moves nothing.
LEMMA ChargePick ==
    ASSUME IInv, IInv', MoneyMoves, ChargeInv,
           (\E n \in Nodes : deliver_balances(n) \/ run_conversions(n))
           \/ (start_conversion /\ main'.pc \in {"hold", "idle"})
    PROVE  ChargeInv'
<1>1. UNCHANGED <<api, onchain, served, scenario, crashes, queue, out>> /\ main.pc \in {"idle", "read", "hold"}
  BY DEF deliver_balances, run_conversions, start_conversion, world, ldk
<1>2. UNCHANGED holds /\ main'.pc \in {"read", "hold", "idle"} /\ HandInv'
  <2>1. ASSUME NEW n \in Nodes, deliver_balances(n) \/ run_conversions(n)
        PROVE  UNCHANGED holds /\ main'.pc \in {"read", "hold", "idle"} /\ HandInv'
    <3>1. UNCHANGED holds /\ main.pc = "idle" /\ main'.pc = "read" /\ main'.ev = main.ev
      BY <2>1 DEF deliver_balances, run_conversions, ledger, Go, Main
    <3>2. ~main.ev
      BY <3>1 DEF ChargeInv, HandInv
    <3> QED
      BY <3>1, <3>2 DEF HandInv
  <2>2. ASSUME start_conversion, main'.pc \in {"hold", "idle"}
        PROVE  UNCHANGED holds /\ main'.pc \in {"read", "hold", "idle"} /\ HandInv'
    <3>1. UNCHANGED holds /\ ~main'.ev
      BY <2>2, IdleThreads DEF start_conversion, Main, Go
    <3> QED
      BY <2>2, <3>1 DEF HandInv
  <2> QED
    BY <2>1, <2>2
<1> QED
  BY <1>1, <1>2, TasksOut, QuietMainCharge

\* The event was handled and is acknowledged.
LEMMA ChargeHandled ==
    ASSUME IInv, IInv', MoneyMoves, ChargeInv, event_handled
    PROVE  ChargeInv'
<1>1. UNCHANGED <<holds, api, onchain, served, scenario, crashes, out>>
      /\ queue' = Tail(queue) /\ main' = IdleMain /\ main.pc = "ack"
  BY DEF event_handled, ledger, world
<1>2. queue \in Seq(Events) /\ Len(queue) \in Nat
  BY DEF IInv, OtherTypes
<1>3. /\ \A k \in 1..Len(queue') : k + 1 \in 1..Len(queue) /\ queue'[k] = queue[k + 1]
      /\ \A k \in 2..Len(queue) : k - 1 \in 1..Len(queue')
  <2>1. CASE queue = <<>>
    BY <1>1, <2>1
  <2>2. CASE queue # <<>>
    BY <1>1, <1>2, <2>2, HeadOfQueue
  <2> QED
    BY <2>1, <2>2
<1>4. EventsKept
  BY <1>3 DEF EventsKept
<1>5. DueSame
  <2>1. ASSUME NEW i, Due(i)' PROVE Due(i)
    <3>1. PICK k \in 1..Len(queue') : IsResult(queue'[k]) /\ queue'[k].ref = i
      BY <2>1 DEF Due
    <3>2. k + 1 \in 1..Len(queue) /\ IsResult(queue[k + 1]) /\ queue[k + 1].ref = i /\ k + 1 # 1
      BY <1>2, <1>3, <3>1
    <3> QED
      BY <3>2 DEF Due
  <2>2. ASSUME NEW i, Due(i) PROVE Due(i)'
    <3>1. PICK k \in 1..Len(queue) : IsResult(queue[k]) /\ queue[k].ref = i /\ k # 1
      BY <1>1, <2>2 DEF Due
    <3>2. k \in 2..Len(queue) /\ (k - 1) + 1 = k
      BY <1>2, <3>1
    <3>3. k - 1 \in 1..Len(queue') /\ queue'[k - 1] = queue[k]
      BY <1>3, <3>2
    <3>4. main'.pc # "ack"
      BY <1>1, IdleThreads
    <3> QED
      BY <3>1, <3>3, <3>4 DEF Due
  <2> QED
    BY <2>1, <2>2 DEF DueSame
<1>6. HandInv' /\ AtSame
  BY <1>1, IdleThreads DEF HandInv, AtSame
<1> QED
  BY <1>1, <1>4, <1>5, <1>6, TasksOut, DebitQuiet, ServedQuiet, QuietCharge DEF ChargeInv

-----------------------------------------------------------------------------
(* A result of one of the LSP's payments                                   *)

\* The id of the hold payment i is charged from.
ChargeId(i) == IF IsSend(i) THEN SendId(out[i].ref) ELSE MoveId(i)

\* What is left of the table when the hold with one id is taken.
LEMMA HoldsTaken ==
    ASSUME NEW id, holds' = holds \ HoldWith(id)
    PROVE  /\ HoldWith(id)' = {}
           /\ \A k : k # id => HoldWith(k)' = HoldWith(k)
           /\ \A x \in holds : x.id # id => x \in holds'
BY DEF HoldWith

\* The ids of sends and moves tell them apart from each other and from other holds.
LEMMA ChargeIds ==
    ASSUME NEW i \in 1..Len(out), IsTask(i)
    PROVE  /\ ChargeId(i)[1] \notin PendingKinds \cup {"withdraw"}
           /\ \A r : ChargeId(i) # WithdrawId(r)
           /\ IsSend(i) => ~IsMove(i) /\ ChargeId(i) = SendId(out[i].ref)
           /\ IsMove(i) => ~IsSend(i) /\ ChargeId(i) = MoveId(i)
           /\ \A j \in 1..Len(out) : IsMove(j) /\ j # i => MoveId(j) # ChargeId(i)
           /\ \A h : SendId(h) = ChargeId(i) => IsSend(i) /\ h = out[i].ref
<1>1. CASE IsSend(i)
  BY <1>1 DEF ChargeId, SendId, MoveId, WithdrawId, IsTask, IsMove, IsSend, Moves, PendingKinds
<1>2. CASE IsMove(i)
  BY <1>2 DEF ChargeId, SendId, MoveId, WithdrawId, IsTask, IsMove, IsSend, Moves, PendingKinds
<1> QED
  BY <1>1, <1>2 DEF IsTask

\* After its result is handled a payment is not due, and the others are as they were.
LEMMA DueHandled ==
    ASSUME IInv, OutInv, main.pc = "idle", queue # <<>>, IsResult(queue[1]), NEW i, i = queue[1].ref,
           UNCHANGED <<queue, out>>, main' = AckMain
    PROVE  /\ i \in 1..Len(out) /\ out[i].st = queue[1].kind /\ out[i].fee = queue[1].fee
           /\ Due(i) /\ ~Due(i)'
           /\ \A j : j # i => (Due(j)' <=> Due(j))
<1>1. 1 \in 1..Len(queue) /\ main'.pc = "ack" /\ Len(queue) \in Nat
  BY HeadOfQueue, IdleThreads DEF IInv, OtherTypes
<1>2. i \in 1..Len(out) /\ out[i].st = queue[1].kind /\ out[i].fee = queue[1].fee
  BY <1>1 DEF IInv, QueueInv, OutInv, IsResult
<1>3. Due(i)
  BY <1>1 DEF Due
<1>4. ~Due(i)'
  BY <1>1 DEF Due, OutInv
<1>5. \A j : j # i => (Due(j)' <=> Due(j))
  BY <1>1 DEF Due
<1> QED
  BY <1>2, <1>3, <1>4, <1>5

\* A result ends the hold of its payment, and the account is debited if it went through:
\* everything is kept.
LEMMA ResultCharge ==
    ASSUME IInv, IInv', ChargeInv, main.pc = "idle", queue # <<>>, IsResult(queue[1]),
           NEW i, i = queue[1].ref, IsTask(i),
           UNCHANGED <<api, onchain, served, scenario, crashes, queue, out, entries>>,
           main' = AckMain, holds' = holds \ HoldWith(ChargeId(i)),
           Exact => \A n \in Nodes :
               Debited(n)' = Debited(n) + (IF HoldWith(ChargeId(i)) # {} /\ out[i].st = "ok" /\ n = out[i].node
                                           THEN out[i].charge + out[i].fee ELSE 0)
    PROVE  ChargeInv'
<1>1. /\ i \in 1..Len(out) /\ out[i].st \in {"ok", "failed"}
      /\ Due(i) /\ ~Due(i)' /\ \A j : j # i => (Due(j)' <=> Due(j))
  BY DueHandled DEF ChargeInv, IsResult
<1>2. main'.pc = "ack" /\ main'.pc # main.pc /\ AtSame /\ TasksSame /\ EventsKept
  BY IdleThreads, TasksOut, QueueSame DEF AtSame
<1>3. PICK id : id = ChargeId(i)
  OBVIOUS
<1>4. /\ HoldWith(id)' = {} /\ \A k : k # id => HoldWith(k)' = HoldWith(k)
      /\ \A x \in holds : x.id # id => x \in holds'
      /\ holds' \subseteq holds
  BY <1>3, HoldsTaken
<1>5. /\ id[1] \notin PendingKinds \cup {"withdraw"} /\ \A r : id # WithdrawId(r)
      /\ IsSend(i) => ~IsMove(i) /\ id = SendId(out[i].ref)
      /\ IsMove(i) => ~IsSend(i) /\ id = MoveId(i)
      /\ \A j \in 1..Len(out) : IsMove(j) /\ j # i => MoveId(j) # id
      /\ \A h : SendId(h) = id => IsSend(i) /\ h = out[i].ref
  BY <1>1, <1>3, ChargeIds
<1>6. \A x : Orphan(x)' <=> Orphan(x)
  BY <1>2, OrphanSame
<1>7. \A x \in holds : Orphan(x) => x \in holds' /\ Orphan(x)'
  BY <1>4, <1>5, <1>6 DEF Orphan
<1>8. \A n : Lost(n) => Lost(n)'
  BY <1>7 DEF Lost, HoldsOf
<1>9. HandInv' /\ OutInv' /\ ServedInv' /\ OnceInv'
  <2>1. HandInv'
    BY <1>2, IdleThreads DEF HandInv
  <2>2. OutInv' /\ ServedInv'
    BY <1>2, OutKept, ServedKept DEF ChargeInv, ServedInv, AtPay, AtWithdraw, Working
  <2>3. SendsOld
    BY DEF SendsOld, IsSend, AtPay
  <2>4. OnceInv'
    BY <2>3, OnceKept, RetriedSame DEF ChargeInv
  <2> QED
    BY <2>1, <2>2, <2>4
<1>10. \A j \in 1..Len(out) : MoveId(j)' = MoveId(j) /\ IsMove(j)' = IsMove(j) /\ IsSend(j)' = IsSend(j)
  BY DEF MoveId, IsMove, IsSend
<1>11. HoldInv'
  <2>1. HoldInv
    BY DEF ChargeInv
  <2>2. /\ \A x \in holds' : x.id[1] \in PendingKinds \cup {"withdraw"} => x.node = x.id[2]
        /\ api'.pc \in {"withdraw", "unpaid"} => Coins(api.req)' \notin onchain'
        /\ api'.pc = "settle" => Coins(api.req)' \in onchain'
    BY <1>4, <2>1 DEF HoldInv, ThreadHolds, MovesHeld, Coins
  <2>3. ASSUME AtWithdraw' PROVE \E x \in HoldWith(WithdrawId(api.req))' : x.amt = api'.req.amt
    <3>1. HoldWith(WithdrawId(api.req))' = HoldWith(WithdrawId(api.req))
      <4>1. PICK k : k = WithdrawId(api.req)
        OBVIOUS
      <4>2. WithdrawId(api.req)' = k /\ k # id
        BY <1>5, <4>1 DEF WithdrawId
      <4> QED
        BY <1>4, <4>1, <4>2 DEF HoldWith
    <3> QED
      BY <2>1, <2>3, <3>1 DEF HoldInv, ThreadHolds, MovesHeld, AtWithdraw
  <2>4. ASSUME NEW j \in 1..Len(out'), IsMove(j)'
        PROVE  /\ \A x \in HoldWith(MoveId(j))' : x.node = out'[j].node /\ x.amt = out'[j].charge
               /\ out'[j].st = "flying" => Open(j)' \/ Lost(out[j].node)'
    <3>1. j \in 1..Len(out) /\ IsMove(j)
      BY <1>10, <2>4
    <3>2. HoldWith(MoveId(j))' \subseteq HoldWith(MoveId(j))
      BY <1>4, <1>10, <3>1 DEF HoldWith
    <3>3. \A x \in HoldWith(MoveId(j)) : x.node = out[j].node /\ x.amt = out[j].charge
      BY <2>1, <3>1 DEF HoldInv, ThreadHolds, MovesHeld
    <3>4. ASSUME out[j].st = "flying" PROVE Open(j)' \/ Lost(out[j].node)'
      <4>1. j # i /\ MoveId(j) # id
        BY <1>1, <1>5, <3>1, <3>4
      <4>2. HoldWith(MoveId(j))' = HoldWith(MoveId(j))
        <5>1. PICK k : k = MoveId(j)
          OBVIOUS
        <5>2. k # id /\ MoveId(j)' = k
          BY <1>10, <3>1, <4>1, <5>1
        <5> QED
          BY <1>4, <5>1, <5>2 DEF HoldWith
      <4>3. Open(j) \/ Lost(out[j].node)
        BY <2>1, <3>1, <3>4 DEF HoldInv, ThreadHolds, MovesHeld
      <4>4. Open(j) => Open(j)'
        BY <1>10, <3>1, <4>2 DEF Open, IsMove, IsSend, Moves
      <4>5. Lost(out[j].node) => Lost(out[j].node)'
        BY <1>7 DEF Lost, HoldsOf
      <4> QED
        BY <4>3, <4>4, <4>5
    <3> QED
      BY <3>2, <3>3, <3>4
  <2> QED
    BY <1>2, <2>2, <2>3, <2>4 DEF HoldInv, ThreadHolds, MovesHeld
<1>12. Exact' <=> Exact
  BY DEF Exact, Retried
<1>13. /\ \A j \in 1..Len(out) : Pending(j)' => Pending(j) /\ j # i
       /\ Pending(i)
  BY <1>1 DEF Pending
<1>14. ASSUME SendInv
       PROVE  \A j \in 1..Len(out) : IsSend(j) /\ j # i /\ Pending(j) => SendId(out[j].ref) # id
  BY <1>1, <1>5, <1>13, <1>14 DEF SendInv
<1>15. ASSUME SendInv PROVE SendInv'
  <2>1. ASSUME AtPay'
        PROVE  /\ \E x \in HoldWith(SendId(api.req.hash))' : Covers(x, api'.req.node, api'.req.hash)
               /\ \A j \in 1..Len(out') : IsSend(j)' /\ out'[j].ref = api'.req.hash => ~Pending(j)'
    <3>1. AtPay
      BY <2>1 DEF AtPay
    <3>2. PICK k : k = SendId(api.req.hash)
      OBVIOUS
    <3>3. k # id /\ SendId(api.req.hash)' = k
      BY <1>1, <1>5, <1>13, <1>15, <3>1, <3>2 DEF SendInv, SendId
    <3>4. HoldWith(SendId(api.req.hash))' = HoldWith(SendId(api.req.hash))
      BY <1>4, <3>2, <3>3 DEF HoldWith
    <3> QED
      BY <1>10, <1>13, <1>15, <3>1, <3>4 DEF SendInv
  <2>2. \A j, k \in 1..Len(out') :
           IsSend(j)' /\ IsSend(k)' /\ out'[j].ref = out'[k].ref /\ Pending(j)' /\ Pending(k)' => j = k
    BY <1>10, <1>13, <1>15 DEF SendInv
  <2>3. ASSUME NEW j \in 1..Len(out'), IsSend(j)', Pending(j)'
        PROVE  /\ crashes' = 0 \/ out'[j].st = "flying" => HoldWith(SendId(out[j].ref))' # {}
               /\ \A x \in HoldWith(SendId(out[j].ref))' : Covers(x, out'[j].node, out'[j].ref)
    <3>1. j \in 1..Len(out) /\ IsSend(j) /\ Pending(j) /\ j # i
      BY <1>10, <1>13, <2>3
    <3>2. PICK k : k = SendId(out[j].ref)
      OBVIOUS
    <3>3. k # id /\ SendId(out[j].ref)' = k
      BY <1>14, <1>15, <3>1, <3>2 DEF SendId
    <3>4. HoldWith(SendId(out[j].ref))' = HoldWith(SendId(out[j].ref))
      BY <1>4, <3>2, <3>3 DEF HoldWith
    <3> QED
      BY <1>15, <3>1, <3>4 DEF SendInv
  <2>4. ASSUME ~Retried', NEW j \in 1..Len(out'), IsSend(j)', ~Pending(j)'
        PROVE  HoldWith(SendId(out[j].ref))' = {}
    <3>1. j \in 1..Len(out) /\ IsSend(j) /\ ~Retried
      BY <1>10, <2>4 DEF Retried
    <3>2. HoldWith(SendId(out[j].ref))' \subseteq HoldWith(SendId(out[j].ref))
      BY <1>4 DEF HoldWith, SendId
    <3>3. CASE j = i
      BY <1>4, <1>5, <3>1, <3>3 DEF HoldWith, SendId
    <3>4. CASE j # i
      <4>1. ~Pending(j)
        BY <1>1, <2>4, <3>1, <3>4 DEF Pending
      <4> QED
        BY <1>15, <3>1, <3>2, <4>1 DEF SendInv
    <3> QED
      BY <3>3, <3>4
  <2> QED
    BY <2>1, <2>2, <2>3, <2>4 DEF SendInv
<1>16. ASSUME SendInv, NEW j \in 1..Len(out), j # i PROVE Settled(j)' <=> Settled(j)
  <2>1. CASE IsSend(j)
    <3>1. ASSUME Due(j)
          PROVE  HoldWith(SendId(out[j].ref))' = HoldWith(SendId(out[j].ref))
      <4>1. PICK k : k = SendId(out[j].ref)
        OBVIOUS
      <4>2. k # id /\ SendId(out[j].ref)' = k
        BY <1>14, <1>16, <2>1, <3>1, <4>1 DEF SendId, Pending
      <4> QED
        BY <1>4, <4>1, <4>2 DEF HoldWith
    <3> QED
      BY <1>1, <1>10, <1>16, <2>1, <3>1 DEF Settled, Open, IsTask, IsMove, IsSend, Moves
  <2>2. CASE IsMove(j)
    <3>1. PICK k : k = MoveId(j)
      OBVIOUS
    <3>2. k # id /\ MoveId(j)' = k
      BY <1>5, <1>10, <1>16, <2>2, <3>1
    <3>3. HoldWith(MoveId(j))' = HoldWith(MoveId(j))
      BY <1>4, <3>1, <3>2 DEF HoldWith
    <3> QED
      BY <1>2, <1>10, <2>2, <3>3 DEF Settled, Open, IsTask, IsMove, IsSend, Moves
  <2>3. CASE ~IsTask(j)
    BY <1>10, <2>3 DEF Settled, IsTask
  <2> QED
    BY <2>1, <2>2, <2>3 DEF IsTask
<1>17. /\ Open(i) <=> HoldWith(id) # {}
       /\ ~Open(i)'
  <2>1. CASE IsSend(i)
    BY <1>1, <1>5, <1>10, <2>1 DEF Open
  <2>2. CASE IsMove(i)
    <3>1. HoldWith(MoveId(i))' = {}
      BY <1>1, <1>4, <1>5, <1>10, <2>2 DEF HoldWith
    <3> QED
      BY <1>1, <1>2, <1>5, <1>10, <2>2, <3>1 DEF Open
  <2> QED
    BY <2>1, <2>2 DEF IsTask
<1>18. ASSUME Exact, SendInv, BalanceInv PROVE BalanceInv'
  <2>1. ASSUME NEW n \in Nodes, Balanced(n) PROVE Balanced(n)'
    <3>1. WithdrawnOf(n)' = WithdrawnOf(n)
      BY DEF WithdrawnOf, Leaving, Coins
    <3>2. SumAmt(WithdrawnOf(n)) \in Int
      <4>1. IsFiniteSet(WithdrawnOf(n)) /\ \A r \in WithdrawnOf(n) : r.amt \in Nat
        BY FS_Subset, LspConstants DEF WithdrawnOf, ChargeInv, ServedInv, IInv, OtherTypes
      <4> QED
        BY <4>1, AmtNat
    <3>3. out \in Seq(Outgoing) /\ Debited(n) \in Int
      BY DebitMoves DEF IInv, OtherTypes, ChargeInv, ServedInv
    <3>4. CASE HoldWith(id) # {} /\ out[i].st = "ok"
      <4>1. Debited(n)' = Debited(n) + (IF n = out[i].node THEN out[i].charge + out[i].fee ELSE 0)
        BY <1>3, <1>18, <3>4
      <4>2. ~Settled(i) /\ Settled(i)'
        BY <1>1, <1>10, <1>17, <3>4 DEF Settled, IsTask
      <4> QED
        BY <1>1, <1>16, <1>18, <2>1, <3>1, <3>2, <3>3, <4>1, <4>2, BalancedOut
    <3>5. CASE ~(HoldWith(id) # {} /\ out[i].st = "ok")
      <4>1. Debited(n)' = Debited(n)
        BY <1>3, <1>18, <3>3, <3>5
      <4>2. Settled(i)' <=> Settled(i)
        BY <1>1, <1>10, <1>17, <3>5 DEF Settled, IsTask
      <4>3. \A j \in 1..Len(out) : (Settled(j)' <=> Settled(j)) /\ out'[j] = out[j]
        BY <1>16, <1>18, <4>2
      <4>4. Len(out) \in Nat
        BY <3>3
      <4> QED
        BY <2>1, <3>1, <3>3, <4>1, <4>3, <4>4, BalancedSame
    <3> QED
      BY <3>4, <3>5
  <2> QED
    BY <1>7, <1>18, <2>1, BalanceKept
<1> QED
  BY <1>9, <1>11, <1>12, <1>15, <1>18 DEF ChargeInv

\* The smaller of two amounts, when it is known.
LEMMA MinIs ==
    ASSUME NEW a \in Nat, NEW b \in Nat, a <= b
    PROVE  Min({a, b}) = a
<1>1. a \in {a, b} /\ \A y \in {a, b} : a =< y
  OBVIOUS
<1>2. Min({a, b}) \in {a, b} /\ \A y \in {a, b} : Min({a, b}) =< y
  BY <1>1 DEF Min
<1> QED
  BY <1>2

\* A hold that ends debits its account what was asked for.
LEMMA SettleDebits ==
    ASSUME Money, IsFiniteSet(entries), NEW id, NEW x \in HoldWith(id), NEW a \in 0..x.amt,
           take_hold(id), add_balance(x.node, -a), UNCHANGED entries
    PROVE  \A n \in Nodes : Debited(n)' = Debited(n) + (IF n = x.node THEN a ELSE 0)
<1>1. x.node \in Nodes /\ x.amt \in Nat /\ balance \in [Nodes -> Int] /\ HoldWith(id) = {x}
  BY DEF HoldWith, Money, Hold
<1>2. balance' = [balance EXCEPT ![x.node] = @ - a]
  BY <1>1 DEF add_balance
<1>3. HoldEnded(x, a)
  BY <1>1, <1>2 DEF HoldEnded, take_hold, HoldWith
<1> QED
  BY <1>3, DebitMoves

\* settle_hold takes the hold and debits no more than it.
LEMMA SettleIs ==
    ASSUME Money, IsFiniteSet(entries), NEW id, NEW x \in HoldWith(id), NEW spent \in Nat,
           spent <= x.amt, settle_hold(id, spent), UNCHANGED entries
    PROVE  /\ holds' = holds \ HoldWith(id)
           /\ \A n \in Nodes : Debited(n)' = Debited(n) + (IF n = x.node THEN spent ELSE 0)
<1>1. HoldWith(id) = {x} /\ x.amt \in Nat
  BY DEF HoldWith, Money, Hold
<1>2. take_hold(id) /\ add_balance(x.node, -Min({spent, x.amt}))
  BY <1>1 DEF settle_hold
<1>3. Min({spent, x.amt}) = spent /\ spent \in 0..x.amt
  BY <1>1, MinIs
<1>4. add_balance(x.node, -spent)
  BY <1>2, <1>3
<1> QED
  BY <1>2, <1>3, <1>4, SettleDebits DEF take_hold

\* The result of a move: the hold is the charge.
LEMMA ChargeDelivery ==
    ASSUME IInv, IInv', ChargeInv, main.pc = "idle", queue # <<>>, IsResult(queue[1]),
           NEW i, i = queue[1].ref, on_delivery_result(i, queue[1].kind = "ok"),
           UNCHANGED <<api, onchain, served, scenario, crashes, queue, out>>
    PROVE  ChargeInv'
<1>1. main' = AckMain /\ UNCHANGED entries
  BY DEF on_delivery_result
<1>2. i \in 1..Len(out) /\ out[i].st = queue[1].kind
  BY <1>1, DueHandled DEF ChargeInv
<1>3. IsMove(i) /\ ~IsSend(i) /\ IsTask(i) /\ ChargeId(i) = MoveId(i)
  BY DEF on_delivery_result, IsMove, IsSend, IsTask, Moves, ChargeId
<1>4. Money /\ IsFiniteSet(entries) /\ \A n \in Nodes : Debited(n) \in Int
  BY DebitMoves DEF IInv, ChargeInv, ServedInv
<1>5. CASE HoldWith(MoveId(i)) = {}
  <2>1. UNCHANGED <<balance, holds>>
    BY <1>5 DEF on_delivery_result
  <2>2. holds' = holds \ HoldWith(ChargeId(i))
    BY <1>3, <1>5, <2>1
  <2>3. \A n \in Nodes : Debited(n)' = Debited(n)
    BY <1>1, <1>4, <2>1, DebitMoves
  <2> QED
    BY <1>1, <1>3, <1>4, <1>5, <2>2, <2>3, ResultCharge
<1>6. ASSUME NEW x \in HoldWith(MoveId(i)) PROVE ChargeInv'
  <2>1. x.node = out[i].node /\ x.amt = out[i].charge /\ out[i].fee = 0 /\ out[i].charge \in Nat
    BY <1>2, <1>3, OutTyped DEF ChargeInv, HoldInv, ThreadHolds, MovesHeld, OutInv, IInv, OtherTypes
  <2>2. HoldWith(MoveId(i)) = {x} /\ HoldWith(ChargeId(i)) # {}
    BY <1>3, <1>4 DEF Money, HoldWith
  <2>3. CASE queue[1].kind = "ok"
    <3>1. take_hold(MoveId(i)) /\ add_balance(x.node, -x.amt)
      BY <2>2, <2>3 DEF on_delivery_result, finish_conversion
    <3>2. \A n \in Nodes : Debited(n)' = Debited(n) + (IF n = x.node THEN x.amt ELSE 0)
      BY <1>1, <1>4, <2>1, <3>1, SettleDebits
    <3>3. holds' = holds \ HoldWith(ChargeId(i))
      BY <1>3, <3>1 DEF take_hold
    <3>4. \A n \in Nodes : Debited(n)' = Debited(n)
             + (IF HoldWith(ChargeId(i)) # {} /\ out[i].st = "ok" /\ n = out[i].node
                THEN out[i].charge + out[i].fee ELSE 0)
      BY <1>2, <2>1, <2>2, <2>3, <3>2
    <3> QED
      BY <1>1, <1>3, <3>3, <3>4, ResultCharge
  <2>4. CASE queue[1].kind # "ok"
    <3>1. take_hold(MoveId(i)) /\ UNCHANGED balance
      BY <2>2, <2>4 DEF on_delivery_result, abandon_conversion
    <3>2. \A n \in Nodes : Debited(n)' = Debited(n)
      BY <1>1, <1>4, <3>1, DebitMoves
    <3>3. holds' = holds \ HoldWith(ChargeId(i))
      BY <1>3, <3>1 DEF take_hold
    <3> QED
      BY <1>1, <1>2, <1>3, <1>4, <2>4, <3>2, <3>3, ResultCharge
  <2> QED
    BY <2>3, <2>4
<1> QED
  BY <1>5, <1>6

\* The result of a send: what left and its fee are within the hold.
LEMMA ChargeResolved ==
    ASSUME IInv, IInv', ChargeInv, main.pc = "idle", queue # <<>>, IsResult(queue[1]),
           NEW i, i = queue[1].ref, on_payment_resolved(i, queue[1].kind = "ok", queue[1].fee),
           UNCHANGED <<api, onchain, served, scenario, crashes, queue, out>>
    PROVE  ChargeInv'
<1>1. main' = AckMain /\ UNCHANGED entries
  BY DEF on_payment_resolved
<1>2. i \in 1..Len(out) /\ out[i].st = queue[1].kind /\ out[i].fee = queue[1].fee /\ Due(i)
  BY <1>1, DueHandled DEF ChargeInv
<1>3. IsSend(i) /\ IsTask(i) /\ ChargeId(i) = SendId(out[i].ref)
  BY DEF on_payment_resolved, IsSend, IsTask, ChargeId
<1>4. Money /\ IsFiniteSet(entries) /\ \A n \in Nodes : Debited(n) \in Int
  BY DebitMoves DEF IInv, ChargeInv, ServedInv
<1>5. PICK id : id = SendId(out[i].ref)
  OBVIOUS
<1>6. CASE HoldWith(id) = {}
  <2>1. UNCHANGED <<balance, holds>>
    BY <1>5, <1>6 DEF on_payment_resolved
  <2>2. holds' = holds \ HoldWith(ChargeId(i))
    BY <1>3, <1>5, <1>6, <2>1
  <2>3. \A n \in Nodes : Debited(n)' = Debited(n)
    BY <1>1, <1>4, <2>1, DebitMoves
  <2> QED
    BY <1>1, <1>3, <1>4, <1>5, <1>6, <2>2, <2>3, ResultCharge
<1>7. ASSUME NEW x \in HoldWith(id) PROVE ChargeInv'
  <2>1. HoldWith(id) = {x} /\ HoldWith(ChargeId(i)) # {} /\ x.amt \in Nat /\ x.base \in Nat
    BY <1>3, <1>4, <1>5 DEF Money, HoldWith, Hold
  <2>2. holds' = holds \ HoldWith(ChargeId(i))
    <3>1. ASSUME NEW s, settle_hold(id, s) PROVE holds' = holds \ HoldWith(ChargeId(i))
      BY <1>3, <1>5, <2>1, <3>1 DEF settle_hold, take_hold
    <3> QED
      BY <1>5, <2>1, <3>1 DEF on_payment_resolved, settle_send
  <2>3. ASSUME Exact
        PROVE  \A n \in Nodes : Debited(n)' = Debited(n)
                 + (IF HoldWith(ChargeId(i)) # {} /\ out[i].st = "ok" /\ n = out[i].node
                    THEN out[i].charge + out[i].fee ELSE 0)
    <3>1. Covers(x, out[i].node, out[i].ref)
      BY <1>2, <1>3, <1>5, <2>3 DEF ChargeInv, SendInv, Pending
    <3>2. out[i].ref \in Hashes /\ out[i].charge = Amt(out[i].ref) /\ out[i].fee <= MinFee
          /\ out[i].fee \in Nat /\ out[i].charge \in Nat /\ MinFee \in Nat
      BY <1>2, <1>3, OutTyped, LspConstants DEF ChargeInv, ServedInv, OutInv, IInv, OtherTypes
    <3>3. x.node = out[i].node /\ x.base = out[i].charge /\ x.base + out[i].fee <= x.amt
      BY <2>1, <3>1, <3>2 DEF Covers
    <3>4. CASE queue[1].kind = "ok"
      <4>1. settle_hold(id, x.base + out[i].fee)
        BY <1>2, <1>5, <2>1, <3>4 DEF on_payment_resolved, settle_send
      <4>2. PICK s \in Nat : s = x.base + out[i].fee
        BY <2>1, <3>2
      <4>3. settle_hold(id, s) /\ s <= x.amt
        BY <3>3, <4>1, <4>2
      <4>4. \A n \in Nodes : Debited(n)' = Debited(n) + (IF n = x.node THEN s ELSE 0)
        BY <1>1, <1>4, <4>3, SettleIs
      <4> QED
        BY <1>2, <2>1, <3>3, <3>4, <4>2, <4>4
    <3>5. CASE queue[1].kind # "ok"
      <4>1. settle_hold(id, 0) /\ 0 \in Nat /\ 0 <= x.amt
        BY <1>5, <2>1, <3>5 DEF on_payment_resolved
      <4>2. \A n \in Nodes : Debited(n)' = Debited(n) + (IF n = x.node THEN 0 ELSE 0)
        BY <1>1, <1>4, <4>1, SettleIs
      <4> QED
        BY <1>2, <1>4, <3>5, <4>2
    <3> QED
      BY <3>4, <3>5
  <2> QED
    BY <1>1, <1>3, <2>2, <2>3, ResultCharge
<1> QED
  BY <1>6, <1>7

\* Each event of LDK.
LEMMA ChargeEvent ==
    ASSUME IInv, IInv', MoneyMoves, ChargeInv, account_event
    PROVE  ChargeInv'
<1>1. UNCHANGED <<api, onchain, served, scenario, crashes, queue, out>>
      /\ main.pc = "idle" /\ queue # <<>>
  BY DEF account_event, world
<1>2. PICK e : e = queue[1] /\ e = Head(queue)
  BY <1>1, HeadOfQueue
<1>3. ASSUME UNCHANGED holds, HeadOther, main'.ev, main'.pc \in {"ack", "deliver", "settled", "skim"} PROVE ChargeInv'
  <2>1. HandInv'
    BY <1>1, <1>3 DEF HandInv, HeadOther
  <2> QED
    BY <1>1, <1>3, <2>1, TasksOut, QuietMainCharge
<1>4. ASSUME ~IsResult(e), on_payment_received(e.ref) \/ on_claimable(e.ref) \/ PaymentForwarded(e.ref, e.fee)
      PROVE  ChargeInv'
  <2>1. UNCHANGED holds /\ main'.ev /\ main'.pc \in {"ack", "deliver", "settled", "skim"}
    BY <1>4, IdleThreads DEF on_payment_received, on_claimable, PaymentForwarded, Main
  <2>2. HeadOther
    BY <1>1, <1>2, <1>4 DEF HeadOther
  <2> QED
    BY <1>3, <2>1, <2>2
<1>5. ASSUME NEW ok \in BOOLEAN, on_forward_result(e.ref, ok) PROVE ChargeInv'
  <2>1. UNCHANGED holds /\ main'.ev /\ main'.pc \in {"ack", "deliver", "settled", "skim"}
        /\ out[e.ref].why = "forward"
    BY <1>5, IdleThreads DEF on_forward_result, Main
  <2>2. HeadOther
    BY <1>1, <1>2, <2>1 DEF HeadOther
  <2> QED
    BY <1>3, <2>1, <2>2
<1>6. ASSUME IsResult(e), on_delivery_result(e.ref, e.kind = "ok") PROVE ChargeInv'
  BY <1>1, <1>2, <1>6, ChargeDelivery
<1>7. ASSUME IsResult(e), on_payment_resolved(e.ref, e.kind = "ok", e.fee) PROVE ChargeInv'
  BY <1>1, <1>2, <1>7, ChargeResolved
<1>8. (e.kind = "ok") \in BOOLEAN
  OBVIOUS
<1>9. \/ e.kind = "received" /\ on_payment_received(e.ref)
      \/ e.kind = "claimable" /\ on_claimable(e.ref)
      \/ e.kind = "forwarded" /\ PaymentForwarded(e.ref, e.fee)
      \/ /\ e.kind \in {"ok", "failed"}
         /\ \/ on_forward_result(e.ref, e.kind = "ok")
            \/ on_delivery_result(e.ref, e.kind = "ok")
            \/ on_payment_resolved(e.ref, e.kind = "ok", e.fee)
  BY <1>2, Zenon DEF account_event
<1> QED
  BY <1>4, <1>5, <1>6, <1>7, <1>8, <1>9 DEF IsResult

\* The fee skimmed for a channel is no account's.
LEMMA ChargeSkim ==
    ASSUME IInv, IInv', MoneyMoves, ChargeInv, SkimRecord
    PROVE  ChargeInv'
<1>1. UNCHANGED <<holds, api, onchain, served, scenario, crashes, queue, out>>
      /\ main.pc = "skim" /\ main' = AckMain
  BY DEF SkimRecord, world, ldk
<1>2. main.ev
  BY <1>1 DEF ChargeInv, HandInv
<1>3. HeadOther
  BY <1>1, <1>2 DEF ChargeInv, HandInv, HeadOther
<1>4. HandInv' /\ main'.pc = "ack"
  BY <1>1, <1>3, IdleThreads DEF HandInv, HeadOther
<1> QED
  BY <1>1, <1>3, <1>4, TasksOut, QuietMainCharge

-----------------------------------------------------------------------------
(* Holds that are no task's, and payments that end or start                *)

\* No hold of a send or of a move is touched.
TaskHolds == \A k : k[1] \notin PendingKinds \cup {"withdraw"} => HoldWith(k)' = HoldWith(k)

\* No hold of a move is.
MoveHolds == \A k : k[1] \in Moves => HoldWith(k)' = HoldWith(k)

\* Whoever's hold is nobody's keeps it.
OrphansStay == \A x \in holds : Orphan(x) => x \in holds' /\ Orphan(x)'

\* A move ends or stays, its thread goes on or is gone for good.
MovesOld ==
    /\ \A i \in 1..Len(out') : IsMove(i)' =>
          /\ i \in 1..Len(out) /\ out'[i].why = out[i].why
          /\ out'[i].node = out[i].node /\ out'[i].charge = out[i].charge
          /\ out'[i].st = "flying" => out[i].st = "flying"
    /\ main.pc = "rename" => main' = main \/ \E x \in holds' : x.node = main.ref /\ Orphan(x)'

LEMMA TaskIds ==
    /\ \A h : SendId(h)[1] \notin PendingKinds \cup {"withdraw"}
    /\ \A i : IsMove(i) => MoveId(i)[1] \in Moves /\ MoveId(i)[1] \notin PendingKinds \cup {"withdraw"}
BY DEF SendId, MoveId, IsMove, Moves, PendingKinds

\* An account that lost a hold does not find it again.
LEMMA LostStays ==
    ASSUME OrphansStay
    PROVE  \A n : Lost(n) => Lost(n)'
BY DEF OrphansStay, Lost, HoldsOf

\* A hold of no task is no move's.
LEMMA MovesTask ==
    ASSUME TaskHolds
    PROVE  MoveHolds
<1>1. \A w \in Moves : w \notin PendingKinds \cup {"withdraw"}
  BY DEF Moves, PendingKinds
<1> QED
  BY <1>1 DEF TaskHolds, MoveHolds

\* Then the moves keep their holds.
LEMMA MovesKept ==
    ASSUME HoldInv, MovesOld, OrphansStay, MoveHolds
    PROVE  MovesHeld'
<1> SUFFICES ASSUME NEW i \in 1..Len(out'), IsMove(i)'
             PROVE  /\ \A x \in HoldWith(MoveId(i))' : x.node = out'[i].node /\ x.amt = out'[i].charge
                    /\ out'[i].st = "flying" => Open(i)' \/ Lost(out[i].node)'
  BY DEF MovesHeld
<1>1. /\ i \in 1..Len(out) /\ out'[i].why = out[i].why
      /\ out'[i].node = out[i].node /\ out'[i].charge = out[i].charge
      /\ out'[i].st = "flying" => out[i].st = "flying"
  BY DEF MovesOld
<1>2. IsMove(i) /\ ~IsSend(i) /\ MoveId(i)' = MoveId(i)
  BY <1>1 DEF IsMove, IsSend, Moves, MoveId
<1>3. HoldWith(MoveId(i))' = HoldWith(MoveId(i))
  <2>1. PICK k : k = MoveId(i)
    OBVIOUS
  <2>2. HoldWith(k)' = HoldWith(k)
    BY <1>2, <2>1, TaskIds DEF MoveHolds
  <2> QED
    BY <1>2, <2>1, <2>2 DEF HoldWith
<1>4. /\ \A x \in HoldWith(MoveId(i)) : x.node = out[i].node /\ x.amt = out[i].charge
      /\ out[i].st = "flying" => Open(i) \/ Lost(out[i].node)
  BY <1>1, <1>2 DEF HoldInv, MovesHeld
<1>5. ASSUME Open(i) PROVE Open(i)' \/ Lost(out[i].node)'
  <2>1. CASE HoldWith(MoveId(i)) # {}
    BY <1>3, <2>1 DEF Open
  <2>2. CASE main.pc = "rename" /\ main.amt = i
    <3>1. out[i].node = main.ref
      BY <2>2 DEF HoldInv, ThreadHolds
    <3>2. CASE main' = main
      BY <2>2, <3>2 DEF Open
    <3>3. CASE \E x \in holds' : x.node = main.ref /\ Orphan(x)'
      BY <1>1, <3>1, <3>3 DEF Lost, HoldsOf
    <3> QED
      BY <2>2, <3>2, <3>3 DEF MovesOld
  <2> QED
    BY <1>2, <1>5, <2>1, <2>2 DEF Open
<1>6. Lost(out[i].node) => Lost(out[i].node)'
  BY <1>1 DEF OrphansStay, Lost, HoldsOf
<1> QED
  BY <1>1, <1>3, <1>4, <1>5, <1>6

\* Nothing settles, nothing is debited, nobody's hold is found again.
LEMMA BalanceQuiet ==
    ASSUME IInv, BalanceInv, OrphansStay,
           out' \in Seq(Outgoing), Len(out') >= Len(out),
           \A i \in 1..Len(out') : i > Len(out) => out'[i].st = "flying",
           \A i \in 1..Len(out) : out'[i] = out[i],
           \A i \in 1..Len(out) : (Settled(i)' <=> Settled(i)) \/ Lost(out[i].node)',
           \A n \in Nodes : (WithdrawnOf(n)' = WithdrawnOf(n) /\ Debited(n)' = Debited(n)) \/ Lost(n)'
    PROVE  BalanceInv'
<1>1. ASSUME NEW n \in Nodes, Balanced(n), ~Lost(n)' PROVE Balanced(n)'
  <2>1. \A i \in 1..Len(out) : out[i].node = n => (Settled(i)' <=> Settled(i))
    BY <1>1 DEF Lost, HoldsOf
  <2>2. out \in Seq(Outgoing)
    BY DEF IInv, OtherTypes
  <2> QED
    BY <1>1, <2>1, <2>2, BalancedSame
<1> QED
  BY <1>1, BalanceKept DEF OrphansStay

\* What LDK has to tell is the same while no event is being acknowledged.
LEMMA DueStays ==
    ASSUME queue' = queue, main'.pc = "ack" <=> main.pc = "ack"
    PROVE  \A i : Due(i)' <=> Due(i)
BY DEF Due

\* A task whose hold and result are untouched stays open or stays settled.
LEMMA SettledStays ==
    ASSUME IInv, TaskHolds, queue' = queue, main'.pc = "ack" <=> main.pc = "ack",
           \A i \in 1..Len(out) : out'[i] = out[i],
           main.pc = "rename" => main' = main, main'.pc = "rename" => main' = main \/ main'.amt > Len(out)
    PROVE  \A i \in 1..Len(out) : (Settled(i)' <=> Settled(i)) /\ (Pending(i)' <=> Pending(i))
<1> SUFFICES ASSUME NEW i \in 1..Len(out)
             PROVE  (Settled(i)' <=> Settled(i)) /\ (Pending(i)' <=> Pending(i))
  OBVIOUS
<1>1. Due(i)' <=> Due(i)
  BY DueStays
<1>2. out'[i] = out[i] /\ IsSend(i)' = IsSend(i) /\ IsMove(i)' = IsMove(i) /\ MoveId(i)' = MoveId(i)
  BY DEF IsSend, IsMove, MoveId
<1>3. HoldWith(SendId(out[i].ref))' = HoldWith(SendId(out[i].ref))
  <2>1. PICK k : k = SendId(out[i].ref)
    OBVIOUS
  <2>2. HoldWith(k)' = HoldWith(k)
    BY <2>1, TaskIds DEF TaskHolds
  <2> QED
    BY <1>2, <2>1, <2>2 DEF HoldWith, SendId
<1>4. IsMove(i) => HoldWith(MoveId(i))' = HoldWith(MoveId(i))
  <2>1. PICK k : k = MoveId(i)
    OBVIOUS
  <2>2. IsMove(i) => HoldWith(k)' = HoldWith(k)
    BY <2>1, TaskIds DEF TaskHolds
  <2> QED
    BY <1>2, <2>1, <2>2 DEF HoldWith
<1>5. (main.pc = "rename" /\ main.amt = i)' <=> (main.pc = "rename" /\ main.amt = i)
  <2>1. Len(out) \in Nat /\ ~(i > Len(out))
    BY DEF IInv, OtherTypes
  <2> QED
    BY <2>1
<1>6. Open(i)' <=> Open(i)
  BY <1>1, <1>2, <1>3, <1>4, <1>5 DEF Open
<1> QED
  BY <1>1, <1>2, <1>6 DEF Settled, IsTask, Pending

\* A hold that is no task's comes or goes, or an account's thread goes on.
LEMMA OtherHold ==
    ASSUME IInv, IInv', ChargeInv, HandInv', ServedInv', ThreadHolds', TaskHolds, OrphansStay,
           UNCHANGED <<out, queue, crashes>>, ~Retried' => ~Retried,
           main'.pc = "ack" <=> main.pc = "ack",
           main.pc = "rename" => main' = main, main'.pc = "rename" => main' = main,
           AtPay' => AtPay /\ api'.req = api.req,
           BalanceInv => BalanceInv' \/ \A n \in Nodes : WithdrawnOf(n)' = WithdrawnOf(n) /\ Debited(n)' = Debited(n)
    PROVE  ChargeInv'
<1>1. TasksSame /\ EventsKept
  BY TasksOut, QueueSame
<1>2. OutInv'
  BY <1>1, OutKept DEF ChargeInv
<1>3. SendsOld /\ MovesOld
  BY DEF SendsOld, MovesOld, IsSend
<1>4. OnceInv'
  BY <1>3, OnceKept DEF ChargeInv
<1>5. HoldInv'
  BY <1>3, MovesTask, MovesKept DEF ChargeInv, HoldInv
<1>6. \A i \in 1..Len(out) : (Settled(i)' <=> Settled(i)) /\ (Pending(i)' <=> Pending(i))
  BY SettledStays
<1>7. Exact' => Exact
  BY DEF Exact
<1>8. ASSUME SendInv PROVE SendInv'
  <2>1. \A h : HoldWith(SendId(h))' = HoldWith(SendId(h))
    <3> SUFFICES ASSUME NEW h PROVE HoldWith(SendId(h))' = HoldWith(SendId(h))
      OBVIOUS
    <3>1. PICK k : k = SendId(h)
      OBVIOUS
    <3>2. HoldWith(k)' = HoldWith(k)
      BY <3>1, TaskIds DEF TaskHolds
    <3> QED
      BY <3>1, <3>2 DEF HoldWith, SendId
  <2> QED
    BY <1>3, <1>6, <1>8, <2>1, SendKept
<1>9. ASSUME BalanceInv PROVE BalanceInv'
  <2>1. CASE \A n \in Nodes : WithdrawnOf(n)' = WithdrawnOf(n) /\ Debited(n)' = Debited(n)
    <3>1. out' \in Seq(Outgoing) /\ Len(out) \in Nat /\ Len(out') >= Len(out)
          /\ \A i \in 1..Len(out') : ~(i > Len(out))
      BY DEF IInv, OtherTypes
    <3> QED
      BY <1>6, <1>9, <2>1, <3>1, BalanceQuiet
  <2> QED
    BY <1>9, <2>1
<1> QED
  BY <1>2, <1>4, <1>5, <1>7, <1>8, <1>9 DEF ChargeInv

\* How a payment of ours ends, and what LDK queues.
LEMMA ResolveIs ==
    ASSUME IInv, NEW i \in 1..Len(out), Resolve(i)
    PROVE  \E k \in {"ok", "failed"}, f \in 0..MinFee :
              /\ out[i].why # "send" => f = 0
              /\ queue' = Append(queue, Event(k, i, f))
              /\ out'[i].st = k /\ out'[i].fee = f /\ out'[i].why = out[i].why
              /\ out'[i].node = out[i].node /\ out'[i].ref = out[i].ref /\ out'[i].charge = out[i].charge
<1> DEFINE Fees(o) == IF o /\ out[i].why = "send" THEN 0..MinFee ELSE {0}
<1>1. PICK o \in BOOLEAN : \E g \in Fees(o) :
         /\ out' = [out EXCEPT ![i].st = IF o THEN "ok" ELSE "failed", ![i].fee = g]
         /\ Emit(Event(IF o THEN "ok" ELSE "failed", i, g))
  BY Zenon DEF Resolve
<1>2. PICK f \in Fees(o) :
         /\ out' = [out EXCEPT ![i].st = IF o THEN "ok" ELSE "failed", ![i].fee = f]
         /\ Emit(Event(IF o THEN "ok" ELSE "failed", i, f))
  BY <1>1
<1>3. f \in 0..MinFee /\ (out[i].why # "send" => f = 0)
  BY LspConstants
<1>4. PICK k \in {"ok", "failed"} : k = IF o THEN "ok" ELSE "failed"
  OBVIOUS
<1>5. out' = [out EXCEPT ![i].st = k, ![i].fee = f] /\ queue' = Append(queue, Event(k, i, f))
  BY <1>2, <1>4 DEF Emit
<1>6. out \in Seq(Outgoing) /\ Len(out) \in Nat /\ out[i] \in Outgoing
  BY DEF IInv, OtherTypes
<1>7. out'[i] = [out[i] EXCEPT !.st = k, !.fee = f]
  <2>1. out' = [out EXCEPT ![i] = [@ EXCEPT !.st = k, !.fee = f]]
    BY <1>5, <1>6
  <2>2. PICK y : y = [out[i] EXCEPT !.st = k, !.fee = f]
    OBVIOUS
  <2>3. out' = [out EXCEPT ![i] = y] /\ i \in DOMAIN out
    BY <1>6, <2>1, <2>2
  <2> QED
    BY <2>2, <2>3
<1>8. /\ out'[i].st = k /\ out'[i].fee = f /\ out'[i].why = out[i].why
      /\ out'[i].node = out[i].node /\ out'[i].ref = out[i].ref /\ out'[i].charge = out[i].charge
  BY <1>6, <1>7 DEF Outgoing
<1> HIDE DEF Fees
<1> QED
  BY <1>3, <1>5, <1>8

\* A payment ends: it stays open, for its result is now due.
LEMMA ChargeResolve ==
    ASSUME IInv, IInv', ChargeInv, NEW i \in 1..Len(out), Resolve(i)
    PROVE  ChargeInv'
<1>1. UNCHANGED <<balance, holds, entries, onchain, served, scenario, crashes, api, main>>
      /\ out[i].st = "flying"
  BY DEF Resolve, ledger, world
<1>2. PICK k \in {"ok", "failed"}, f \in 0..MinFee :
         /\ out[i].why # "send" => f = 0
         /\ queue' = Append(queue, Event(k, i, f))
         /\ out'[i].st = k /\ out'[i].fee = f /\ out'[i].why = out[i].why
         /\ out'[i].node = out[i].node /\ out'[i].ref = out[i].ref /\ out'[i].charge = out[i].charge
  BY ResolveIs
<1>3. /\ out \in Seq(Outgoing) /\ out' \in Seq(Outgoing) /\ Len(out') = Len(out) /\ Len(out) \in Nat
      /\ \A j \in 1..Len(out) : j # i => out'[j] = out[j]
  BY ResolveOut DEF OutGrows, IInv, OtherTypes
<1>4. /\ queue \in Seq(Events) /\ Len(queue) \in Nat /\ Len(queue') = Len(queue) + 1
      /\ queue'[Len(queue) + 1] = Event(k, i, f)
      /\ \A l \in 1..Len(queue) : queue'[l] = queue[l]
  BY <1>2 DEF IInv, OtherTypes
<1>5. LET e == Event(k, i, f) IN IsResult(e) /\ e.ref = i /\ e.fee = f
  BY DEF Event, IsResult
<1>6. \A j \in 1..Len(out) : /\ IsSend(j)' = IsSend(j) /\ IsMove(j)' = IsMove(j) /\ MoveId(j)' = MoveId(j)
                             /\ out'[j].why = out[j].why /\ out'[j].ref = out[j].ref
                             /\ out'[j].node = out[j].node /\ out'[j].charge = out[j].charge
                             /\ out'[j].st \in {"flying", "failed"} => out[j].st # "ok"
                             /\ out'[j].st # "failed" => out[j].st # "failed"
                             /\ out'[j].st = "flying" => out[j].st = "flying" /\ j # i
  BY <1>1, <1>2, <1>3 DEF IsSend, IsMove, MoveId
<1>7. \A l \in 1..Len(queue) : IsResult(queue[l]) => queue[l].ref \in 1..Len(out) /\ queue[l].ref # i
  BY <1>1 DEF IInv, QueueInv, IsResult
<1>8. \A j : Due(j)' <=> (Due(j) \/ j = i)
  <2>1. main.pc = "ack" => Len(queue) # 0
    BY <1>4 DEF ChargeInv, HandInv
  <2>2. ASSUME NEW j, Due(j)' PROVE Due(j) \/ j = i
    <3>1. PICK l \in 1..Len(queue') : IsResult(queue'[l]) /\ queue'[l].ref = j /\ ~(l = 1 /\ main'.pc = "ack")
      BY <2>2 DEF Due
    <3>2. CASE l = Len(queue) + 1
      BY <1>4, <1>5, <3>1, <3>2
    <3>3. CASE l \in 1..Len(queue)
      BY <1>1, <1>4, <3>1, <3>3 DEF Due
    <3> QED
      BY <1>4, <3>2, <3>3
  <2>3. ASSUME NEW j, Due(j) PROVE Due(j)'
    <3>1. PICK l \in 1..Len(queue) : IsResult(queue[l]) /\ queue[l].ref = j /\ ~(l = 1 /\ main.pc = "ack")
      BY <2>3 DEF Due
    <3>2. l \in 1..Len(queue') /\ queue'[l] = queue[l]
      BY <1>4, <3>1
    <3> QED
      BY <1>1, <3>1, <3>2 DEF Due
  <2>4. Due(i)'
    <3>1. Len(queue) + 1 \in 1..Len(queue')
      BY <1>4
    <3>2. IsResult(queue'[Len(queue) + 1]) /\ queue'[Len(queue) + 1].ref = i
      BY <1>4, <1>5
    <3>3. ~(Len(queue) + 1 = 1 /\ main'.pc = "ack")
      BY <1>1, <1>4, <2>1
    <3> QED
      BY <3>1, <3>2, <3>3 DEF Due
  <2> QED
    BY <2>2, <2>3, <2>4
<1>9. \A j \in 1..Len(out) : Pending(j)' <=> Pending(j)
  BY <1>1, <1>2, <1>3, <1>8 DEF Pending
<1>10. HandInv'
  <2>1. ASSUME queue # <<>> PROVE queue' # <<>> /\ queue'[1] = queue[1] /\ 1 \in 1..Len(queue)
    BY <1>4, <2>1
  <2> QED
    BY <1>1, <1>6, <1>7, <2>1 DEF ChargeInv, HandInv
<1>11. ServedInv'
  <2>1. ASSUME NEW j \in 1..Len(out'), IsSend(j)'
        PROVE  /\ out'[j].ref \in Hashes /\ out'[j].charge = Amt(out'[j].ref)
               /\ \E r \in scenario'.requests : r.op = "pay" /\ r.hash = out'[j].ref /\ served'[r] >= 1
    BY <1>1, <1>3, <1>6, <2>1 DEF ChargeInv, ServedInv
  <2> QED
    BY <1>1, <2>1 DEF ChargeInv, ServedInv, AtPay, AtWithdraw, Working
<1>12. OutInv'
  <2>1. ASSUME NEW j \in 1..Len(out') PROVE out'[j].fee <= MinFee /\ (IsMove(j)' => out'[j].fee = 0)
    <3>1. CASE j = i
      <4>1. out'[i].fee = f /\ f <= MinFee
        BY <1>2, LspConstants
      <4>2. IsMove(i)' => f = 0
        BY <1>2, <1>6 DEF IsMove, Moves
      <4> QED
        BY <3>1, <4>1, <4>2
    <3>2. CASE j # i
      BY <1>3, <1>6, <3>2 DEF ChargeInv, OutInv
    <3> QED
      BY <3>1, <3>2
  <2>2. \A j, l \in 1..Len(out') :
           IsSend(j)' /\ IsSend(l)' /\ out'[j].ref = out'[l].ref
           /\ out'[j].st # "failed" /\ out'[l].st # "failed" => j = l
    BY <1>3, <1>6 DEF ChargeInv, OutInv
  <2>3. ASSUME NEW j \in 1..Len(queue'), IsResult(queue'[j])
        PROVE  /\ queue'[j].fee = out'[queue'[j].ref].fee
               /\ \A l \in 1..Len(queue') : IsResult(queue'[l]) /\ queue'[l].ref = queue'[j].ref => l = j
    <3>1. CASE j = Len(queue) + 1
      <4>1. queue'[j].ref = i /\ queue'[j].fee = f
        BY <1>4, <1>5, <3>1
      <4> QED
        BY <1>2, <1>4, <1>7, <3>1, <4>1
    <3>2. CASE j \in 1..Len(queue)
      <4>1. queue'[j] = queue[j] /\ queue[j].ref \in 1..Len(out) /\ queue[j].ref # i
        BY <1>4, <1>7, <2>3, <3>2
      <4>2. queue[j].fee = out[queue[j].ref].fee
        BY <2>3, <3>2, <4>1 DEF ChargeInv, OutInv
      <4>3. ASSUME NEW l \in 1..Len(queue'), IsResult(queue'[l]), queue'[l].ref = queue[j].ref
            PROVE  l = j
        <5>1. l # Len(queue) + 1
          BY <1>4, <1>5, <4>1, <4>3
        <5>2. l \in 1..Len(queue) /\ queue'[l] = queue[l]
          BY <1>4, <5>1
        <5> QED
          BY <2>3, <3>2, <4>1, <4>3, <5>2 DEF ChargeInv, OutInv
      <4> QED
        BY <1>3, <4>1, <4>2, <4>3
    <3> QED
      BY <1>4, <3>1, <3>2
  <2> QED
    BY <2>1, <2>2, <2>3 DEF OutInv
<1>13. SendsOld /\ MovesOld
  BY <1>1, <1>3, <1>6 DEF SendsOld, MovesOld, AtPay
<1>14. OnceInv'
  BY <1>1, <1>13, OnceKept, RetriedSame DEF ChargeInv
<1>15. \A x : Orphan(x)' <=> Orphan(x)
  BY <1>1 DEF Orphan, AtWithdraw
<1>16. OrphansStay /\ TaskHolds
  BY <1>1, <1>15 DEF OrphansStay, TaskHolds, HoldWith
<1>17. HoldInv'
  <2>1. ThreadHolds'
    <3>1. ThreadHolds /\ \A id : HoldWith(id)' = HoldWith(id)
      BY <1>1 DEF ChargeInv, HoldInv, HoldWith
    <3>2. main.pc = "rename" => main.amt \in 1..Len(out)
      BY DEF IInv, MainInv
    <3>3. WithdrawId(api.req)' = WithdrawId(api.req) /\ PendingId(main.how, main.ref)' = PendingId(main.how, main.ref)
      BY <1>1 DEF WithdrawId, PendingId
    <3> QED
      BY <1>1, <1>6, <3>1, <3>2, <3>3 DEF ThreadHolds, AtWithdraw, HoldWith, Coins
  <2>2. MovesHeld'
    BY <1>13, <1>16, MovesTask, MovesKept DEF ChargeInv
  <2> QED
    BY <2>1, <2>2 DEF HoldInv
<1>18. Exact' <=> Exact
  BY <1>1 DEF Exact, Retried
<1>19. ASSUME SendInv PROVE SendInv'
  <2>1. \A h : HoldWith(SendId(h))' = HoldWith(SendId(h))
    BY <1>1 DEF HoldWith, SendId
  <2> QED
    BY <1>1, <1>9, <1>13, <1>19, <2>1, SendKept, RetriedSame
<1>20. ASSUME SendInv, BalanceInv PROVE BalanceInv'
  <2>1. ASSUME NEW n \in Nodes, Balanced(n), ~Lost(n)' PROVE Balanced(n)'
    <3>1. ~Lost(n)
      BY <1>16, <2>1, LostStays
    <3>2. ASSUME NEW j \in 1..Len(out), out[j].node = n
          PROVE  (Settled(j)' <=> Settled(j)) /\ (Settled(j) => out'[j] = out[j])
      <4>1. HoldWith(SendId(out[j].ref))' = HoldWith(SendId(out[j].ref))
            /\ HoldWith(MoveId(j))' = HoldWith(MoveId(j))
        BY <1>1, <1>6 DEF HoldWith, SendId
      <4>2. CASE j # i
        BY <1>1, <1>3, <1>6, <1>8, <4>1, <4>2 DEF Settled, Open, IsTask
      <4>3. CASE j = i
        <5>1. ~Settled(j)
          BY <1>1, <4>3 DEF Settled
        <5>2. CASE IsSend(i)
          <6>1. HoldWith(SendId(out[i].ref)) # {}
            BY <1>1, <1>20, <5>2 DEF SendInv, Pending
          <6>2. Open(i)'
            BY <1>6, <1>8, <4>1, <4>3, <5>2, <6>1 DEF Open
          <6> QED
            BY <4>3, <5>1, <6>2 DEF Settled
        <5>3. CASE IsMove(i)
          <6>1. Open(i)
            BY <1>1, <3>1, <3>2, <4>3, <5>3 DEF ChargeInv, HoldInv, MovesHeld
          <6>2. ~IsSend(i)
            BY <5>3 DEF IsMove, IsSend, Moves
          <6>3. Open(i)'
            BY <1>1, <1>6, <4>1, <4>3, <6>1, <6>2, <5>3 DEF Open
          <6> QED
            BY <4>3, <5>1, <6>3 DEF Settled
        <5>4. CASE ~IsTask(i)
          BY <1>6, <4>3, <5>4 DEF Settled, IsTask
        <5> QED
          BY <5>2, <5>3, <5>4 DEF IsTask
      <4> QED
        BY <4>2, <4>3
    <3>3. WithdrawnOf(n)' = WithdrawnOf(n) /\ Debited(n)' = Debited(n)
      BY <1>1 DEF WithdrawnOf, Leaving, Coins, Debited, Credits, Given
    <3>4. /\ Len(out') >= Len(out)
          /\ \A j \in 1..Len(out') : j > Len(out) => out'[j].st = "flying"
          /\ \A j \in 1..Len(out) : out'[j].node = out[j].node
      BY <1>3, <1>6
    <3> QED
      BY <1>3, <2>1, <3>2, <3>3, <3>4, BalancedSame
  <2> QED
    BY <1>16, <1>20, <2>1, BalanceKept DEF OrphansStay
<1> QED
  BY <1>10, <1>11, <1>12, <1>14, <1>17, <1>18, <1>19, <1>20 DEF ChargeInv

\* What a new hold changes in the table.
LEMMA HoldsMade ==
    ASSUME NEW x, HoldWith(x.id) = {}, holds' = holds \cup {x}
    PROVE  /\ HoldWith(x.id)' = {x}
           /\ \A k : k # x.id => HoldWith(k)' = HoldWith(k)
           /\ \A y \in holds : y.id # x.id
BY DEF HoldWith

\* What a withdrawal reserved is no move's.
LEMMA PendingKind ==
    \A how, n : /\ PendingId(how, n)[1] \in PendingKinds /\ PendingId(how, n)[2] = n
                /\ \A r : PendingId(how, n) # WithdrawId(r)
BY DEF PendingId, PendingKinds, WithdrawId

\* The main thread holds what it is about to move.
LEMMA ChargeMoveHold ==
    ASSUME IInv, IInv', ChargeInv, start_conversion, main'.pc \notin {"hold", "idle"}
    PROVE  ChargeInv'
<1>1. UNCHANGED <<balance, entries, onchain, served, scenario, crashes, queue, out, api>>
  BY DEF start_conversion, world, ldk
<1>2. PICK id : id = PendingId(main.how, main.ref)
  OBVIOUS
<1>3. /\ main.pc = "hold" /\ CanHold(main.ref, id, main.amt.free)
      /\ hold_kind(main.ref, id, main.amt.free, main.amt.free, "conversion")
      /\ main' = Main("send", main.ref, main.amt, main.how, main.ev)
  BY <1>2, IdleThreads DEF start_conversion, Main, Go
<1>4. main'.pc = "send" /\ main'.ref = main.ref /\ main'.how = main.how /\ main'.amt = main.amt
      /\ main'.ev = main.ev
  BY <1>3 DEF Main
<1>5. PICK x : /\ holds' = holds \cup {x} /\ x.id = id /\ x.node = main.ref /\ x.amt = main.amt.free
               /\ HoldWith(x.id) = {}
  <2>1. PICK x : x = [id |-> id, node |-> main.ref, amt |-> main.amt.free, base |-> main.amt.free,
                      kind |-> "conversion"]
    OBVIOUS
  <2>2. holds' = holds \cup {x} /\ HoldWith(id) = {}
    BY <1>3, <2>1 DEF hold_kind, CanHold
  <2>3. x.id = id /\ x.node = main.ref /\ x.amt = main.amt.free
    BY <2>1
  <2> QED
    BY <2>2, <2>3, Zenon
<1>6. /\ HoldWith(id)' = {x} /\ \A k : k # id => HoldWith(k)' = HoldWith(k)
      /\ \A y \in holds : y.id # id
  BY <1>5, HoldsMade
<1>7. id[1] \in PendingKinds /\ id[2] = main.ref /\ \A r : id # WithdrawId(r)
  BY <1>2, PendingKind
<1>8. HandInv'
  BY <1>1, <1>3, <1>4 DEF ChargeInv, HandInv
<1>9. ServedInv'
  BY <1>1, TasksOut, ServedKept DEF ChargeInv, ServedInv, AtPay, AtWithdraw, Working
<1>10. TaskHolds
  BY <1>6, <1>7 DEF TaskHolds
<1>11. OrphansStay
  BY <1>1, <1>2, <1>3, <1>4, <1>5, <1>6 DEF OrphansStay, Orphan, AtWithdraw
<1>12. ThreadHolds'
  <2>1. ThreadHolds
    BY DEF ChargeInv, HoldInv
  <2>2. \A y \in holds' : y.id[1] \in PendingKinds \cup {"withdraw"} => y.node = y.id[2]
    BY <1>5, <1>7, <2>1 DEF ThreadHolds
  <2>3. HoldWith(WithdrawId(api.req)) \subseteq HoldWith(WithdrawId(api.req))'
    BY <1>1, <1>5 DEF HoldWith, WithdrawId
  <2>4. PendingId(main.how, main.ref)' = id
    BY <1>2, <1>4 DEF PendingId
  <2>5. x \in HoldWith(PendingId(main.how, main.ref))' /\ x.amt = main'.amt.free
    BY <1>4, <1>5, <2>4 DEF HoldWith
  <2> QED
    BY <1>1, <1>4, <2>1, <2>2, <2>3, <2>5 DEF ThreadHolds, AtWithdraw, Coins
<1>13. \A n \in Nodes : WithdrawnOf(n)' = WithdrawnOf(n) /\ Debited(n)' = Debited(n)
  BY <1>1 DEF WithdrawnOf, Leaving, Coins, Debited, Credits, Given
<1>14. AtPay' => AtPay /\ api'.req = api.req
  BY <1>1 DEF AtPay
<1> QED
  BY <1>1, <1>3, <1>4, <1>8, <1>9, <1>10, <1>11, <1>12, <1>13, <1>14, OtherHold, RetriedSame

\* The move does not start: its hold is given up.
LEMMA ChargeMoveGiven ==
    ASSUME IInv, IInv', ChargeInv, MoveSend, main'.pc # "rename"
    PROVE  ChargeInv'
<1>1. UNCHANGED <<balance, entries, onchain, served, scenario, crashes, queue, api>> /\ main.pc = "send"
  BY DEF MoveSend, world
<1>2. PICK id : id = PendingId(main.how, main.ref)
  OBVIOUS
<1>3. holds' = holds \ HoldWith(id) /\ main' = IdleMain /\ out' = out
  BY <1>2 DEF MoveSend, take_hold, Go, Main
<1>4. /\ \A k : k # id => HoldWith(k)' = HoldWith(k)
      /\ \A x \in holds : x.id # id => x \in holds'
  BY <1>3, HoldsTaken
<1>5. id[1] \in PendingKinds /\ \A r : id # WithdrawId(r)
  BY <1>2, PendingKind
<1>6. main'.pc = "idle" /\ HandInv'
  BY <1>3, IdleThreads DEF HandInv
<1>7. ServedInv'
  BY <1>1, <1>3, TasksOut, ServedKept DEF ChargeInv, ServedInv, AtPay, AtWithdraw, Working
<1>8. TaskHolds
  BY <1>4, <1>5 DEF TaskHolds
<1>9. OrphansStay
  BY <1>1, <1>2, <1>4, <1>5, <1>6 DEF OrphansStay, Orphan, PendingKinds, AtWithdraw
<1>10. ThreadHolds'
  <2>1. ThreadHolds
    BY DEF ChargeInv, HoldInv
  <2>2. \A y \in holds' : y.id[1] \in PendingKinds \cup {"withdraw"} => y.node = y.id[2]
    BY <1>3, <2>1 DEF ThreadHolds
  <2>3. HoldWith(WithdrawId(api.req))' = HoldWith(WithdrawId(api.req))
    <3>1. PICK k : k = WithdrawId(api.req)
      OBVIOUS
    <3>2. HoldWith(k)' = HoldWith(k)
      BY <1>4, <1>5, <3>1
    <3> QED
      BY <1>1, <3>1, <3>2 DEF HoldWith, WithdrawId
  <2> QED
    BY <1>1, <1>6, <2>1, <2>2, <2>3 DEF ThreadHolds, AtWithdraw, Coins
<1>11. \A n \in Nodes : WithdrawnOf(n)' = WithdrawnOf(n) /\ Debited(n)' = Debited(n)
  BY <1>1 DEF WithdrawnOf, Leaving, Coins, Debited, Credits, Given
<1>12. AtPay' => AtPay /\ api'.req = api.req
  BY <1>1 DEF AtPay
<1> QED
  BY <1>1, <1>3, <1>6, <1>7, <1>8, <1>9, <1>10, <1>11, <1>12, OtherHold, RetriedSame

\* A payment for an account is made: it is the newest, no other changes.
NewTask ==
    /\ out' \in Seq(Outgoing) /\ Len(out') = Len(out) + 1
    /\ \A i \in 1..Len(out) : out'[i] = out[i]
    /\ out'[Len(out')].st = "flying" /\ out'[Len(out')].fee = 0

\* The kinds of the others stay.
LEMMA OthersSame ==
    ASSUME IInv, NewTask
    PROVE  /\ Len(out) \in Nat /\ Len(out') = Len(out) + 1 /\ Len(out') \notin 1..Len(out)
           /\ \A i \in 1..Len(out') : i \in 1..Len(out) \/ i = Len(out')
           /\ \A i \in 1..Len(out) : /\ i \in 1..Len(out') /\ out'[i] = out[i] /\ IsSend(i)' = IsSend(i)
                                     /\ IsMove(i)' = IsMove(i) /\ MoveId(i)' = MoveId(i)
<1>1. Len(out) \in Nat /\ Len(out') = Len(out) + 1
  BY DEF IInv, OtherTypes, NewTask
<1>2. \A i \in 1..Len(out) : /\ i \in 1..Len(out') /\ out'[i] = out[i] /\ IsSend(i)' = IsSend(i)
                             /\ IsMove(i)' = IsMove(i) /\ MoveId(i)' = MoveId(i)
  BY <1>1 DEF NewTask, IsSend, IsMove, MoveId
<1> QED
  BY <1>1, <1>2

\* The payments stay in order, if the newest pays an invoice that is not being paid.
LEMMA OutGrown ==
    ASSUME IInv, OutInv, NewTask, queue' = queue,
           IsSend(Len(out))' => \A i \in 1..Len(out) :
               IsSend(i) /\ out[i].ref = out'[Len(out')].ref => out[i].st = "failed"
    PROVE  OutInv'
<1>1. /\ Len(out) \in Nat /\ Len(out') = Len(out) + 1 /\ Len(out') \notin 1..Len(out)
      /\ \A i \in 1..Len(out') : i \in 1..Len(out) \/ i = Len(out')
      /\ \A i \in 1..Len(out) : out'[i] = out[i] /\ IsSend(i)' = IsSend(i) /\ IsMove(i)' = IsMove(i)
  BY OthersSame
<1>2. ASSUME NEW i \in 1..Len(out') PROVE out'[i].fee <= MinFee /\ (IsMove(i)' => out'[i].fee = 0)
  <2>1. CASE i \in 1..Len(out)
    BY <1>1, <2>1 DEF OutInv
  <2>2. CASE i = Len(out')
    <3>1. out'[i].fee = 0 /\ MinFee \in Nat
      BY <2>2, LspConstants DEF NewTask
    <3> QED
      BY <3>1
  <2> QED
    BY <1>1, <2>1, <2>2
<1>3. IsSend(Len(out))' <=> out'[Len(out')].why = "send"
  BY DEF IsSend
<1>4. ASSUME NEW i \in 1..Len(out'), NEW j \in 1..Len(out'), IsSend(i)', IsSend(j)',
             out'[i].ref = out'[j].ref, out'[i].st # "failed", out'[j].st # "failed"
      PROVE  i = j
  <2>1. CASE i \in 1..Len(out) /\ j \in 1..Len(out)
    BY <1>1, <1>4, <2>1 DEF OutInv
  <2>2. CASE i = Len(out') \/ j = Len(out')
    BY <1>1, <1>3, <1>4, <2>2 DEF IsSend
  <2> QED
    BY <1>1, <2>1, <2>2
<1>5. \A k \in 1..Len(queue) : IsResult(queue[k]) => queue[k].ref \in 1..Len(out)
  BY DEF IInv, QueueInv, IsResult
<1>6. \A k \in 1..Len(queue') : IsResult(queue'[k]) =>
         /\ queue'[k].fee = out'[queue'[k].ref].fee
         /\ \A l \in 1..Len(queue') : IsResult(queue'[l]) /\ queue'[l].ref = queue'[k].ref => l = k
  BY <1>1, <1>5 DEF OutInv
<1> QED
  BY <1>2, <1>4, <1>6 DEF OutInv

\* The event at hand stays at hand.
LEMMA HandGrown ==
    ASSUME IInv, HandInv, NewTask, queue' = queue, main'.ev = main.ev,
           main'.pc # "idle" \/ main' = main, main'.pc \notin {"ack", "skim"} \/ main' = main,
           main.pc = "ack" => main' = main
    PROVE  HandInv'
<1>1. ASSUME queue # <<>>, IsResult(queue[1]) PROVE out'[queue[1].ref].why = out[queue[1].ref].why
  <2>1. 1 \in 1..Len(queue)
    BY <1>1, HeadOfQueue
  <2>2. queue[1].ref \in 1..Len(out)
    BY <1>1, <2>1 DEF IInv, QueueInv, IsResult
  <2> QED
    BY <2>2, OthersSame
<1> QED
  BY <1>1 DEF HandInv

\* The move is sent: its charge is what was held for it.
LEMMA ChargeMoveSent ==
    ASSUME IInv, IInv', ChargeInv, MoveSend, main'.pc = "rename"
    PROVE  ChargeInv'
<1> DEFINE a == IF main.how = "deliver" THEN main.amt.free ELSE main.amt.plan
<1>1. UNCHANGED <<balance, entries, onchain, served, scenario, crashes, queue, api>> /\ main.pc = "send"
  BY DEF MoveSend, world
<1>2. main.ref \in Nodes /\ main.how \in Moves /\ a \in Nat /\ main.amt.free \in Nat
  BY <1>1 DEF IInv, MainInv
<1>3. Sent(main.how, main.ref, "none", a, main.amt.free) /\ Go("rename", main.ref, Len(out'), main.how)
      /\ UNCHANGED holds
  BY IdleThreads DEF MoveSend
<1> HIDE DEF a
<1>4. main'.ref = main.ref /\ main'.amt = Len(out') /\ main'.how = main.how /\ main'.ev = main.ev
  BY <1>3 DEF Go, Main
<1>5. /\ NewTask
      /\ out'[Len(out')].why = main.how /\ out'[Len(out')].node = main.ref
      /\ out'[Len(out')].charge = main.amt.free
  <2>1. main.how \in Moves \cup {"send", "forward"} /\ "none" \in Hashes \cup {"none"}
    BY <1>2
  <2>2. /\ OutGrows /\ Len(out') = Len(out) + 1
        /\ \A i \in 1..Len(out) : out'[i] = out[i]
        /\ out'[Len(out')] = [why |-> main.how, node |-> main.ref, ref |-> "none", amt |-> a,
                              charge |-> main.amt.free, st |-> "flying", fee |-> 0]
    BY <1>2, <1>3, <2>1, SentGrows
  <2> QED
    BY <2>2 DEF NewTask, OutGrows
<1>6. PICK m : m = Len(out')
  OBVIOUS
<1>7. /\ Len(out) \in Nat /\ Len(out') = Len(out) + 1 /\ m \notin 1..Len(out) /\ m \in 1..Len(out')
      /\ \A i \in 1..Len(out') : i \in 1..Len(out) \/ i = m
      /\ \A i \in 1..Len(out) : /\ i \in 1..Len(out') /\ out'[i] = out[i] /\ IsSend(i)' = IsSend(i)
                                /\ IsMove(i)' = IsMove(i) /\ MoveId(i)' = MoveId(i)
      /\ ~IsSend(m)' /\ IsMove(m)'
  BY <1>2, <1>5, <1>6, OthersSame DEF IsSend, IsMove, Moves
<1>8. HandInv' /\ OutInv'
  <2>1. ~IsSend(Len(out))'
    BY <1>2, <1>5 DEF IsSend, Moves
  <2> QED
    BY <1>1, <1>4, <1>5, <2>1, HandGrown, OutGrown DEF ChargeInv
<1>9. ServedInv'
  <2>1. ASSUME NEW i \in 1..Len(out'), IsSend(i)'
        PROVE  /\ out'[i].ref \in Hashes /\ out'[i].charge = Amt(out'[i].ref)
               /\ \E r \in scenario'.requests : r.op = "pay" /\ r.hash = out'[i].ref /\ served'[r] >= 1
    BY <1>1, <1>7, <2>1 DEF ChargeInv, ServedInv
  <2> QED
    BY <1>1, <2>1 DEF ChargeInv, ServedInv, AtPay, AtWithdraw, Working
<1>10. SendsOld
  BY <1>1, <1>7 DEF SendsOld, AtPay
<1>11. OnceInv'
  BY <1>1, <1>10, OnceKept, RetriedSame DEF ChargeInv
<1>12. \A x : Orphan(x)' <=> Orphan(x)
  BY <1>1, <1>4 DEF Orphan, AtWithdraw
<1>13. OrphansStay /\ TaskHolds /\ \A k : HoldWith(k)' = HoldWith(k)
  BY <1>3, <1>12 DEF OrphansStay, TaskHolds, HoldWith
<1>14. \A n : Lost(n)' <=> Lost(n)
  BY <1>3, <1>12 DEF Lost, HoldsOf
<1>15. ThreadHolds'
  <2>1. ThreadHolds
    BY DEF ChargeInv, HoldInv
  <2>2. PICK x \in HoldWith(PendingId(main.how, main.ref)) : x.amt = main.amt.free
    BY <1>1, <2>1 DEF ThreadHolds
  <2>3. x \in HoldWith(PendingId(main.how, main.ref))' /\ x.amt = out'[main'.amt].charge
        /\ out'[main'.amt].node = main'.ref
    BY <1>3, <1>4, <1>5, <2>2 DEF HoldWith, PendingId
  <2>4. HoldWith(WithdrawId(api.req))' = HoldWith(WithdrawId(api.req))
    BY <1>1, <1>3 DEF HoldWith, WithdrawId
  <2> QED
    BY <1>1, <1>3, <2>1, <2>3, <2>4 DEF ThreadHolds, AtWithdraw, Coins
<1>16. MovesHeld'
  <2> SUFFICES ASSUME NEW i \in 1..Len(out'), IsMove(i)'
               PROVE  /\ \A x \in HoldWith(MoveId(i))' : x.node = out'[i].node /\ x.amt = out'[i].charge
                      /\ out'[i].st = "flying" => Open(i)' \/ Lost(out[i].node)'
    BY DEF MovesHeld
  <2>1. CASE i = m
    <3>1. HoldWith(MoveId(main.amt))' = {}
      BY DEF IInv, MainInv
    <3>2. HoldWith(MoveId(i))' = {}
      BY <1>4, <1>6, <2>1, <3>1 DEF HoldWith, MoveId
    <3>3. Open(i)'
      BY <1>4, <1>6, <2>1 DEF Open
    <3> QED
      BY <3>2, <3>3
  <2>2. CASE i \in 1..Len(out)
    <3>1. IsMove(i) /\ ~IsSend(i) /\ out'[i] = out[i] /\ HoldWith(MoveId(i))' = HoldWith(MoveId(i))
      BY <1>3, <1>7, <2>2 DEF HoldWith, IsMove, IsSend, Moves
    <3>2. /\ \A x \in HoldWith(MoveId(i)) : x.node = out[i].node /\ x.amt = out[i].charge
          /\ out[i].st = "flying" => Open(i) \/ Lost(out[i].node)
      BY <2>2, <3>1 DEF ChargeInv, HoldInv, MovesHeld
    <3>3. Open(i) => Open(i)'
      BY <1>1, <1>7, <2>2, <3>1 DEF Open
    <3>4. Lost(out[i].node) => Lost(out[i].node)'
      BY <1>3, <1>12, <3>1 DEF Lost, HoldsOf
    <3> QED
      BY <3>1, <3>2, <3>3, <3>4
  <2> QED
    BY <1>7, <2>1, <2>2
<1>17. \A i \in 1..Len(out) : (Settled(i)' <=> Settled(i)) /\ (Pending(i)' <=> Pending(i))
  <2>1. main'.amt > Len(out)
    BY <1>4, <1>7
  <2> QED
    BY <1>1, <1>7, <1>13, <2>1, SettledStays
<1>18. Exact' <=> Exact
  BY <1>1 DEF Exact, Retried
<1>19. ASSUME SendInv PROVE SendInv'
  <2>1. \A h : HoldWith(SendId(h))' = HoldWith(SendId(h))
    BY <1>3 DEF HoldWith, SendId
  <2> QED
    BY <1>1, <1>10, <1>17, <1>19, <2>1, SendKept, RetriedSame
<1>20. ASSUME BalanceInv PROVE BalanceInv'
  <2>1. \A n \in Nodes : WithdrawnOf(n)' = WithdrawnOf(n) /\ Debited(n)' = Debited(n)
    BY <1>1 DEF WithdrawnOf, Leaving, Coins, Debited, Credits, Given
  <2>2. /\ out' \in Seq(Outgoing) /\ Len(out') >= Len(out)
        /\ \A i \in 1..Len(out') : i > Len(out) => out'[i].st = "flying"
    BY <1>5, <1>6, <1>7 DEF NewTask
  <2> QED
    BY <1>7, <1>13, <1>17, <1>20, <2>1, <2>2, BalanceQuiet
<1> QED
  BY <1>8, <1>9, <1>11, <1>15, <1>16, <1>18, <1>19, <1>20 DEF ChargeInv, HoldInv

\* The hold of the move takes its id: the move is open as before.
LEMMA ChargeMoveRename ==
    ASSUME IInv, IInv', ChargeInv, MoveRename
    PROVE  ChargeInv'
<1>1. UNCHANGED <<balance, entries, onchain, served, scenario, crashes, queue, out, api>>
      /\ main' = IdleMain /\ main.pc = "rename" /\ main'.pc = "idle"
  BY IdleThreads DEF MoveRename, world, ldk
<1>2. PICK m, id, old : m = main.amt /\ id = MoveId(m) /\ old = PendingId(main.how, main.ref)
  OBVIOUS
<1>3. m \in 1..Len(out) /\ IsMove(m) /\ ~IsSend(m) /\ HoldWith(id) = {}
  BY <1>1, <1>2 DEF IInv, MainInv, IsMove, IsSend, Moves
<1>4. old[1] \in PendingKinds /\ old[2] = main.ref /\ \A r : old # WithdrawId(r)
  BY <1>2, PendingKind
<1>5. id[1] \notin PendingKinds \cup {"withdraw"} /\ id # old /\ id[1] \in Moves
  BY <1>2, <1>3, <1>4, TaskIds DEF MoveId, IsMove
<1>6. PICK x \in HoldWith(old) : x.amt = out[m].charge /\ x.node = out[m].node
  <2>1. ThreadHolds
    BY DEF ChargeInv, HoldInv
  <2>2. out[m].node = main.ref
    BY <1>1, <1>2, <2>1 DEF ThreadHolds
  <2>3. PICK y \in HoldWith(old) : y.amt = out[m].charge
    BY <1>1, <1>2, <2>1 DEF ThreadHolds
  <2>4. y \in holds /\ y.id = old
    BY <2>3 DEF HoldWith
  <2>5. y.node = main.ref
    BY <1>4, <2>1, <2>4 DEF ThreadHolds
  <2> QED
    BY <2>2, <2>3, <2>5
<1>7. x \in holds /\ x.id = old /\ x \in Hold /\ HoldWith(old) = {x}
  BY <1>6 DEF HoldWith, IInv, Money
<1>8. PICK y : y = [x EXCEPT !.id = id]
  OBVIOUS
<1>9. y.id = id /\ y.node = x.node /\ y.amt = x.amt
  BY <1>7, <1>8 DEF Hold
<1>10. holds' = (holds \ {x}) \cup {y}
  <2> DEFINE g(z) == IF z.id = old THEN [z EXCEPT !.id = id] ELSE z
  <2>1. g(x) = y /\ \A z \in holds \ {x} : g(z) = z
    BY <1>7, <1>8 DEF HoldWith
  <2>2. holds' = {g(z) : z \in holds}
    BY <1>2 DEF MoveRename, rename_hold
  <2> HIDE DEF g
  <2> QED
    BY <1>7, <2>1, <2>2
<1>11. HoldWith(id)' = {y} /\ \A k : k # id /\ k # old => HoldWith(k)' = HoldWith(k)
  <2>1. HoldWith(id)' = {y}
    BY <1>3, <1>9, <1>10 DEF HoldWith
  <2>2. ASSUME NEW k, k # id, k # old PROVE HoldWith(k)' = HoldWith(k)
    BY <1>7, <1>9, <1>10, <2>2 DEF HoldWith
  <2> QED
    BY <2>1, <2>2
<1>12. TasksSame /\ EventsKept /\ HandInv'
  BY <1>1, TasksOut, QueueSame, IdleThreads DEF HandInv
<1>13. OutInv' /\ ServedInv'
  BY <1>1, <1>12, OutKept, ServedKept DEF ChargeInv, ServedInv, AtPay, AtWithdraw, Working
<1>14. SendsOld
  BY <1>1 DEF SendsOld, IsSend, AtPay
<1>15. OnceInv'
  BY <1>1, <1>14, OnceKept, RetriedSame DEF ChargeInv
<1>16. OrphansStay
  BY <1>1, <1>2, <1>4, <1>7, <1>10 DEF OrphansStay, Orphan, PendingKinds, AtWithdraw
<1>17. \A j \in 1..Len(out) : /\ IsSend(j)' = IsSend(j) /\ IsMove(j)' = IsMove(j) /\ MoveId(j)' = MoveId(j)
                              /\ Due(j)' <=> Due(j)
                              /\ HoldWith(SendId(out[j].ref))' = HoldWith(SendId(out[j].ref))
                              /\ IsMove(j) /\ j # m => HoldWith(MoveId(j))' = HoldWith(MoveId(j))
  <2> SUFFICES ASSUME NEW j \in 1..Len(out)
               PROVE  /\ IsSend(j)' = IsSend(j) /\ IsMove(j)' = IsMove(j) /\ MoveId(j)' = MoveId(j)
                      /\ Due(j)' <=> Due(j)
                      /\ HoldWith(SendId(out[j].ref))' = HoldWith(SendId(out[j].ref))
                      /\ IsMove(j) /\ j # m => HoldWith(MoveId(j))' = HoldWith(MoveId(j))
    OBVIOUS
  <2>1. IsSend(j)' = IsSend(j) /\ IsMove(j)' = IsMove(j) /\ MoveId(j)' = MoveId(j)
    BY <1>1 DEF IsSend, IsMove, MoveId
  <2>2. Due(j)' <=> Due(j)
    BY <1>1 DEF Due
  <2>3. HoldWith(SendId(out[j].ref))' = HoldWith(SendId(out[j].ref))
    <3>1. PICK k : k = SendId(out[j].ref)
      OBVIOUS
    <3>2. k # id /\ k # old
      BY <1>4, <1>5, <3>1 DEF SendId, PendingKinds, Moves
    <3>3. HoldWith(k)' = HoldWith(k)
      BY <1>11, <3>2
    <3> QED
      BY <1>1, <3>1, <3>3 DEF HoldWith, SendId
  <2>4. ASSUME IsMove(j), j # m PROVE HoldWith(MoveId(j))' = HoldWith(MoveId(j))
    <3>1. PICK k : k = MoveId(j)
      OBVIOUS
    <3>2. k # id /\ k # old
      BY <1>2, <1>4, <2>4, <3>1, TaskIds DEF MoveId
    <3>3. HoldWith(k)' = HoldWith(k)
      BY <1>11, <3>2
    <3> QED
      BY <2>1, <3>1, <3>3 DEF HoldWith
  <2> QED
    BY <2>1, <2>2, <2>3, <2>4
<1>18. Open(m) /\ Open(m)' /\ HoldWith(MoveId(m))' = {y}
  <2>1. HoldWith(MoveId(m))' = {y}
    BY <1>2, <1>3, <1>11, <1>17 DEF HoldWith
  <2> QED
    BY <1>1, <1>2, <1>3, <1>17, <2>1 DEF Open
<1>19. \A j \in 1..Len(out) : (Open(j)' <=> Open(j)) /\ (Settled(j)' <=> Settled(j)) /\ (Pending(j)' <=> Pending(j))
  <2> SUFFICES ASSUME NEW j \in 1..Len(out)
               PROVE  (Open(j)' <=> Open(j)) /\ (Settled(j)' <=> Settled(j)) /\ (Pending(j)' <=> Pending(j))
    OBVIOUS
  <2>1. Open(j)' <=> Open(j)
    <3>1. CASE j = m
      BY <1>18, <3>1
    <3>2. CASE j # m
      BY <1>1, <1>2, <1>17, <3>2 DEF Open
    <3> QED
      BY <3>1, <3>2
  <2> QED
    BY <1>1, <1>17, <2>1 DEF Settled, IsTask, Pending
<1>20. ThreadHolds'
  <2>1. ThreadHolds
    BY DEF ChargeInv, HoldInv
  <2>2. \A z \in holds' : z.id[1] \in PendingKinds \cup {"withdraw"} => z.node = z.id[2]
    BY <1>5, <1>9, <1>10, <2>1 DEF ThreadHolds
  <2>3. HoldWith(WithdrawId(api.req))' = HoldWith(WithdrawId(api.req))
    <3>1. PICK k : k = WithdrawId(api.req)
      OBVIOUS
    <3>2. k # id /\ k # old
      BY <1>4, <1>5, <3>1 DEF WithdrawId
    <3>3. HoldWith(k)' = HoldWith(k)
      BY <1>11, <3>2
    <3> QED
      BY <1>1, <3>1, <3>3 DEF HoldWith, WithdrawId
  <2> QED
    BY <1>1, <2>1, <2>2, <2>3 DEF ThreadHolds, AtWithdraw, Coins
<1>21. MovesHeld'
  <2> SUFFICES ASSUME NEW i \in 1..Len(out), IsMove(i)
               PROVE  /\ \A z \in HoldWith(MoveId(i))' : z.node = out[i].node /\ z.amt = out[i].charge
                      /\ out[i].st = "flying" => Open(i)' \/ Lost(out[i].node)'
    BY <1>1, <1>17 DEF MovesHeld
  <2>1. CASE i = m
    BY <1>6, <1>9, <1>18, <2>1
  <2>2. CASE i # m
    <3>1. HoldWith(MoveId(i))' = HoldWith(MoveId(i)) /\ (Open(i)' <=> Open(i))
      BY <1>17, <1>19, <2>2
    <3>2. /\ \A z \in HoldWith(MoveId(i)) : z.node = out[i].node /\ z.amt = out[i].charge
          /\ out[i].st = "flying" => Open(i) \/ Lost(out[i].node)
      BY DEF ChargeInv, HoldInv, MovesHeld
    <3>3. Lost(out[i].node) => Lost(out[i].node)'
      BY <1>1, <1>16 DEF OrphansStay, Lost, HoldsOf
    <3> QED
      BY <3>1, <3>2, <3>3
  <2> QED
    BY <2>1, <2>2
<1>22. Exact' <=> Exact
  BY <1>1 DEF Exact, Retried
<1>23. ASSUME SendInv PROVE SendInv'
  <2>1. \A h : HoldWith(SendId(h))' = HoldWith(SendId(h))
    <3> SUFFICES ASSUME NEW h PROVE HoldWith(SendId(h))' = HoldWith(SendId(h))
      OBVIOUS
    <3>1. PICK k : k = SendId(h)
      OBVIOUS
    <3>2. k # id /\ k # old
      BY <1>4, <1>5, <3>1 DEF SendId, PendingKinds, Moves
    <3>3. HoldWith(k)' = HoldWith(k)
      BY <1>11, <3>2
    <3> QED
      BY <3>1, <3>3 DEF HoldWith, SendId
  <2> QED
    BY <1>1, <1>14, <1>19, <1>23, <2>1, SendKept, RetriedSame
<1>24. ASSUME BalanceInv PROVE BalanceInv'
  <2>1. \A n \in Nodes : WithdrawnOf(n)' = WithdrawnOf(n) /\ Debited(n)' = Debited(n)
    BY <1>1 DEF WithdrawnOf, Leaving, Coins, Debited, Credits, Given
  <2>2. out' \in Seq(Outgoing) /\ Len(out) \in Nat /\ Len(out') >= Len(out)
        /\ \A i \in 1..Len(out') : ~(i > Len(out))
    BY <1>1 DEF IInv, OtherTypes
  <2> QED
    BY <1>1, <1>16, <1>19, <1>24, <2>1, <2>2, BalanceQuiet
<1> QED
  BY <1>12, <1>13, <1>15, <1>20, <1>21, <1>22, <1>23, <1>24 DEF ChargeInv, HoldInv

\* The process stops: what its threads held is nobody's, and an acknowledged result that is
\* told again finds no hold.
LEMMA ChargeCrash ==
    ASSUME IInv, IInv', ChargeInv, Crash
    PROVE  ChargeInv'
<1>1. UNCHANGED <<balance, holds, entries, onchain, served, scenario, queue, out>>
      /\ crashes' = crashes + 1 /\ api' = IdleApi /\ main' = IdleMain
  BY DEF Crash, ledger, ldk
<1>2. api'.pc = "idle" /\ main'.pc = "idle" /\ ~main'.ev /\ ~AtPay' /\ ~AtWithdraw'
  BY <1>1, IdleThreads DEF AtPay, AtWithdraw
<1>3. HandInv' /\ TasksSame /\ EventsKept
  BY <1>1, <1>2, TasksOut, QueueSame DEF HandInv
<1>4. OutInv' /\ ServedInv'
  BY <1>1, <1>2, <1>3, OutKept, ServedKept DEF ChargeInv, ServedInv, Working
<1>5. SendsOld
  BY <1>1, <1>2 DEF SendsOld, IsSend
<1>6. OnceInv'
  BY <1>1, <1>5, OnceKept, RetriedSame DEF ChargeInv
<1>7. \A x : x.id[1] \in PendingKinds \cup {"withdraw"} => Orphan(x)'
  BY <1>2 DEF Orphan
<1>8. OrphansStay /\ MoveHolds
  BY <1>1, <1>7 DEF OrphansStay, MoveHolds, HoldWith, Orphan
<1>9. ThreadHolds
  BY DEF ChargeInv, HoldInv
<1>10. ASSUME main.pc = "rename" PROVE \E x \in holds' : x.node = main.ref /\ Orphan(x)'
  <2>1. PICK x \in HoldWith(PendingId(main.how, main.ref)) : TRUE
    BY <1>9, <1>10 DEF ThreadHolds
  <2>2. x \in holds /\ x.id[1] \in PendingKinds /\ x.id[2] = main.ref
    BY <2>1, PendingKind DEF HoldWith
  <2> QED
    BY <1>1, <1>7, <1>9, <2>2 DEF ThreadHolds
<1>11. MovesOld
  BY <1>1, <1>10 DEF MovesOld
<1>12. HoldInv'
  <2>1. ThreadHolds'
    BY <1>1, <1>2, <1>9 DEF ThreadHolds
  <2> QED
    BY <1>8, <1>11, <2>1, MovesKept DEF ChargeInv, HoldInv
<1>13. Exact' => ~Retried /\ ~Retried' /\ Exact /\ crashes' # 0
  BY <1>1 DEF Exact, Retried, IInv, OtherTypes
<1>14. \A i : Due(i) => Due(i)'
  BY <1>1, <1>2 DEF Due
<1>15. \A i \in 1..Len(out) : /\ IsSend(i)' = IsSend(i) /\ IsMove(i)' = IsMove(i)
                              /\ HoldWith(SendId(out[i].ref))' = HoldWith(SendId(out[i].ref))
                              /\ HoldWith(MoveId(i))' = HoldWith(MoveId(i))
  BY <1>1 DEF IsSend, IsMove, HoldWith, SendId, MoveId
<1>16. ASSUME SendInv, Exact' PROVE SendInv'
  <2>1. \A i, j \in 1..Len(out') :
           IsSend(i)' /\ IsSend(j)' /\ out'[i].ref = out'[j].ref /\ Pending(i)' /\ Pending(j)' => i = j
    BY <1>1, <1>13, <1>15, <1>16 DEF ChargeInv, OnceInv
  <2>2. ASSUME NEW i \in 1..Len(out'), IsSend(i)'
        PROVE  /\ Pending(i)' =>
                     /\ crashes' = 0 \/ out'[i].st = "flying" => HoldWith(SendId(out[i].ref))' # {}
                     /\ \A x \in HoldWith(SendId(out[i].ref))' : Covers(x, out'[i].node, out'[i].ref)
               /\ ~Pending(i)' => HoldWith(SendId(out[i].ref))' = {}
    <3>1. i \in 1..Len(out) /\ IsSend(i) /\ HoldWith(SendId(out[i].ref))' = HoldWith(SendId(out[i].ref))
      BY <1>1, <1>15, <2>2
    <3>2. CASE Pending(i)
      <4>1. Pending(i)'
        BY <1>1, <1>14, <3>2 DEF Pending
      <4>2. out[i].st = "flying" => HoldWith(SendId(out[i].ref)) # {}
        BY <1>16, <3>1, <3>2 DEF SendInv
      <4>3. \A x \in HoldWith(SendId(out[i].ref)) : Covers(x, out[i].node, out[i].ref)
        BY <1>16, <3>1, <3>2 DEF SendInv
      <4> QED
        BY <1>1, <1>13, <1>16, <3>1, <4>1, <4>2, <4>3
    <3>3. CASE ~Pending(i)
      <4>1. HoldWith(SendId(out[i].ref)) = {} /\ out[i].st # "flying"
        BY <1>13, <1>16, <3>1, <3>3 DEF SendInv, Pending
      <4> QED
        BY <1>1, <1>13, <1>16, <3>1, <4>1
    <3> QED
      BY <3>2, <3>3
  <2> QED
    BY <1>2, <2>1, <2>2 DEF SendInv
<1>17. ASSUME SendInv, Exact', NEW i \in 1..Len(out) PROVE (Settled(i)' <=> Settled(i)) \/ Lost(out[i].node)'
  <2>1. CASE IsSend(i)
    <3>1. CASE Pending(i)
      <4>1. out[i].st = "flying" \/ (Due(i) /\ Due(i)')
        BY <1>14, <3>1 DEF Pending
      <4> QED
        BY <1>1, <1>15, <2>1, <4>1 DEF Settled, Open, IsTask, IsMove, IsSend, Moves
    <3>2. CASE ~Pending(i)
      <4>1. HoldWith(SendId(out[i].ref)) = {}
        BY <1>13, <1>17, <2>1, <3>2 DEF SendInv
      <4> QED
        BY <1>1, <1>15, <2>1, <4>1 DEF Settled, Open, IsTask, IsMove, IsSend, Moves
    <3> QED
      BY <3>1, <3>2
  <2>2. CASE IsMove(i) /\ main.pc = "rename" /\ main.amt = i
    <3>1. out[i].node = main.ref
      BY <1>9, <2>2 DEF ThreadHolds
    <3> QED
      BY <1>1, <1>10, <2>2, <3>1 DEF Lost, HoldsOf
  <2>3. CASE IsMove(i) /\ ~(main.pc = "rename" /\ main.amt = i)
    BY <1>1, <1>2, <1>15, <2>3 DEF Settled, Open, IsTask, IsMove, IsSend, Moves
  <2>4. CASE ~IsTask(i)
    BY <1>15, <2>4 DEF Settled, IsTask
  <2> QED
    BY <2>1, <2>2, <2>3, <2>4 DEF IsTask
<1>18. ASSUME NEW n \in Nodes
       PROVE  (WithdrawnOf(n)' = WithdrawnOf(n) /\ Debited(n)' = Debited(n)) \/ Lost(n)'
  <2>1. Debited(n)' = Debited(n)
    BY <1>1 DEF Debited, Credits, Given
  <2>2. CASE api.pc = "settle" /\ api.req.node = n
    <3>1. AtWithdraw
      BY <2>2 DEF ChargeInv, ServedInv, AtPay, AtWithdraw, Working
    <3>2. PICK x \in HoldWith(WithdrawId(api.req)) : TRUE
      BY <1>9, <3>1 DEF ThreadHolds
    <3>3. x \in holds /\ x.id[1] = "withdraw" /\ x.id[2] = api.req.node
      BY <3>2 DEF HoldWith, WithdrawId
    <3>4. x.node = n /\ Orphan(x)'
      BY <1>7, <1>9, <2>2, <3>3 DEF ThreadHolds
    <3> QED
      BY <1>1, <3>3, <3>4 DEF Lost, HoldsOf
  <2>3. CASE ~(api.pc = "settle" /\ api.req.node = n)
    <3>1. WithdrawnOf(n)' = WithdrawnOf(n)
      BY <1>1, <1>2, <2>3 DEF WithdrawnOf, Leaving, Coins
    <3> QED
      BY <2>1, <3>1
  <2> QED
    BY <2>2, <2>3
<1>19. ASSUME SendInv, BalanceInv, Exact' PROVE BalanceInv'
  <2>1. out' \in Seq(Outgoing) /\ Len(out) \in Nat /\ Len(out') >= Len(out)
        /\ \A i \in 1..Len(out') : ~(i > Len(out))
    BY <1>1 DEF IInv, OtherTypes
  <2> QED
    BY <1>1, <1>8, <1>17, <1>18, <1>19, <2>1, BalanceQuiet
<1> QED
  BY <1>3, <1>4, <1>6, <1>12, <1>13, <1>16, <1>19 DEF ChargeInv

-----------------------------------------------------------------------------
(* Requests                                                                *)

\* A request is let through: its coins are still to be sent, and an invoice that is not asked
\* for again was not paid.
LEMMA Admitted ==
    ASSUME IInv, IInv', ServedInv, serve, NEW r, r = api.req, served' = [served EXCEPT ![r] = @ + 1]
    PROVE  /\ UNCHANGED <<onchain, scenario, crashes, queue, out, main>>
           /\ ~Working /\ ~AtPay /\ ~AtWithdraw /\ api.pc = "nonce" /\ r \in scenario.requests
           /\ served'[r] >= 1 /\ \A q \in scenario.requests : served'[q] >= served[q]
           /\ \A c \in onchain : ~(c.req = r /\ c.nth = served'[r])
           /\ ~Retried' => ~Retried
           /\ ~Retried' /\ r.op = "pay" => \A i \in 1..Len(out) : IsSend(i) => out[i].ref # r.hash
<1>1. UNCHANGED <<onchain, scenario, crashes, queue, out, main>> /\ api.pc = "nonce"
  BY DEF serve, world, ldk
<1>2. ~Working /\ ~AtPay /\ ~AtWithdraw
  BY <1>1 DEF Working, AtPay, AtWithdraw
<1>3. r \in scenario.requests /\ served \in [scenario.requests -> Nat]
  BY <1>1 DEF IInv, OtherTypes, NonceInv
<1>4. /\ served'[r] = served[r] + 1 /\ served'[r] >= 1 /\ \A q \in scenario.requests : served'[q] >= served[q]
      /\ \A q \in scenario.requests : served[q] \in Nat
  BY <1>3
<1>5. ~Retried' => ~Retried
  BY <1>1, <1>4, ExactBefore
<1>6. ASSUME NEW c \in onchain, c.req = r, c.nth = served'[r] PROVE FALSE
  <2>1. c.nth <= served[r]
    BY <1>6 DEF ServedInv
  <2> QED
    BY <1>3, <1>4, <1>6, <2>1
<1>7. ASSUME ~Retried', r.op = "pay", NEW i \in 1..Len(out), IsSend(i), out[i].ref = r.hash PROVE FALSE
  <2>1. PICK q \in scenario.requests : q.op = "pay" /\ q.hash = out[i].ref /\ served[q] >= 1
    BY <1>7 DEF ServedInv
  <2>2. q = r
    BY <1>1, <1>3, <1>7, <2>1 DEF Retried
  <2>3. served'[r] > 1
    BY <1>3, <1>4, <2>1, <2>2
  <2> QED
    BY <1>1, <1>3, <1>7, <2>3 DEF Retried
<1> QED
  BY <1>1, <1>2, <1>3, <1>4, <1>5, <1>6, <1>7

\* Then the rest is served as before.
LEMMA ServedAdmit ==
    ASSUME IInv, IInv', ServedInv, serve, NEW r, r = api.req, served' = [served EXCEPT ![r] = @ + 1],
           IsFiniteSet(entries'), Working' => api'.req = r /\ (AtPay \/ AtWithdraw)'
    PROVE  ServedInv'
<1>1. /\ UNCHANGED <<onchain, scenario, out>> /\ served'[r] >= 1 /\ r \in scenario.requests
      /\ \A q \in scenario.requests : served'[q] >= served[q]
  BY Admitted
<1>2. \A q \in scenario.requests : served[q] \in Nat /\ served'[q] \in Nat
  BY <1>1 DEF IInv, OtherTypes
<1>3. ASSUME NEW i \in 1..Len(out'), IsSend(i)'
      PROVE  /\ out'[i].ref \in Hashes /\ out'[i].charge = Amt(out'[i].ref)
             /\ \E q \in scenario'.requests : q.op = "pay" /\ q.hash = out'[i].ref /\ served'[q] >= 1
  <2>1. IsSend(i) /\ out' = out
    BY <1>1, <1>3 DEF IsSend
  <2>2. PICK q \in scenario.requests : q.op = "pay" /\ q.hash = out[i].ref /\ served[q] >= 1
    BY <2>1 DEF ServedInv
  <2>3. served'[q] >= 1
    BY <1>1, <1>2, <2>2
  <2> QED
    BY <1>1, <2>1, <2>2, <2>3 DEF ServedInv
<1>4. ASSUME NEW c \in onchain
      PROVE  c.req \in scenario.requests /\ c.req.op = "withdraw" /\ c.nth <= served'[c.req]
  <2>1. c.req \in scenario.requests /\ c.req.op = "withdraw" /\ c.nth <= served[c.req] /\ c.nth \in Nat
    BY DEF ServedInv, IInv, OtherTypes
  <2> QED
    BY <1>1, <1>2, <2>1
<1> QED
  BY <1>1, <1>3, <1>4 DEF ServedInv

\* A request comes in, is refused, or reserves nothing.
LEMMA ChargeAsked ==
    ASSUME IInv, IInv', ChargeInv, ServedInv', UNCHANGED <<holds, onchain, crashes, queue, out, main>>,
           ~Working, ~Working', ~Retried' => ~Retried, \A n \in Nodes : Debited(n)' = Debited(n)
    PROVE  ChargeInv'
<1>1. ~AtPay' /\ ~AtWithdraw' /\ ~AtWithdraw /\ api.pc # "settle"
      /\ api'.pc \notin {"withdraw", "settle", "unpaid"}
  BY DEF Working, AtPay, AtWithdraw
<1>2. HandInv' /\ TaskHolds /\ \A k : HoldWith(k)' = HoldWith(k)
  BY DEF ChargeInv, HandInv, TaskHolds, HoldWith
<1>3. OrphansStay
  BY <1>1 DEF OrphansStay, Orphan
<1>4. ThreadHolds'
  <2>1. ThreadHolds
    BY DEF ChargeInv, HoldInv
  <2>2. HoldWith(PendingId(main.how, main.ref))' = HoldWith(PendingId(main.how, main.ref))
    BY DEF HoldWith, PendingId
  <2> QED
    BY <1>1, <2>1, <2>2 DEF ThreadHolds
<1>5. \A n \in Nodes : WithdrawnOf(n)' = WithdrawnOf(n) /\ Debited(n)' = Debited(n)
  BY <1>1 DEF WithdrawnOf, Leaving
<1> QED
  BY <1>1, <1>2, <1>3, <1>4, <1>5, OtherHold

\* A withdrawal is reserved.
LEMMA ChargeWithdraw ==
    ASSUME IInv, IInv', ChargeInv, serve, NEW r, r = api.req, served' = [served EXCEPT ![r] = @ + 1],
           r.op = "withdraw",
           CanHold(r.node, WithdrawId(r), r.amt),
           hold_kind(r.node, WithdrawId(r), r.amt, r.amt, "withdraw"), At("withdraw", r),
           UNCHANGED <<balance, entries>>
    PROVE  ChargeInv'
<1>1. /\ UNCHANGED <<onchain, scenario, crashes, queue, out, main>> /\ ~AtWithdraw /\ api.pc = "nonce"
      /\ \A c \in onchain : ~(c.req = r /\ c.nth = served'[r])
      /\ ~Retried' => ~Retried
  BY Admitted DEF ChargeInv
<1>2. api'.pc = "withdraw" /\ api'.req = r /\ ~AtPay' /\ AtWithdraw'
  BY DEF At, AtPay, AtWithdraw
<1>3. PICK id : id = WithdrawId(r)
  OBVIOUS
<1>4. PICK x : holds' = holds \cup {x} /\ x.id = id /\ x.node = r.node /\ x.amt = r.amt /\ HoldWith(x.id) = {}
  <2>1. PICK x : x = [id |-> id, node |-> r.node, amt |-> r.amt, base |-> r.amt, kind |-> "withdraw"]
    OBVIOUS
  <2>2. holds' = holds \cup {x} /\ HoldWith(id) = {}
    BY <1>3, <2>1 DEF hold_kind, CanHold
  <2>3. x.id = id /\ x.node = r.node /\ x.amt = r.amt
    BY <2>1
  <2> QED
    BY <2>2, <2>3, Zenon
<1>5. /\ HoldWith(id)' = {x} /\ \A k : k # id => HoldWith(k)' = HoldWith(k)
      /\ \A y \in holds : y.id # id
  BY <1>4, HoldsMade
<1>6. id[1] = "withdraw" /\ id[2] = r.node /\ WithdrawId(api.req)' = id
  BY <1>2, <1>3 DEF WithdrawId
<1>7. TaskHolds
  BY <1>5, <1>6 DEF TaskHolds
<1>8. OrphansStay
  BY <1>1, <1>4, <1>5, <1>6 DEF OrphansStay, Orphan
<1>9. ServedInv'
  <2>1. IsFiniteSet(entries')
    BY DEF ChargeInv, ServedInv
  <2> QED
    BY <1>2, <2>1, ServedAdmit DEF ChargeInv
<1>10. HandInv'
  BY <1>1 DEF ChargeInv, HandInv
<1>11. ThreadHolds'
  <2>1. ThreadHolds
    BY DEF ChargeInv, HoldInv
  <2>2. \A y \in holds' : y.id[1] \in PendingKinds \cup {"withdraw"} => y.node = y.id[2]
    BY <1>4, <1>6, <2>1 DEF ThreadHolds
  <2>3. x \in HoldWith(WithdrawId(api.req))' /\ x.amt = api'.req.amt
    BY <1>2, <1>4, <1>6 DEF HoldWith
  <2>4. HoldWith(PendingId(main.how, main.ref)) \subseteq HoldWith(PendingId(main.how, main.ref))'
    BY <1>1, <1>4 DEF HoldWith, PendingId
  <2>5. Coins(api.req)' \notin onchain'
    BY <1>1, <1>2 DEF Coins
  <2> QED
    BY <1>1, <1>2, <2>1, <2>2, <2>3, <2>4, <2>5 DEF ThreadHolds
<1>12. \A n \in Nodes : WithdrawnOf(n)' = WithdrawnOf(n) /\ Debited(n)' = Debited(n)
  BY <1>1, <1>2 DEF WithdrawnOf, Leaving, Coins, Debited, Credits, Given
<1> QED
  BY <1>1, <1>2, <1>7, <1>8, <1>9, <1>10, <1>11, <1>12, OtherHold

\* A send is reserved: nothing that was sent for its invoice is still pending.
LEMMA ChargePay ==
    ASSUME IInv, IInv', ChargeInv, serve, NEW r, r = api.req, served' = [served EXCEPT ![r] = @ + 1],
           r.op = "pay",
           NEW a, a = Amt(r.hash) + fee_cap_msat(Amt(r.hash)), r.hash \in Hashes,
           CanHold(r.node, SendId(r.hash), a),
           hold_kind(r.node, SendId(r.hash), a, Amt(r.hash), "send"), At("pay", r),
           UNCHANGED <<balance, entries>>
    PROVE  ChargeInv'
<1>1. /\ UNCHANGED <<onchain, scenario, crashes, queue, out, main>> /\ ~AtWithdraw /\ api.pc = "nonce"
      /\ ~Retried' => ~Retried
      /\ ~Retried' => \A i \in 1..Len(out) : IsSend(i) => out[i].ref # r.hash
  BY Admitted DEF ChargeInv
<1>2. api'.pc = "pay" /\ api'.req = r /\ AtPay' /\ ~AtWithdraw'
  BY DEF At, AtPay, AtWithdraw
<1>3. PICK id : id = SendId(r.hash)
  OBVIOUS
<1>4. PICK x : /\ holds' = holds \cup {x} /\ x.id = id /\ HoldWith(x.id) = {}
               /\ x.node = r.node /\ x.amt = a /\ x.base = Amt(r.hash)
  <2>1. PICK x : x = [id |-> id, node |-> r.node, amt |-> a, base |-> Amt(r.hash), kind |-> "send"]
    OBVIOUS
  <2>2. holds' = holds \cup {x} /\ HoldWith(id) = {}
    BY <1>3, <2>1 DEF hold_kind, CanHold
  <2>3. x.id = id /\ x.node = r.node /\ x.amt = a /\ x.base = Amt(r.hash)
    BY <2>1
  <2> QED
    BY <2>2, <2>3, Zenon
<1>5. /\ HoldWith(id)' = {x} /\ \A k : k # id => HoldWith(k)' = HoldWith(k)
      /\ \A y \in holds : y.id # id
  BY <1>4, HoldsMade
<1>6. Covers(x, r.node, r.hash)
  <2>1. Amt(r.hash) \in Nat /\ MinFee \in Nat
    BY LspConstants
  <2>2. a >= Amt(r.hash) + MinFee
    BY <2>1 DEF fee_cap_msat
  <2> QED
    BY <1>4, <2>2 DEF Covers
<1>7. id[1] = "send" /\ \A h : SendId(h) = id <=> h = r.hash
  BY <1>3 DEF SendId
<1>8. TasksSame /\ EventsKept /\ HandInv'
  BY <1>1, TasksOut, QueueSame DEF ChargeInv, HandInv
<1>9. OutInv'
  BY <1>8, OutKept DEF ChargeInv
<1>10. ServedInv'
  <2>1. IsFiniteSet(entries')
    BY DEF ChargeInv, ServedInv
  <2> QED
    BY <1>2, <2>1, ServedAdmit DEF ChargeInv
<1>11. \A i \in 1..Len(out) : IsSend(i)' = IsSend(i) /\ (Due(i)' <=> Due(i)) /\ (Pending(i)' <=> Pending(i))
  BY <1>1 DEF IsSend, Pending, Due
<1>12. OnceInv'
  BY <1>1, <1>2, <1>11 DEF ChargeInv, OnceInv
<1>13. OrphansStay
  BY <1>1, <1>2, <1>4 DEF OrphansStay, Orphan
<1>14. MoveHolds
  BY <1>5, <1>7 DEF MoveHolds, Moves
<1>15. HoldInv'
  <2>1. ThreadHolds /\ HoldInv
    BY DEF ChargeInv, HoldInv
  <2>2. \A y \in holds' : y.id[1] \in PendingKinds \cup {"withdraw"} => y.node = y.id[2]
    BY <1>4, <1>7, <2>1 DEF ThreadHolds, PendingKinds
  <2>3. HoldWith(PendingId(main.how, main.ref)) \subseteq HoldWith(PendingId(main.how, main.ref))'
    BY <1>1, <1>4 DEF HoldWith, PendingId
  <2>4. ThreadHolds'
    BY <1>1, <1>2, <2>1, <2>2, <2>3 DEF ThreadHolds
  <2>5. MovesOld
    BY <1>1 DEF MovesOld
  <2> QED
    BY <1>13, <1>14, <2>1, <2>4, <2>5, MovesKept DEF HoldInv
<1>16. Exact' => Exact
  BY <1>1 DEF Exact
<1>17. ASSUME Exact', SendInv, NEW i \in 1..Len(out), IsSend(i), out[i].ref = r.hash PROVE ~Pending(i)
  <2>1. CASE ~Retried'
    BY <1>1, <1>17, <2>1
  <2>2. CASE crashes = 0
    BY <1>3, <1>4, <1>17, <2>2 DEF SendInv
  <2> QED
    BY <1>1, <1>17, <2>1, <2>2 DEF Exact
<1>18. ASSUME NEW i \in 1..Len(out), out[i].ref # r.hash
       PROVE  HoldWith(SendId(out[i].ref))' = HoldWith(SendId(out[i].ref))
  <2>1. PICK k : k = SendId(out[i].ref)
    OBVIOUS
  <2>2. HoldWith(k)' = HoldWith(k)
    BY <1>5, <1>7, <1>18, <2>1
  <2> QED
    BY <1>1, <2>1, <2>2 DEF HoldWith, SendId
<1>19. ASSUME Exact', SendInv PROVE SendInv'
  <2>1. AtPay' =>
           /\ \E y \in HoldWith(SendId(api.req.hash))' : Covers(y, api'.req.node, api'.req.hash)
           /\ \A i \in 1..Len(out') : IsSend(i)' /\ out'[i].ref = api'.req.hash => ~Pending(i)'
    <3>1. x \in HoldWith(SendId(api.req.hash))'
      BY <1>2, <1>3, <1>4 DEF HoldWith, SendId
    <3> QED
      BY <1>1, <1>2, <1>6, <1>11, <1>17, <1>19, <3>1
  <2>2. \A i, j \in 1..Len(out') :
           IsSend(i)' /\ IsSend(j)' /\ out'[i].ref = out'[j].ref /\ Pending(i)' /\ Pending(j)' => i = j
    BY <1>1, <1>11, <1>19 DEF SendInv
  <2>3. ASSUME NEW i \in 1..Len(out'), IsSend(i)', Pending(i)'
        PROVE  /\ crashes' = 0 \/ out'[i].st = "flying" => HoldWith(SendId(out[i].ref))' # {}
               /\ \A y \in HoldWith(SendId(out[i].ref))' : Covers(y, out'[i].node, out'[i].ref)
    <3>1. i \in 1..Len(out) /\ IsSend(i) /\ Pending(i) /\ out[i].ref # r.hash
      BY <1>1, <1>11, <1>17, <1>19, <2>3
    <3> QED
      BY <1>1, <1>18, <1>19, <3>1 DEF SendInv
  <2>4. ASSUME ~Retried', NEW i \in 1..Len(out'), IsSend(i)', ~Pending(i)'
        PROVE  HoldWith(SendId(out[i].ref))' = {}
    <3>1. i \in 1..Len(out) /\ IsSend(i) /\ ~Pending(i) /\ ~Retried /\ out[i].ref # r.hash
      BY <1>1, <1>11, <2>4
    <3> QED
      BY <1>1, <1>18, <1>19, <3>1 DEF SendInv
  <2> QED
    BY <2>1, <2>2, <2>3, <2>4 DEF SendInv
<1>20. ASSUME Exact', SendInv, NEW i \in 1..Len(out) PROVE Settled(i)' <=> Settled(i)
  <2>1. CASE IsSend(i) /\ out[i].ref = r.hash
    <3>1. ~Due(i) /\ ~Due(i)'
      BY <1>11, <1>17, <1>20, <2>1 DEF Pending
    <3> QED
      BY <1>1, <2>1, <3>1 DEF Settled, Open, IsTask, IsSend, IsMove, Moves
  <2>2. CASE IsSend(i) /\ out[i].ref # r.hash
    BY <1>1, <1>11, <1>18, <2>2 DEF Settled, Open, IsTask, IsSend, IsMove, Moves
  <2>3. CASE IsMove(i)
    <3>1. PICK k : k = MoveId(i)
      OBVIOUS
    <3>2. HoldWith(k)' = HoldWith(k)
      BY <1>14, <2>3, <3>1, TaskIds DEF MoveHolds
    <3>3. HoldWith(MoveId(i))' = HoldWith(MoveId(i))
      BY <1>1, <3>1, <3>2 DEF HoldWith, MoveId
    <3> QED
      BY <1>1, <2>3, <3>3 DEF Settled, Open, IsTask, IsSend, IsMove, Moves
  <2>4. CASE ~IsTask(i)
    BY <1>1, <2>4 DEF Settled, IsTask, IsSend, IsMove
  <2> QED
    BY <2>1, <2>2, <2>3, <2>4 DEF IsTask
<1>21. ASSUME Exact', SendInv, BalanceInv PROVE BalanceInv'
  <2>1. \A n \in Nodes : WithdrawnOf(n)' = WithdrawnOf(n) /\ Debited(n)' = Debited(n)
    BY <1>1, <1>2 DEF WithdrawnOf, Leaving, Coins, Debited, Credits, Given
  <2>2. out' \in Seq(Outgoing) /\ Len(out) \in Nat /\ Len(out') >= Len(out)
        /\ \A i \in 1..Len(out') : ~(i > Len(out))
    BY <1>1 DEF IInv, OtherTypes
  <2> QED
    BY <1>1, <1>13, <1>20, <1>21, <2>1, <2>2, BalanceQuiet
<1> QED
  BY <1>8, <1>9, <1>10, <1>12, <1>15, <1>16, <1>19, <1>21 DEF ChargeInv

\* Each request of the API.
LEMMA ChargeServe ==
    ASSUME IInv, IInv', MoneyMoves, ChargeInv, serve
    PROVE  ChargeInv'
<1>0. PICK r : r = api.req
  OBVIOUS
<1>1. UNCHANGED <<onchain, scenario, crashes, queue, out, main>> /\ ~Working
  BY DEF serve, world, ldk, Working
<1>2. ASSUME served' = [served EXCEPT ![r] = @ + 1], UNCHANGED holds, api' = IdleApi PROVE ChargeInv'
  <2>1. IsFiniteSet(entries') /\ \A n \in Nodes : Debited(n)' = Debited(n)
    BY <1>2, DebitQuiet DEF ChargeInv
  <2>2. ~Working'
    BY <1>2, IdleThreads DEF Working
  <2>3. ServedInv' /\ (~Retried' => ~Retried)
    BY <1>0, <1>2, <2>1, <2>2, ServedAdmit, Admitted DEF ChargeInv
  <2> QED
    BY <1>1, <1>2, <2>1, <2>2, <2>3, ChargeAsked
<1>3. ASSUME UNCHANGED <<balance, holds, entries, served>>, api' = IdleApi PROVE ChargeInv'
  <2>1. IsFiniteSet(entries') /\ \A n \in Nodes : Debited(n)' = Debited(n)
    BY <1>3, DebitQuiet DEF ChargeInv
  <2>2. ~Working'
    BY <1>3, IdleThreads DEF Working
  <2>3. ServedInv'
    BY <1>1, <1>3, <2>1, <2>2, TasksOut, ServedKept DEF ChargeInv
  <2> QED
    BY <1>1, <1>3, <2>1, <2>2, <2>3, ChargeAsked, RetriedSame
<1>4. ASSUME served' = [served EXCEPT ![r] = @ + 1], pay(r) PROVE ChargeInv'
  <2>1. PICK a : a = Amt(r.hash) + fee_cap_msat(Amt(r.hash))
    OBVIOUS
  <2>2. \/ UNCHANGED holds /\ api' = IdleApi
        \/ /\ CanHold(r.node, SendId(r.hash), a) /\ r.hash \in OfKind("ext")
           /\ hold_kind(r.node, SendId(r.hash), a, Amt(r.hash), "send") /\ At("pay", r)
           /\ UNCHANGED <<balance, entries>>
    BY <1>4, <2>1 DEF pay
  <2>3. r.op = "pay"
    BY <1>4 DEF pay
  <2>4. r.hash \in OfKind("ext") => r.hash \in Hashes
    BY DEF OfKind
  <2> QED
    BY <1>0, <1>2, <1>4, <2>1, <2>2, <2>3, <2>4, ChargePay
<1>5. ASSUME served' = [served EXCEPT ![r] = @ + 1], withdraw(r) PROVE ChargeInv'
  <2>1. \/ UNCHANGED holds /\ api' = IdleApi
        \/ /\ CanHold(r.node, WithdrawId(r), r.amt)
           /\ hold_kind(r.node, WithdrawId(r), r.amt, r.amt, "withdraw") /\ At("withdraw", r)
    BY <1>5 DEF withdraw
  <2>2. r.op = "withdraw" /\ UNCHANGED <<balance, entries>>
    BY <1>5 DEF withdraw
  <2> QED
    BY <1>0, <1>2, <1>5, <2>1, <2>2, ChargeWithdraw
<1>6. ASSUME invoice(r) \/ fee_invoice(r) \/ offer(r) \/ channel_invoice(r)
      PROVE  UNCHANGED holds /\ api' = IdleApi
  BY <1>6 DEF invoice, fee_invoice, offer, channel_invoice
<1>7. \/ api' = IdleApi /\ UNCHANGED <<balance, holds, entries, served>>
      \/ served' = [served EXCEPT ![r] = @ + 1] /\ Request(r)
  BY <1>0 DEF serve, Request
<1> QED
  BY <1>2, <1>3, <1>4, <1>5, <1>6, <1>7 DEF Request

\* A request comes in.
LEMMA ChargeHandle ==
    ASSUME IInv, IInv', ChargeInv, NEW r \in scenario.requests, handle(r)
    PROVE  ChargeInv'
<1>1. /\ UNCHANGED <<balance, holds, entries, onchain, served, scenario, crashes, queue, out, main>>
      /\ ~Working /\ ~Working'
  BY DEF handle, ledger, world, ldk, Working, At
<1>2. IsFiniteSet(entries') /\ \A n \in Nodes : Debited(n)' = Debited(n)
  BY <1>1 DEF ChargeInv, ServedInv, Debited, Credits, Given
<1>3. ServedInv'
  BY <1>1, <1>2, TasksOut, ServedKept DEF ChargeInv
<1> QED
  BY <1>1, <1>2, <1>3, ChargeAsked, RetriedSame

\* The node refuses to pay or to send coins.
LEMMA ChargeRefused ==
    ASSUME IInv, IInv', ChargeInv, api.pc \in {"pay", "withdraw"}, At("unpaid", api.req),
           UNCHANGED <<balance, holds, entries, onchain, served, scenario, crashes, queue, out, main>>
    PROVE  ChargeInv'
<1>1. api'.pc = "unpaid" /\ api'.req = api.req /\ WithdrawId(api.req)' = WithdrawId(api.req)
  BY DEF At, WithdrawId
<1>2. (AtPay' <=> AtPay) /\ (AtWithdraw' <=> AtWithdraw) /\ (AtPay \/ AtWithdraw)
  BY <1>1 DEF AtPay, AtWithdraw, IInv, ApiInv
<1>3. HandInv' /\ TaskHolds /\ \A k : HoldWith(k)' = HoldWith(k)
  BY DEF ChargeInv, HandInv, TaskHolds, HoldWith
<1>4. ServedInv'
  BY <1>1, <1>2, TasksOut, ServedKept DEF ChargeInv, ServedInv, Working
<1>5. OrphansStay
  BY <1>1, <1>2 DEF OrphansStay, Orphan, PendingId
<1>6. Coins(api.req)' = Coins(api.req) /\ Coins(api.req) \notin onchain
  <2>0. Coins(api.req)' = Coins(api.req) /\ Coins(api.req).req = api.req
    BY <1>1 DEF Coins
  <2>1. CASE api.pc = "withdraw"
    BY <2>0, <2>1 DEF ChargeInv, HoldInv, ThreadHolds
  <2>2. CASE api.pc = "pay"
    BY <2>0, <2>2 DEF ChargeInv, ServedInv, IInv, ApiInv
  <2> QED
    BY <2>0, <2>1, <2>2
<1>7. ThreadHolds'
  <2>1. ThreadHolds
    BY DEF ChargeInv, HoldInv
  <2>2. HoldWith(WithdrawId(api.req))' = HoldWith(WithdrawId(api.req))
        /\ HoldWith(PendingId(main.how, main.ref))' = HoldWith(PendingId(main.how, main.ref))
    BY <1>1 DEF HoldWith, PendingId
  <2> QED
    BY <1>1, <1>2, <1>6, <2>1, <2>2 DEF ThreadHolds
<1>8. \A n \in Nodes : WithdrawnOf(n)' = WithdrawnOf(n) /\ Debited(n)' = Debited(n)
  BY <1>1 DEF WithdrawnOf, Leaving, Coins, Debited, Credits, Given
<1> QED
  BY <1>1, <1>2, <1>3, <1>4, <1>5, <1>7, <1>8, OtherHold, RetriedSame

\* The node sends the payment: its hold is the one the request made.
LEMMA ChargeSent ==
    ASSUME IInv, IInv', ChargeInv, send_bolt11, api' = IdleApi
    PROVE  ChargeInv'
<1>1. UNCHANGED <<balance, holds, entries, onchain, served, scenario, crashes, queue, main>>
      /\ api.pc = "pay" /\ api'.pc = "idle" /\ ~AtPay' /\ ~AtWithdraw'
  BY IdleThreads DEF send_bolt11, ledger, world, AtPay, AtWithdraw
<1>2. PICK r : r = api.req
  OBVIOUS
<1>3. r \in Requests /\ r.op = "pay" /\ r.node \in Nodes /\ r.hash \in Hashes /\ Amt(r.hash) \in Nat /\ AtPay
  BY <1>1, <1>2, LspConstants DEF IInv, OtherTypes, ApiInv, OfKind, AtPay
<1>4. /\ Sent("send", r.node, r.hash, Amt(r.hash), Amt(r.hash))
      /\ \A i \in 1..Len(out) : IsSend(i) /\ out[i].ref = r.hash => out[i].st = "failed"
  BY <1>1, <1>2 DEF send_bolt11, IsSend, At
<1>5. /\ NewTask /\ out'[Len(out')].why = "send" /\ out'[Len(out')].node = r.node
      /\ out'[Len(out')].ref = r.hash /\ out'[Len(out')].charge = Amt(r.hash)
  <2>1. "send" \in Moves \cup {"send", "forward"} /\ r.hash \in Hashes \cup {"none"}
    BY <1>3
  <2>2. /\ OutGrows /\ Len(out') = Len(out) + 1
        /\ \A i \in 1..Len(out) : out'[i] = out[i]
        /\ out'[Len(out')] = [why |-> "send", node |-> r.node, ref |-> r.hash, amt |-> Amt(r.hash),
                              charge |-> Amt(r.hash), st |-> "flying", fee |-> 0]
    BY <1>3, <1>4, <2>1, SentGrows
  <2> QED
    BY <2>2 DEF NewTask, OutGrows
<1>6. PICK m : m = Len(out')
  OBVIOUS
<1>7. /\ Len(out) \in Nat /\ Len(out') = Len(out) + 1 /\ m \notin 1..Len(out) /\ m \in 1..Len(out')
      /\ \A i \in 1..Len(out') : i \in 1..Len(out) \/ i = m
      /\ \A i \in 1..Len(out) : /\ i \in 1..Len(out') /\ out'[i] = out[i] /\ IsSend(i)' = IsSend(i)
                                /\ IsMove(i)' = IsMove(i) /\ MoveId(i)' = MoveId(i)
      /\ IsSend(m)' /\ ~IsMove(m)'
  BY <1>5, <1>6, OthersSame DEF IsSend, IsMove, Moves
<1>8. HandInv' /\ OutInv'
  <2>1. HandInv'
    BY <1>1, <1>5, HandGrown DEF ChargeInv
  <2>2. OutInv'
    BY <1>1, <1>4, <1>5, OutGrown DEF ChargeInv
  <2> QED
    BY <2>1, <2>2
<1>9. ServedInv'
  <2>1. r \in scenario.requests /\ served[r] >= 1
    BY <1>1, <1>2 DEF ChargeInv, ServedInv, Working
  <2>2. ASSUME NEW i \in 1..Len(out'), IsSend(i)'
        PROVE  /\ out'[i].ref \in Hashes /\ out'[i].charge = Amt(out'[i].ref)
               /\ \E q \in scenario'.requests : q.op = "pay" /\ q.hash = out'[i].ref /\ served'[q] >= 1
    <3>1. CASE i = m
      BY <1>1, <1>3, <1>5, <1>6, <2>1, <3>1
    <3>2. CASE i \in 1..Len(out)
      BY <1>1, <1>7, <2>2, <3>2 DEF ChargeInv, ServedInv
    <3> QED
      BY <1>7, <3>1, <3>2
  <2> QED
    BY <1>1, <2>2 DEF ChargeInv, ServedInv, Working
<1>10. OnceInv'
  <2> SUFFICES ASSUME ~Retried', NEW i \in 1..Len(out'), NEW j \in 1..Len(out'),
                      IsSend(i)', IsSend(j)', out'[i].ref = out'[j].ref
               PROVE  i = j
    BY <1>1 DEF OnceInv
  <2>1. /\ \A k, l \in 1..Len(out) : IsSend(k) /\ IsSend(l) /\ out[k].ref = out[l].ref => k = l
        /\ \A k \in 1..Len(out) : IsSend(k) => out[k].ref # r.hash
    BY <1>1, <1>2, <1>3 DEF ChargeInv, OnceInv, Retried
  <2>2. out'[m].ref = r.hash
    BY <1>5, <1>6
  <2> QED
    BY <1>7, <2>1, <2>2
<1>11. OrphansStay /\ TaskHolds /\ MoveHolds /\ \A k : HoldWith(k)' = HoldWith(k)
  BY <1>1, <1>2, <1>3 DEF OrphansStay, Orphan, TaskHolds, MoveHolds, HoldWith
<1>12. MovesOld
  BY <1>1, <1>7 DEF MovesOld
<1>13. HoldInv'
  <2>1. ThreadHolds /\ HoldInv
    BY DEF ChargeInv, HoldInv
  <2>2. main.pc = "rename" => main.amt \in 1..Len(out)
    BY DEF IInv, MainInv
  <2>3. HoldWith(PendingId(main.how, main.ref))' = HoldWith(PendingId(main.how, main.ref))
    BY <1>1 DEF HoldWith, PendingId
  <2>4. ThreadHolds'
    BY <1>1, <1>7, <2>1, <2>2, <2>3 DEF ThreadHolds
  <2> QED
    BY <1>11, <1>12, <2>1, <2>4, MovesKept DEF HoldInv
<1>14. \A i \in 1..Len(out) : (Settled(i)' <=> Settled(i)) /\ (Pending(i)' <=> Pending(i))
  BY <1>1, <1>7, <1>11, SettledStays
<1>15. Exact' <=> Exact
  BY <1>1 DEF Exact, Retried
<1>16. \A i \in 1..Len(out) : HoldWith(SendId(out[i].ref))' = HoldWith(SendId(out[i].ref))
  BY <1>1, <1>7 DEF HoldWith, SendId
<1>17. ASSUME SendInv PROVE SendInv'
  <2>1. PICK x \in HoldWith(SendId(r.hash)) : Covers(x, r.node, r.hash)
    BY <1>2, <1>3, <1>17 DEF SendInv
  <2>2. \A y \in HoldWith(SendId(r.hash)) : Covers(y, r.node, r.hash)
    BY <2>1 DEF HoldWith, IInv, Money
  <2>3. \A i \in 1..Len(out) : IsSend(i) /\ out[i].ref = r.hash => ~Pending(i)
    BY <1>2, <1>3, <1>17 DEF SendInv
  <2>4. out'[m].ref = r.hash /\ out'[m].node = r.node /\ HoldWith(SendId(out[m].ref))' = HoldWith(SendId(r.hash))
    BY <1>1, <1>5, <1>6 DEF HoldWith, SendId
  <2>5. ASSUME NEW i \in 1..Len(out'), NEW j \in 1..Len(out'), IsSend(i)', IsSend(j)',
               out'[i].ref = out'[j].ref, Pending(i)', Pending(j)'
        PROVE  i = j
    <3>1. CASE i = m /\ j = m
      BY <3>1
    <3>2. CASE i \in 1..Len(out) /\ j \in 1..Len(out)
      BY <1>7, <1>14, <1>17, <2>5, <3>2 DEF SendInv
    <3>3. CASE i = m /\ j \in 1..Len(out)
      BY <1>7, <1>14, <2>3, <2>4, <2>5, <3>3
    <3>4. CASE j = m /\ i \in 1..Len(out)
      BY <1>7, <1>14, <2>3, <2>4, <2>5, <3>4
    <3> QED
      BY <1>7, <3>1, <3>2, <3>3, <3>4
  <2>6. ASSUME NEW i \in 1..Len(out'), IsSend(i)'
        PROVE  /\ Pending(i)' =>
                     /\ crashes' = 0 \/ out'[i].st = "flying" => HoldWith(SendId(out[i].ref))' # {}
                     /\ \A y \in HoldWith(SendId(out[i].ref))' : Covers(y, out'[i].node, out'[i].ref)
               /\ ~Retried' /\ ~Pending(i)' => HoldWith(SendId(out[i].ref))' = {}
    <3>1. CASE i = m
      <4>1. Pending(i)'
        BY <1>5, <1>6, <3>1 DEF Pending, NewTask
      <4> QED
        BY <2>1, <2>2, <2>4, <3>1, <4>1
    <3>2. CASE i \in 1..Len(out)
      <4>1. IsSend(i) /\ out'[i] = out[i] /\ (Pending(i)' <=> Pending(i)) /\ (Retried' <=> Retried)
        BY <1>1, <1>7, <1>14, <2>6, <3>2 DEF Retried
      <4> QED
        BY <1>1, <1>16, <1>17, <3>2, <4>1 DEF SendInv
    <3> QED
      BY <1>7, <3>1, <3>2
  <2> QED
    BY <1>1, <2>5, <2>6 DEF SendInv
<1>18. ASSUME BalanceInv PROVE BalanceInv'
  <2>1. \A n \in Nodes : WithdrawnOf(n)' = WithdrawnOf(n) /\ Debited(n)' = Debited(n)
    BY <1>1 DEF WithdrawnOf, Leaving, Coins, Debited, Credits, Given
  <2>2. /\ out' \in Seq(Outgoing) /\ Len(out') >= Len(out)
        /\ \A i \in 1..Len(out') : i > Len(out) => out'[i].st = "flying"
    BY <1>5, <1>6, <1>7 DEF NewTask
  <2> QED
    BY <1>7, <1>11, <1>14, <1>18, <2>1, <2>2, BalanceQuiet
<1> QED
  BY <1>8, <1>9, <1>10, <1>13, <1>15, <1>17, <1>18 DEF ChargeInv

\* Coins leave for a withdrawal, and are debited when its hold is spent.
LEMMA ChargeCoins ==
    ASSUME IInv, IInv', ChargeInv, send_onchain, At("settle", api.req)
    PROVE  ChargeInv'
<1>1. UNCHANGED <<balance, holds, entries, served, scenario, crashes, queue, out, main>>
      /\ api.pc = "withdraw" /\ onchain' = onchain \cup {Coins(api.req)}
  BY DEF send_onchain, ledger, world, At
<1>2. api'.pc = "settle" /\ api'.req = api.req /\ WithdrawId(api.req)' = WithdrawId(api.req)
  BY DEF At, WithdrawId
<1>3. AtWithdraw /\ AtWithdraw' /\ ~AtPay' /\ api.req.op = "withdraw"
  BY <1>1, <1>2 DEF AtPay, AtWithdraw, IInv, ApiInv
<1>4. HandInv' /\ TaskHolds /\ \A k : HoldWith(k)' = HoldWith(k)
  BY <1>1 DEF ChargeInv, HandInv, TaskHolds, HoldWith
<1>5. ServedInv'
  <2>1. IsFiniteSet(onchain')
    BY <1>1, FS_AddElement DEF ChargeInv, ServedInv
  <2>2. \A i \in 1..Len(out) : IsSend(i)' <=> IsSend(i)
    BY <1>1 DEF IsSend
  <2>3. api.req \in scenario.requests /\ served[api.req] >= 1 /\ served[api.req] \in Nat
    BY <1>1 DEF ChargeInv, ServedInv, Working, IInv, OtherTypes
  <2>4. ASSUME NEW c \in onchain'
        PROVE  c.req \in scenario.requests /\ c.req.op = "withdraw" /\ c.nth <= served[c.req]
    BY <1>1, <1>3, <2>3 DEF ChargeInv, ServedInv, Coins
  <2> QED
    BY <1>1, <1>2, <1>3, <2>1, <2>2, <2>3, <2>4 DEF ChargeInv, ServedInv
<1>6. OrphansStay
  BY <1>1, <1>2 DEF OrphansStay, Orphan, WithdrawId, AtWithdraw
<1>7. ThreadHolds /\ Coins(api.req) \notin onchain
  BY <1>1 DEF ChargeInv, HoldInv, ThreadHolds
<1>8. ThreadHolds'
  <2>1. HoldWith(WithdrawId(api.req))' = HoldWith(WithdrawId(api.req))
        /\ HoldWith(PendingId(main.how, main.ref))' = HoldWith(PendingId(main.how, main.ref))
    BY <1>1, <1>2 DEF HoldWith, PendingId
  <2>2. Coins(api.req)' = Coins(api.req)
    BY <1>1, <1>2 DEF Coins
  <2> QED
    BY <1>1, <1>2, <1>3, <1>7, <2>1, <2>2 DEF ThreadHolds
<1>9. \A n \in Nodes : WithdrawnOf(n)' = WithdrawnOf(n) /\ Debited(n)' = Debited(n)
  BY <1>1, <1>2, <1>7 DEF WithdrawnOf, Leaving, Coins, Debited, Credits, Given
<1> QED
  BY <1>1, <1>2, <1>3, <1>4, <1>5, <1>6, <1>8, <1>9, OtherHold, RetriedSame

\* A withdrawal ends: its coins left and are debited, or its hold is given back.
LEMMA ChargeWithdrawEnds ==
    ASSUME IInv, IInv', ChargeInv, ApiSettle, api.req.op = "withdraw"
    PROVE  ChargeInv'
<1>1. UNCHANGED <<entries, onchain, served, scenario, crashes, queue, out, main>>
      /\ api' = IdleApi /\ api'.pc = "idle" /\ ~AtPay' /\ ~AtWithdraw' /\ api.pc \in {"settle", "unpaid"}
  BY IdleThreads DEF ApiSettle, ldk, world, AtPay, AtWithdraw
<1>2. ThreadHolds /\ AtWithdraw /\ IsFiniteSet(entries) /\ Money
  BY <1>1 DEF ChargeInv, HoldInv, ServedInv, AtWithdraw, IInv
<1>3. PICK r, id : r = api.req /\ id = WithdrawId(r)
  OBVIOUS
<1>4. PICK x \in HoldWith(id) : x.amt = r.amt
  BY <1>2, <1>3 DEF ThreadHolds
<1>5. id[1] = "withdraw" /\ id[2] = r.node /\ \A how, n : PendingId(how, n) # id
  BY <1>3, PendingKind DEF WithdrawId
<1>6. x.node = r.node /\ HoldWith(id) = {x} /\ x.amt \in Nat
  BY <1>2, <1>4, <1>5 DEF HoldWith, ThreadHolds, Money, Hold
<1>7. take_hold(id) /\ holds' = holds \ HoldWith(id)
  BY <1>2, <1>3, <1>6 DEF ApiSettle, settle_withdrawal, settle_hold, take_hold
<1>8. /\ \A k : k # id => HoldWith(k)' = HoldWith(k)
      /\ \A y \in holds : y.id # id => y \in holds'
      /\ holds' \subseteq holds
  BY <1>7, HoldsTaken
<1>9. TaskHolds
  BY <1>5, <1>8 DEF TaskHolds
<1>10. OrphansStay
  <2> SUFFICES ASSUME NEW y \in holds, Orphan(y) PROVE y \in holds' /\ Orphan(y)'
    BY DEF OrphansStay
  <2>1. y.id # id
    BY <1>2, <1>3, <1>5 DEF Orphan, PendingKinds, AtWithdraw
  <2>2. Orphan(y)'
    BY <1>1 DEF Orphan
  <2> QED
    BY <1>8, <2>1, <2>2
<1>11. ServedInv' /\ HandInv'
  BY <1>1, TasksOut, ServedKept DEF ChargeInv, ServedInv, HandInv, Working
<1>12. ThreadHolds'
  <2>1. \A y \in holds' : y.id[1] \in PendingKinds \cup {"withdraw"} => y.node = y.id[2]
    BY <1>2, <1>8 DEF ThreadHolds
  <2>2. HoldWith(PendingId(main.how, main.ref))' = HoldWith(PendingId(main.how, main.ref))
    <3>1. PICK k : k = PendingId(main.how, main.ref)
      OBVIOUS
    <3>2. HoldWith(k)' = HoldWith(k)
      BY <1>5, <1>8, <3>1
    <3> QED
      BY <1>1, <3>1, <3>2 DEF HoldWith, PendingId
  <2> QED
    BY <1>1, <1>2, <2>1, <2>2 DEF ThreadHolds
<1>13. \A i \in 1..Len(out) : Settled(i)' <=> Settled(i)
  BY <1>1, <1>9, SettledStays
<1>14. CASE api.pc = "unpaid"
  <2>1. settle_hold(id, 0) /\ 0 \in Nat /\ 0 <= x.amt
    BY <1>3, <1>6, <1>14 DEF ApiSettle
  <2>2. \A n \in Nodes : Debited(n)' = Debited(n) + (IF n = x.node THEN 0 ELSE 0)
    BY <1>1, <1>2, <2>1, SettleIs
  <2>3. \A n \in Nodes : Debited(n) \in Int
    BY <1>2, DebitMoves
  <2>4. \A n \in Nodes : WithdrawnOf(n)' = WithdrawnOf(n) /\ Debited(n)' = Debited(n)
    BY <1>1, <1>14, <2>2, <2>3 DEF WithdrawnOf, Leaving, Coins
  <2> QED
    BY <1>1, <1>9, <1>10, <1>11, <1>12, <2>4, OtherHold, RetriedSame
<1>15. CASE api.pc = "settle"
  <2>1. add_balance(x.node, -x.amt)
    BY <1>3, <1>6, <1>15 DEF ApiSettle, settle_withdrawal
  <2>2. x.amt \in 0..x.amt
    BY <1>6
  <2>3. \A n \in Nodes : Debited(n)' = Debited(n) + (IF n = x.node THEN x.amt ELSE 0)
    BY <1>1, <1>2, <1>7, <2>1, <2>2, SettleDebits
  <2>0. PICK c : c = Coins(r)
    OBVIOUS
  <2>4. c.node = r.node /\ c.amt = r.amt
    BY <2>0 DEF Coins
  <2>7. \A n \in Nodes : Debited(n)' = Debited(n) + (IF n = c.node THEN c.amt ELSE 0)
    BY <1>4, <1>6, <2>3, <2>4
  <2>5. /\ c \in onchain /\ IsFiniteSet(onchain) /\ \A q \in onchain : q.amt \in Nat
        /\ Leaving(c) /\ \A q : ~Leaving(q)' /\ out \in Seq(Outgoing)
    BY <1>1, <1>2, <1>3, <1>15, <2>0 DEF ChargeInv, ServedInv, ThreadHolds, Leaving, IInv, OtherTypes
  <2>6. ASSUME BalanceInv PROVE BalanceInv'
    <3>1. ASSUME NEW n \in Nodes, Balanced(n) PROVE Balanced(n)'
      BY <1>1, <1>13, <2>5, <2>7, <3>1, BalancedCoins
    <3> QED
      BY <1>10, <2>6, <3>1, BalanceKept DEF OrphansStay
  <2> QED
    BY <1>1, <1>9, <1>10, <1>11, <1>12, <2>6, OtherHold, RetriedSame
<1> QED
  BY <1>1, <1>14, <1>15

\* A payment that was not sent: its hold is given back, and nothing pending needs it.
LEMMA ChargePayEnds ==
    ASSUME IInv, IInv', ChargeInv, ApiSettle, api.req.op = "pay"
    PROVE  ChargeInv'
<1>1. UNCHANGED <<entries, onchain, served, scenario, crashes, queue, out, main>>
      /\ api' = IdleApi /\ api'.pc = "idle" /\ ~AtPay' /\ ~AtWithdraw'
  BY IdleThreads DEF ApiSettle, ldk, world, AtPay, AtWithdraw
<1>2. api.pc = "unpaid" /\ AtPay
  <2>1. api.pc # "settle"
    BY DEF ChargeInv, ServedInv, AtPay, AtWithdraw, Working
  <2> QED
    BY <2>1 DEF ApiSettle, AtPay
<1>3. PICK h, id : h = api.req.hash /\ id = SendId(h)
  OBVIOUS
<1>4. settle_hold(id, 0)
  BY <1>2, <1>3 DEF ApiSettle
<1>5. Money /\ IsFiniteSet(entries) /\ \A n \in Nodes : Debited(n) \in Int
  BY DebitMoves DEF IInv, ChargeInv, ServedInv
<1>6. holds' = holds \ HoldWith(id) /\ \A n \in Nodes : Debited(n)' = Debited(n)
  <2>1. CASE HoldWith(id) = {}
    <3>1. UNCHANGED <<balance, holds>>
      BY <1>4, <2>1 DEF settle_hold
    <3> QED
      BY <1>1, <1>5, <2>1, <3>1, DebitMoves
  <2>2. ASSUME NEW x \in HoldWith(id) PROVE holds' = holds \ HoldWith(id) /\ \A n \in Nodes : Debited(n)' = Debited(n)
    <3>1. x.amt \in Nat /\ 0 \in Nat /\ 0 <= x.amt
      BY <1>5 DEF HoldWith, Money, Hold
    <3>2. /\ holds' = holds \ HoldWith(id)
          /\ \A n \in Nodes : Debited(n)' = Debited(n) + (IF n = x.node THEN 0 ELSE 0)
      BY <1>1, <1>4, <1>5, <3>1, SettleIs
    <3> QED
      BY <1>5, <3>2
  <2> QED
    BY <2>1, <2>2
<1>7. /\ HoldWith(id)' = {} /\ \A k : k # id => HoldWith(k)' = HoldWith(k)
      /\ \A y \in holds : y.id # id => y \in holds'
      /\ holds' \subseteq holds
  BY <1>6, HoldsTaken
<1>8. id[1] = "send" /\ \A g : SendId(g) = id <=> g = h
  BY <1>3 DEF SendId
<1>9. MoveHolds
  BY <1>7, <1>8 DEF MoveHolds, Moves
<1>10. OrphansStay
  BY <1>1, <1>7, <1>8 DEF OrphansStay, Orphan, PendingKinds
<1>11. TasksSame /\ EventsKept /\ HandInv'
  BY <1>1, TasksOut, QueueSame DEF ChargeInv, HandInv
<1>12. ServedInv' /\ OutInv'
  BY <1>1, <1>11, ServedKept, OutKept DEF ChargeInv, ServedInv, Working
<1>13. SendsOld /\ MovesOld
  BY <1>1 DEF SendsOld, MovesOld, IsSend
<1>14. OnceInv'
  BY <1>1, <1>13, OnceKept, RetriedSame DEF ChargeInv
<1>15. HoldInv'
  <2>1. ThreadHolds /\ HoldInv
    BY DEF ChargeInv, HoldInv
  <2>2. \A y \in holds' : y.id[1] \in PendingKinds \cup {"withdraw"} => y.node = y.id[2]
    BY <1>7, <2>1 DEF ThreadHolds
  <2>3. HoldWith(PendingId(main.how, main.ref))' = HoldWith(PendingId(main.how, main.ref))
    <3>1. PICK k : k = PendingId(main.how, main.ref)
      OBVIOUS
    <3>2. k # id
      BY <1>8, <3>1, PendingKind DEF PendingKinds
    <3>3. HoldWith(k)' = HoldWith(k)
      BY <1>7, <3>2
    <3> QED
      BY <1>1, <3>1, <3>3 DEF HoldWith, PendingId
  <2>4. ThreadHolds'
    BY <1>1, <2>1, <2>2, <2>3 DEF ThreadHolds
  <2> QED
    BY <1>9, <1>10, <1>13, <2>1, <2>4, MovesKept DEF HoldInv
<1>16. Exact' <=> Exact
  BY <1>1 DEF Exact, Retried
<1>17. \A i \in 1..Len(out) : IsSend(i)' = IsSend(i) /\ (Due(i)' <=> Due(i)) /\ (Pending(i)' <=> Pending(i))
  BY <1>1 DEF IsSend, Pending, Due
<1>18. ASSUME NEW i \in 1..Len(out), out[i].ref # h
       PROVE  HoldWith(SendId(out[i].ref))' = HoldWith(SendId(out[i].ref))
  <2>1. PICK k : k = SendId(out[i].ref)
    OBVIOUS
  <2>2. HoldWith(k)' = HoldWith(k)
    BY <1>7, <1>8, <1>18, <2>1
  <2> QED
    BY <1>1, <2>1, <2>2 DEF HoldWith, SendId
<1>19. ASSUME SendInv, NEW i \in 1..Len(out), IsSend(i), out[i].ref = h PROVE ~Pending(i)
  BY <1>2, <1>3, <1>19 DEF SendInv
<1>20. ASSUME SendInv PROVE SendInv'
  <2>1. \A i, j \in 1..Len(out') :
           IsSend(i)' /\ IsSend(j)' /\ out'[i].ref = out'[j].ref /\ Pending(i)' /\ Pending(j)' => i = j
    BY <1>1, <1>17, <1>20 DEF SendInv
  <2>2. ASSUME NEW i \in 1..Len(out'), IsSend(i)', Pending(i)'
        PROVE  /\ crashes' = 0 \/ out'[i].st = "flying" => HoldWith(SendId(out[i].ref))' # {}
               /\ \A y \in HoldWith(SendId(out[i].ref))' : Covers(y, out'[i].node, out'[i].ref)
    <3>1. i \in 1..Len(out) /\ IsSend(i) /\ Pending(i) /\ out[i].ref # h
      BY <1>1, <1>17, <1>19, <1>20, <2>2
    <3> QED
      BY <1>1, <1>18, <1>20, <3>1 DEF SendInv
  <2>3. ASSUME ~Retried', NEW i \in 1..Len(out'), IsSend(i)', ~Pending(i)'
        PROVE  HoldWith(SendId(out[i].ref))' = {}
    <3>1. i \in 1..Len(out) /\ IsSend(i) /\ ~Pending(i) /\ ~Retried
      BY <1>1, <1>17, <2>3 DEF Retried
    <3>2. HoldWith(SendId(out[i].ref))' \subseteq HoldWith(SendId(out[i].ref))
      BY <1>1, <1>7 DEF HoldWith, SendId
    <3> QED
      BY <1>20, <3>1, <3>2 DEF SendInv
  <2> QED
    BY <1>1, <2>1, <2>2, <2>3 DEF SendInv
<1>21. ASSUME SendInv, NEW i \in 1..Len(out) PROVE Settled(i)' <=> Settled(i)
  <2>1. CASE IsSend(i) /\ out[i].ref = h
    <3>1. ~Due(i) /\ ~Due(i)'
      BY <1>17, <1>19, <1>21, <2>1 DEF Pending
    <3> QED
      BY <1>1, <2>1, <3>1 DEF Settled, Open, IsTask, IsSend, IsMove, Moves
  <2>2. CASE IsSend(i) /\ out[i].ref # h
    BY <1>1, <1>17, <1>18, <2>2 DEF Settled, Open, IsTask, IsSend, IsMove, Moves
  <2>3. CASE IsMove(i)
    <3>1. PICK k : k = MoveId(i)
      OBVIOUS
    <3>2. HoldWith(k)' = HoldWith(k)
      BY <1>9, <2>3, <3>1, TaskIds DEF MoveHolds
    <3>3. HoldWith(MoveId(i))' = HoldWith(MoveId(i))
      BY <1>1, <3>1, <3>2 DEF HoldWith, MoveId
    <3> QED
      BY <1>1, <2>3, <3>3 DEF Settled, Open, IsTask, IsSend, IsMove, Moves
  <2>4. CASE ~IsTask(i)
    BY <1>1, <2>4 DEF Settled, IsTask, IsSend, IsMove
  <2> QED
    BY <2>1, <2>2, <2>3, <2>4 DEF IsTask
<1>22. ASSUME SendInv, BalanceInv PROVE BalanceInv'
  <2>1. \A n \in Nodes : WithdrawnOf(n)' = WithdrawnOf(n) /\ Debited(n)' = Debited(n)
    BY <1>1, <1>2, <1>6 DEF WithdrawnOf, Leaving, Coins
  <2>2. out' \in Seq(Outgoing) /\ Len(out) \in Nat /\ Len(out') >= Len(out)
        /\ \A i \in 1..Len(out') : ~(i > Len(out))
    BY <1>1 DEF IInv, OtherTypes
  <2> QED
    BY <1>1, <1>10, <1>21, <1>22, <2>1, <2>2, BalanceQuiet
<1> QED
  BY <1>11, <1>12, <1>14, <1>15, <1>16, <1>20, <1>22 DEF ChargeInv

-----------------------------------------------------------------------------
(* The charge is exact                                                     *)

\* At the start nothing was sent, held or debited.
LEMMA InitCharge ==
    ASSUME Init
    PROVE  ChargeInv
<1>1. /\ holds = {} /\ entries = {} /\ out = <<>> /\ queue = <<>> /\ main.pc = "idle" /\ ~main.ev
      /\ api.pc = "idle" /\ onchain = {} /\ balance = [n \in Nodes |-> 0] /\ Len(out) = 0 /\ Len(queue) = 0
  BY IdleThreads DEF Init
<1>2. HandInv /\ OutInv /\ OnceInv /\ HoldInv /\ SendInv
  BY <1>1 DEF HandInv, OutInv, OnceInv, HoldInv, ThreadHolds, MovesHeld, SendInv, AtPay, AtWithdraw
<1>3. ServedInv
  BY <1>1, FS_EmptySet DEF ServedInv, Working
<1>4. BalanceInv
  <2> SUFFICES ASSUME NEW n \in Nodes PROVE Balanced(n)
    BY DEF BalanceInv
  <2>1. SettledOf(n) = {} /\ WithdrawnOf(n) = {} /\ Credits(n) = {} /\ Given(n) = {} /\ balance[n] = 0
    BY <1>1 DEF SettledOf, WithdrawnOf, Credits, Given
  <2>2. PaidIn({}) = 0 /\ ChargeOf({}) = 0
    BY SumEmpty DEF PaidIn, ChargeOf, SumFunction
  <2>3. Debited(n) = 0
    <3>1. Debited(n) = PaidIn({}) - PaidIn({}) - 0
      BY <2>1 DEF Debited
    <3> QED
      BY <2>2, <3>1
  <2>4. ChargeOf(SettledOf(n)) = 0 /\ SumAmt(WithdrawnOf(n)) = 0
    BY <2>1, <2>2, AmtEmpty, Zenon
  <2> QED
    BY <2>3, <2>4 DEF Balanced
<1> QED
  BY <1>2, <1>3, <1>4 DEF ChargeInv

\* Every step keeps what is known of the charges.
LEMMA NextCharge ==
    ASSUME IInv, ChargeInv, [Next]_vars
    PROVE  ChargeInv'
<1>1. IInv' /\ MoneyMoves
  BY NextInv
<1>2. CASE ApiStep
  <2>1. ASSUME send_bolt11 PROVE ChargeInv'
    <3>1. CASE At("unpaid", api.req) /\ UNCHANGED out
      <4>1. UNCHANGED <<balance, holds, entries, onchain, served, scenario, crashes, queue, out, main>>
            /\ api.pc = "pay"
        BY <2>1, <3>1 DEF send_bolt11, ledger, world
      <4> QED
        BY <1>1, <3>1, <4>1, ChargeRefused
    <3> QED
      BY <1>1, <2>1, <3>1, ChargeSent DEF send_bolt11
  <2>2. ASSUME send_onchain PROVE ChargeInv'
    <3>1. CASE At("unpaid", api.req) /\ UNCHANGED onchain
      <4>1. UNCHANGED <<balance, holds, entries, onchain, served, scenario, crashes, queue, out, main>>
            /\ api.pc = "withdraw"
        BY <2>2, <3>1 DEF send_onchain, ledger, world
      <4> QED
        BY <1>1, <3>1, <4>1, ChargeRefused
    <3> QED
      BY <1>1, <2>2, <3>1, ChargeCoins DEF send_onchain
  <2>3. ASSUME ApiSettle PROVE ChargeInv'
    <3>1. api.req.op \in {"pay", "withdraw"}
      BY <2>3 DEF ApiSettle, ChargeInv, ServedInv, AtPay, AtWithdraw, Working
    <3> QED
      BY <1>1, <2>3, <3>1, ChargePayEnds, ChargeWithdrawEnds
  <2> QED
    BY <1>1, <1>2, <2>1, <2>2, <2>3, ChargeHandle, ChargeServe DEF ApiStep
<1>3. CASE MainStep
  BY <1>1, <1>3, ChargeEvent, ChargeSkim, ChargeHandled, ChargeHeld, ChargePick, ChargeMoveHold, ChargeMoveGiven,
     ChargeMoveSent, ChargeMoveRename DEF MainStep
<1>4. CASE Network
  BY <1>1, <1>4, ChargeClock, ChargeResolve DEF Network
<1> QED
  BY <1>1, <1>2, <1>3, <1>4, ChargeClock, ChargeCrash DEF Next

\* With no hold left and no result to come, what is settled is all that left.
LEMMA ChargeIsLeft ==
    ASSUME IInv, ChargeInv
    PROVE  ChargedExactly
<1> SUFFICES ASSUME Exact, NEW n \in Nodes, Quiet(n) PROVE Debited(n) = Left(n)
  BY DEF ChargedExactly, Exact
<1>1. /\ \A x \in holds : x.node # n
      /\ \A k \in 1..Len(queue) : ~IsResult(queue[k])
      /\ ThreadHolds /\ MovesHeld
  BY DEF Quiet, HoldsOf, IsResult, ChargeInv, HoldInv
<1>2. Balanced(n)
  BY <1>1 DEF ChargeInv, BalanceInv, Lost, HoldsOf
<1>3. ASSUME NEW i \in OutOf(n), out[i].st = "ok" PROVE Settled(i)
  <2>1. i \in 1..Len(out) /\ out[i].node = n /\ out[i].why # "forward" /\ out[i] \in Outgoing
    BY OutTyped DEF OutOf, IInv, OtherTypes
  <2>2. IsTask(i)
    BY <2>1 DEF IsTask, IsSend, IsMove, Outgoing
  <2>3. ~Due(i)
    BY <1>1 DEF Due
  <2>4. IsMove(i) => HoldWith(MoveId(i)) = {}
    BY <1>1, <2>1 DEF MovesHeld, HoldWith
  <2>5. ~(main.pc = "rename" /\ main.amt = i)
    <3> SUFFICES ASSUME main.pc = "rename", main.amt = i PROVE FALSE
      OBVIOUS
    <3>1. PICK x \in HoldWith(PendingId(main.how, main.ref)) : TRUE
      BY <1>1 DEF ThreadHolds
    <3>2. x \in holds /\ x.id[1] \in PendingKinds /\ x.id[2] = main.ref
      BY <3>1, PendingKind DEF HoldWith
    <3>3. x.node = main.ref /\ main.ref = n
      BY <1>1, <2>1, <3>2 DEF ThreadHolds
    <3> QED
      BY <1>1, <3>2, <3>3
  <2> QED
    BY <1>3, <2>2, <2>3, <2>4, <2>5 DEF Settled, Open
<1>4. SettledOf(n) = {i \in OutOf(n) : out[i].st = "ok"}
  <2>1. ASSUME NEW i \in SettledOf(n) PROVE i \in OutOf(n) /\ out[i].st = "ok"
    BY DEF SettledOf, Settled, OutOf, IsTask, IsSend, IsMove, Moves
  <2>2. ASSUME NEW i \in OutOf(n), out[i].st = "ok" PROVE i \in SettledOf(n)
    <3>1. i \in 1..Len(out) /\ out[i].node = n
      BY DEF OutOf
    <3> QED
      BY <1>3, <2>2, <3>1 DEF SettledOf
  <2> QED
    BY <2>1, <2>2
<1>5. WithdrawnOf(n) = {c \in onchain : c.node = n}
  <2> SUFFICES ASSUME NEW c \in onchain, c.node = n, Leaving(c) PROVE FALSE
    BY DEF WithdrawnOf
  <2>1. PICK r : AtWithdraw /\ api.req = r /\ r.node = n
    BY DEF Leaving, ChargeInv, ServedInv, Working, AtPay, AtWithdraw, Coins
  <2>2. PICK x \in HoldWith(WithdrawId(r)) : TRUE
    BY <1>1, <2>1 DEF ThreadHolds
  <2>3. x \in holds /\ x.id[1] = "withdraw" /\ x.id[2] = r.node
    BY <2>2 DEF HoldWith, WithdrawId
  <2> QED
    BY <1>1, <2>1, <2>3 DEF ThreadHolds
<1>6. Left(n) = ChargeOf(SettledOf(n)) + SumAmt(WithdrawnOf(n))
  <2>1. PICK S : S = SettledOf(n)
    OBVIOUS
  <2>2. Left(n) = SumFunction([i \in S |-> out[i].charge + out[i].fee]) + SumAmt({c \in onchain : c.node = n})
    BY <1>4, <2>1 DEF Left
  <2> QED
    BY <1>5, <2>1, <2>2 DEF ChargeOf
<1> QED
  BY <1>2, <1>6 DEF Balanced

\* Once no hold of an account is left and LDK has no result to tell, the account was debited
\* exactly what left for it, fees included: pay, withdraw, settle_send and finish_conversion
\* under both threads, and across stops of the process unless the phone pays an invoice again.
THEOREM EveryChargeExact == Spec => []ChargedExactly
<1>1. Init => ChargeInv
  BY InitCharge
<1>2. IInv /\ ChargeInv /\ [Next]_vars => ChargeInv'
  BY NextCharge
<1>3. IInv /\ ChargeInv => ChargedExactly
  BY ChargeIsLeft
<1> QED
  BY <1>1, <1>2, <1>3, Invariance, PTL DEF Spec

=============================================================================
