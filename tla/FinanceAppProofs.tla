-------------------------- MODULE FinanceAppProofs --------------------------
(***************************************************************************)
(* Theorems about FinanceApp, for any names, amounts, dates, categories    *)
(* and number of identifiers.                                              *)
(***************************************************************************)
EXTENDS FinanceApp, DataTheorems, TLAPS

(* What the repository's map looks like after add(), update() and remove().   *)
LEMMA Stores ==
    ASSUME NEW repo, NEW id, NEW object, NEW S,
           repo \in [DOMAIN repo -> S], object \in S
    PROVE  /\ DOMAIN Stored(repo, id, object) = DOMAIN repo \cup {id}
           /\ Stored(repo, id, object) \in [DOMAIN Stored(repo, id, object) -> S]
           /\ Stored(repo, id, object)[id] = object
           /\ \A i \in DOMAIN repo \ {id} : Stored(repo, id, object)[i] = repo[i]
BY DEF Stored

LEMMA Erases ==
    ASSUME NEW repo, NEW id, NEW S, repo \in [DOMAIN repo -> S]
    PROVE  /\ DOMAIN Erased(repo, id) = DOMAIN repo \ {id}
           /\ Erased(repo, id) \in [DOMAIN Erased(repo, id) -> S]
           /\ \A i \in DOMAIN repo \ {id} : Erased(repo, id)[i] = repo[i]
BY DEF Erased

(* Identifiers already issued stay issued.                                   *)
LEMMA IssuedGrows ==
    ASSUME NEW factories \in SUBSET Factories, NEW repo, Issued(factories, repo),
           nextId \in [Factories -> Nat], nextId' \in [Factories -> Nat],
           \A f \in Factories : nextId[f] <= nextId'[f]
    PROVE  DOMAIN repo \subseteq UNION {1 .. nextId'[f] - 1 : f \in factories}
<1> SUFFICES ASSUME NEW id \in DOMAIN repo
             PROVE  \E f \in factories : id \in 1 .. nextId'[f] - 1
  OBVIOUS
<1>1. PICK f \in factories : id \in 1 .. nextId[f] - 1
  BY DEF Issued
<1>2. nextId[f] \in Nat /\ nextId'[f] \in Nat /\ nextId[f] <= nextId'[f]
  OBVIOUS
<1> QED
  BY <1>1, <1>2

-----------------------------------------------------------------------------
LEMMA SignedIsInt ==
    ASSUME NEW op \in OperationType
    PROVE  Signed(op) \in Int
BY DEF Signed, OperationType

LEMMA NewIdGrows ==
    ASSUME NEW factory \in Factories, nextId \in [Factories -> Nat], NewId(factory)
    PROVE  /\ nextId' \in [Factories -> Nat]
           /\ \A f \in Factories : nextId[f] <= nextId'[f]
           /\ nextId'[factory] = nextId[factory] + 1
           /\ \A f \in Factories \ {factory} : nextId'[f] = nextId[f]
BY DEF NewId

(* Until the first import an operation names an account of the account       *)
(* facade, which numbers upwards; together with the types this is inductive. *)
FacadeInv ==
    /\ \A f \in Factories : nextId[f] >= 1
    /\ nextId["csv"] = 1 =>
          \A op \in DOMAIN operations : operations[op].account \in 1 .. nextId["accounts"] - 1

FinanceInv == TypeOK /\ FacadeInv

LEMMA IssuedNew ==
    ASSUME NEW factories \in SUBSET Factories, NEW factory \in factories, NEW repo,
           Issued(factories, repo), nextId \in [Factories -> Nat],
           nextId[factory] >= 1, NewId(factory)
    PROVE  DOMAIN repo \cup {nextId[factory]} \subseteq UNION {1 .. nextId'[f] - 1 : f \in factories}
<1>1. /\ nextId' \in [Factories -> Nat]
      /\ \A f \in Factories : nextId[f] <= nextId'[f]
      /\ nextId'[factory] = nextId[factory] + 1
  BY NewIdGrows
<1>2. DOMAIN repo \subseteq UNION {1 .. nextId'[f] - 1 : f \in factories}
  BY <1>1, IssuedGrows
<1>3. nextId[factory] \in 1 .. nextId'[factory] - 1
  BY <1>1
<1> QED
  BY <1>2, <1>3

LEMMA IssuedSame ==
    ASSUME NEW factories \in SUBSET Factories, NEW repo, NEW repoNext,
           Issued(factories, repo), UNCHANGED nextId, DOMAIN repoNext \subseteq DOMAIN repo
    PROVE  DOMAIN repoNext \subseteq UNION {1 .. nextId'[f] - 1 : f \in factories}
BY DEF Issued

LEMMA IssuedIsNat ==
    ASSUME NEW factories \in SUBSET Factories, NEW repo, Issued(factories, repo),
           nextId \in [Factories -> Nat], NEW id \in DOMAIN repo
    PROVE  id \in Nat
<1>1. PICK f \in factories : id \in 1 .. nextId[f] - 1
  BY DEF Issued
<1> QED
  BY <1>1

(* The account an operation moves keeps its type.                            *)
LEMMA BalanceMoves ==
    ASSUME NEW repo, repo \in [DOMAIN repo -> AccountType], NEW id \in DOMAIN repo, NEW balance \in Int
    PROVE  /\ DOMAIN [repo EXCEPT ![id].balance = balance] = DOMAIN repo
           /\ [repo EXCEPT ![id].balance = balance] \in [DOMAIN repo -> AccountType]
BY DEF AccountType

-----------------------------------------------------------------------------
(* One lemma per kind of step.                                               *)

AccountsOK == accounts \in [DOMAIN accounts -> AccountType] /\ Issued({"accounts", "csv"}, accounts)
CategoriesOK == categories \in [DOMAIN categories -> CategoryType] /\ Issued({"categories", "json"}, categories)
OperationsOK == operations \in [DOMAIN operations -> OperationType] /\ Issued({"operations"}, operations)

LEMMA KeptWhileNumbering ==
    ASSUME FinanceInv, NEW factory \in Factories, NewId(factory)
    PROVE  /\ UNCHANGED accounts => AccountsOK'
           /\ UNCHANGED categories => CategoriesOK'
           /\ UNCHANGED operations => OperationsOK'
<1>1. /\ nextId' \in [Factories -> Nat]
      /\ \A f \in Factories : nextId[f] <= nextId'[f]
  BY NewIdGrows DEF FinanceInv, TypeOK
<1>2. ASSUME UNCHANGED accounts PROVE AccountsOK'
  <2>1. DOMAIN accounts \subseteq UNION {1 .. nextId'[f] - 1 : f \in {"accounts", "csv"}}
    BY <1>1, IssuedGrows DEF FinanceInv, TypeOK, Factories
  <2> QED
    BY <1>2, <2>1 DEF AccountsOK, Issued, FinanceInv, TypeOK
<1>3. ASSUME UNCHANGED categories PROVE CategoriesOK'
  <2>1. DOMAIN categories \subseteq UNION {1 .. nextId'[f] - 1 : f \in {"categories", "json"}}
    BY <1>1, IssuedGrows DEF FinanceInv, TypeOK, Factories
  <2> QED
    BY <1>3, <2>1 DEF CategoriesOK, Issued, FinanceInv, TypeOK
<1>4. ASSUME UNCHANGED operations PROVE OperationsOK'
  <2>1. DOMAIN operations \subseteq UNION {1 .. nextId'[f] - 1 : f \in {"operations"}}
    BY <1>1, IssuedGrows DEF FinanceInv, TypeOK, Factories
  <2> QED
    BY <1>4, <2>1 DEF OperationsOK, Issued, FinanceInv, TypeOK
<1> QED
  BY <1>2, <1>3, <1>4

LEMMA KeptWithoutNumbering ==
    ASSUME FinanceInv, UNCHANGED nextId
    PROVE  /\ UNCHANGED accounts => AccountsOK'
           /\ UNCHANGED categories => CategoriesOK'
           /\ UNCHANGED operations => OperationsOK'
BY DEF FinanceInv, TypeOK, AccountsOK, CategoriesOK, OperationsOK, Issued

(* Steps of the account facade and of the CSV importer, that store an        *)
(* account under a new number.                                               *)
LEMMA AccountAdded ==
    ASSUME FinanceInv, NEW factory \in {"accounts", "csv"}, NEW account \in AccountType,
           NewId(factory), accounts' = Stored(accounts, nextId[factory], account),
           UNCHANGED <<categories, operations>>
    PROVE  FinanceInv'
<1> USE DEF Factories
<1>1. AccountsOK'
  <2>1. DOMAIN accounts \cup {nextId[factory]}
            \subseteq UNION {1 .. nextId'[f] - 1 : f \in {"accounts", "csv"}}
    BY IssuedNew DEF FinanceInv, TypeOK, FacadeInv
  <2>2. /\ DOMAIN accounts' = DOMAIN accounts \cup {nextId[factory]}
        /\ accounts' \in [DOMAIN accounts' -> AccountType]
    BY Stores DEF FinanceInv, TypeOK
  <2> QED
    BY <2>1, <2>2 DEF AccountsOK, Issued
<1>2. CategoriesOK' /\ OperationsOK'
  BY KeptWhileNumbering
<1>3. /\ nextId' \in [Factories -> Nat]
      /\ \A f \in Factories : nextId[f] <= nextId'[f]
      /\ nextId'[factory] = nextId[factory] + 1
      /\ \A f \in Factories \ {factory} : nextId'[f] = nextId[f]
  BY NewIdGrows DEF FinanceInv, TypeOK
<1>4. FacadeInv'
  <2>1. \A f \in Factories : nextId'[f] >= 1
    BY <1>3 DEF FinanceInv, FacadeInv, TypeOK
  <2>2. ASSUME nextId'["csv"] = 1, NEW op \in DOMAIN operations
        PROVE  operations[op].account \in 1 .. nextId'["accounts"] - 1
    <3>1. nextId["csv"] = 1 /\ nextId["accounts"] \in Nat /\ nextId'["accounts"] \in Nat
      BY <1>3, <2>2 DEF FinanceInv, TypeOK, FacadeInv
    <3>2. operations[op].account \in 1 .. nextId["accounts"] - 1
      BY <3>1 DEF FinanceInv, FacadeInv
    <3> QED
      BY <1>3, <3>1, <3>2
  <2> QED
    BY <2>1, <2>2 DEF FacadeInv
<1> QED
  BY <1>1, <1>2, <1>3, <1>4 DEF FinanceInv, TypeOK, AccountsOK, CategoriesOK, OperationsOK

LEMMA CategoryAdded ==
    ASSUME FinanceInv, NEW factory \in {"categories", "json"}, NEW category \in CategoryType,
           NewId(factory), categories' = Stored(categories, nextId[factory], category),
           UNCHANGED <<accounts, operations>>
    PROVE  FinanceInv'
<1> USE DEF Factories
<1>1. CategoriesOK'
  <2>1. DOMAIN categories \cup {nextId[factory]}
            \subseteq UNION {1 .. nextId'[f] - 1 : f \in {"categories", "json"}}
    BY IssuedNew DEF FinanceInv, TypeOK, FacadeInv
  <2>2. /\ DOMAIN categories' = DOMAIN categories \cup {nextId[factory]}
        /\ categories' \in [DOMAIN categories' -> CategoryType]
    BY Stores DEF FinanceInv, TypeOK
  <2> QED
    BY <2>1, <2>2 DEF CategoriesOK, Issued
<1>2. AccountsOK' /\ OperationsOK'
  BY KeptWhileNumbering
<1>3. /\ nextId' \in [Factories -> Nat]
      /\ \A f \in Factories : nextId[f] <= nextId'[f]
      /\ \A f \in Factories \ {factory} : nextId'[f] = nextId[f]
  BY NewIdGrows DEF FinanceInv, TypeOK
<1>4. FacadeInv'
  <2>1. \A f \in Factories : nextId'[f] >= 1
    BY <1>3 DEF FinanceInv, FacadeInv, TypeOK
  <2>2. nextId'["csv"] = nextId["csv"] /\ nextId'["accounts"] = nextId["accounts"]
    BY <1>3
  <2> QED
    BY <2>1, <2>2 DEF FacadeInv, FinanceInv
<1> QED
  BY <1>1, <1>2, <1>3, <1>4 DEF FinanceInv, TypeOK, AccountsOK, CategoriesOK, OperationsOK

LEMMA OperationAdded ==
    ASSUME FinanceInv, NEW type \in Types, NEW account \in DOMAIN accounts, NEW amount \in Amounts,
           NEW date \in Dates, NEW category \in CategoryIds,
           CreateOperation(type, account, amount, date, category)
    PROVE  FinanceInv'
<1> USE DEF Factories
<1> DEFINE op == [type |-> type, account |-> account, amount |-> amount,
                  date |-> date, category |-> category]
<1>1. account \in Nat
  BY IssuedIsNat DEF FinanceInv, TypeOK
<1>2. op \in OperationType
  BY <1>1, NumbersAssumption DEF OperationType, CreateOperation
<1>3. NewId("operations")
  BY DEF CreateOperation
<1>4. /\ nextId' \in [Factories -> Nat]
      /\ \A f \in Factories : nextId[f] <= nextId'[f]
      /\ \A f \in Factories \ {"operations"} : nextId'[f] = nextId[f]
  BY <1>3, NewIdGrows DEF FinanceInv, TypeOK
<1>5. /\ DOMAIN operations' = DOMAIN operations \cup {nextId["operations"]}
      /\ operations' \in [DOMAIN operations' -> OperationType]
      /\ operations'[nextId["operations"]] = op
      /\ \A i \in DOMAIN operations \ {nextId["operations"]} : operations'[i] = operations[i]
  <2>1. operations' = Stored(operations, nextId["operations"], op)
    BY DEF CreateOperation
  <2>2. operations \in [DOMAIN operations -> OperationType]
    BY DEF FinanceInv, TypeOK
  <2> HIDE DEF op
  <2> QED
    BY <1>2, <2>1, <2>2 DEF Stored
<1>6. OperationsOK'
  <2>1. DOMAIN operations \cup {nextId["operations"]}
            \subseteq UNION {1 .. nextId'[f] - 1 : f \in {"operations"}}
    BY <1>3, IssuedNew DEF FinanceInv, TypeOK, FacadeInv
  <2> QED
    BY <1>5, <2>1 DEF OperationsOK, Issued
<1>7. CategoriesOK'
  BY <1>3, KeptWhileNumbering DEF CreateOperation
<1>8. AccountsOK'
  <2>1. accounts[account].balance + Signed(op) \in Int
    BY <1>2, SignedIsInt DEF FinanceInv, TypeOK, AccountType
  <2>2. accounts' = [accounts EXCEPT ![account].balance = accounts[account].balance + Signed(op)]
    BY DEF CreateOperation
  <2>3. DOMAIN accounts' = DOMAIN accounts /\ accounts' \in [DOMAIN accounts -> AccountType]
    BY <2>1, <2>2, BalanceMoves DEF FinanceInv, TypeOK
  <2>4. DOMAIN accounts \subseteq UNION {1 .. nextId'[f] - 1 : f \in {"accounts", "csv"}}
    BY <1>4, IssuedGrows DEF FinanceInv, TypeOK
  <2> QED
    BY <2>3, <2>4 DEF AccountsOK, Issued
<1>9. FacadeInv'
  <2>1. \A f \in Factories : nextId'[f] >= 1
    BY <1>4 DEF FinanceInv, FacadeInv, TypeOK
  <2>2. nextId'["csv"] = nextId["csv"] /\ nextId'["accounts"] = nextId["accounts"]
    BY <1>4
  <2>3. ASSUME nextId["csv"] = 1
        PROVE  account \in 1 .. nextId["accounts"] - 1
    <3>1. PICK f \in {"accounts", "csv"} : account \in 1 .. nextId[f] - 1
      BY DEF FinanceInv, TypeOK, Issued
    <3> QED
      BY <2>3, <3>1
  <2>4. ASSUME nextId["csv"] = 1, NEW i \in DOMAIN operations'
        PROVE  operations'[i].account \in 1 .. nextId["accounts"] - 1
    <3>1. CASE i = nextId["operations"]
      BY <1>5, <2>3, <2>4, <3>1
    <3>2. CASE i # nextId["operations"]
      BY <1>5, <2>4, <3>2 DEF FinanceInv, FacadeInv
    <3> QED
      BY <3>1, <3>2
  <2> QED
    BY <2>1, <2>2, <2>4 DEF FacadeInv
<1> QED
  BY <1>4, <1>6, <1>7, <1>8, <1>9 DEF FinanceInv, TypeOK, AccountsOK, CategoriesOK, OperationsOK

(* Removals and edits: no number is handed out.                              *)
LEMMA OperationRemoved ==
    ASSUME FinanceInv, NEW id \in DOMAIN operations, RemoveOperation(id)
    PROVE  FinanceInv'
<1> USE DEF Factories
<1>1. /\ DOMAIN operations' = DOMAIN operations \ {id}
      /\ operations' \in [DOMAIN operations' -> OperationType]
      /\ \A i \in DOMAIN operations' : operations'[i] = operations[i]
  <2>1. operations' = Erased(operations, id)
    BY DEF RemoveOperation
  <2>2. operations \in [DOMAIN operations -> OperationType]
    BY DEF FinanceInv, TypeOK
  <2> QED
    BY <2>1, <2>2 DEF Erased
<1>2. OperationsOK'
  BY <1>1 DEF OperationsOK, Issued, FinanceInv, TypeOK, RemoveOperation
<1>3. CategoriesOK'
  BY KeptWithoutNumbering DEF RemoveOperation
<1>4. AccountsOK'
  <2> DEFINE account == operations[id].account
  <2>1. CASE account \in DOMAIN accounts
    <3>1. accounts[account].balance - Signed(operations[id]) \in Int
      <4>1. Signed(operations[id]) \in Int
        BY SignedIsInt DEF FinanceInv, TypeOK
      <4> QED
        BY <2>1, <4>1 DEF FinanceInv, TypeOK, AccountType
    <3>2. accounts' = [accounts EXCEPT ![account].balance = accounts[account].balance - Signed(operations[id])]
      BY <2>1 DEF RemoveOperation
    <3> HIDE DEF account
    <3>3. DOMAIN accounts' = DOMAIN accounts /\ accounts' \in [DOMAIN accounts -> AccountType]
      BY <2>1, <3>1, <3>2, BalanceMoves DEF FinanceInv, TypeOK
    <3> QED
      BY <3>3 DEF AccountsOK, Issued, FinanceInv, TypeOK, RemoveOperation
  <2>2. CASE account \notin DOMAIN accounts
    BY <2>2, KeptWithoutNumbering DEF RemoveOperation
  <2> QED
    BY <2>1, <2>2
<1>5. FacadeInv'
  BY <1>1 DEF FacadeInv, FinanceInv, RemoveOperation
<1> QED
  BY <1>2, <1>3, <1>4, <1>5 DEF FinanceInv, TypeOK, AccountsOK, CategoriesOK, OperationsOK, RemoveOperation

LEMMA AccountEdited ==
    ASSUME FinanceInv, NEW id \in DOMAIN accounts,
           RemoveAccount(id) \/ \E balance \in Starts : UpdateBalance(id, balance)
    PROVE  FinanceInv'
<1> USE DEF Factories
<1>1. UNCHANGED <<categories, operations, nextId>>
  BY DEF RemoveAccount, UpdateBalance
<1>2. DOMAIN accounts' \subseteq DOMAIN accounts /\ accounts' \in [DOMAIN accounts' -> AccountType]
  <2>1. CASE RemoveAccount(id)
    BY <2>1, Erases DEF FinanceInv, TypeOK, RemoveAccount
  <2>2. ASSUME NEW balance \in Starts, UpdateBalance(id, balance)
        PROVE  DOMAIN accounts' = DOMAIN accounts /\ accounts' \in [DOMAIN accounts -> AccountType]
    BY <2>2, BalanceMoves, NumbersAssumption DEF FinanceInv, TypeOK, UpdateBalance
  <2> QED
    BY <2>1, <2>2
<1>3. AccountsOK'
  BY <1>1, <1>2 DEF AccountsOK, Issued, FinanceInv, TypeOK
<1>4. CategoriesOK' /\ OperationsOK'
  BY <1>1, KeptWithoutNumbering
<1>5. FacadeInv'
  BY <1>1 DEF FacadeInv, FinanceInv
<1> QED
  BY <1>1, <1>3, <1>4, <1>5 DEF FinanceInv, TypeOK, AccountsOK, CategoriesOK, OperationsOK

LEMMA CategoryRemoved ==
    ASSUME FinanceInv, NEW id \in DOMAIN categories, RemoveCategory(id)
    PROVE  FinanceInv'
<1> USE DEF Factories
<1>1. UNCHANGED <<accounts, operations, nextId>>
  BY DEF RemoveCategory
<1>2. /\ DOMAIN categories' = DOMAIN categories \ {id}
      /\ categories' \in [DOMAIN categories' -> CategoryType]
  BY Erases DEF FinanceInv, TypeOK, RemoveCategory
<1>3. CategoriesOK'
  BY <1>1, <1>2 DEF CategoriesOK, Issued, FinanceInv, TypeOK
<1>4. AccountsOK' /\ OperationsOK'
  BY <1>1, KeptWithoutNumbering
<1>5. FacadeInv'
  BY <1>1 DEF FacadeInv, FinanceInv
<1> QED
  BY <1>1, <1>3, <1>4, <1>5 DEF FinanceInv, TypeOK, AccountsOK, CategoriesOK, OperationsOK

-----------------------------------------------------------------------------
LEMMA FinanceInvHolds == Spec => []FinanceInv
<1>1. Init => FinanceInv
  BY DEF Init, Empty, FinanceInv, TypeOK, Issued, FacadeInv, Factories
<1>2. FinanceInv /\ [Next]_vars => FinanceInv'
  <2> SUFFICES ASSUME FinanceInv, [Next]_vars PROVE FinanceInv'
    OBVIOUS
  <2>1. ASSUME NEW name \in Names, NEW start \in Starts, CreateAccount(name, start)
        PROVE  FinanceInv'
    <3>1. [name |-> name, balance |-> start] \in AccountType
      BY NumbersAssumption DEF AccountType
    <3> QED
      BY <2>1, <3>1, AccountAdded DEF CreateAccount
  <2>2. ASSUME NEW type \in Types, NEW name \in Names, CreateCategory(type, name)
        PROVE  FinanceInv'
    <3>1. [name |-> name, type |-> type] \in CategoryType
      BY DEF CategoryType
    <3> QED
      BY <2>2, <3>1, CategoryAdded DEF CreateCategory
  <2>3. CASE ImportCsv
    <3>1. [name |-> Imported, balance |-> ImportedStart] \in AccountType
      BY NumbersAssumption DEF AccountType
    <3> QED
      BY <2>3, <3>1, AccountAdded DEF ImportCsv
  <2>4. CASE ImportJson
    <3>1. [name |-> Imported, type |-> "income"] \in CategoryType
      BY DEF CategoryType, Types
    <3> QED
      BY <2>4, <3>1, CategoryAdded DEF ImportJson
  <2>5. CASE UNCHANGED vars
    BY <2>5 DEF FinanceInv, TypeOK, FacadeInv, Issued, vars
  <2> QED
    BY <2>1, <2>2, <2>3, <2>4, <2>5, AccountEdited, CategoryRemoved, OperationAdded, OperationRemoved
    DEF Next
<1> QED
  BY <1>1, <1>2, PTL DEF Spec

(* TypeOK: repositories hold objects of their class under issued numbers,    *)
(* and no operation has a negative amount.                                   *)
THEOREM TypeCorrect == Spec => []TypeOK
<1>1. FinanceInv => TypeOK
  BY DEF FinanceInv
<1> QED
  BY <1>1, FinanceInvHolds, PTL

(* IdsAreFresh: without imports no object replaces another and no account    *)
(* returns under the number of a removed one.                                *)
THEOREM FreshNumbers == Spec => IdsAreFresh
<1> DEFINE Fresh ==
        /\ nextId'["csv"] = 1 =>
              \A id \in DOMAIN accounts' \ DOMAIN accounts :
                 \A op \in DOMAIN operations : operations[op].account # id
        /\ nextId'["csv"] = 1 => SameName(accounts, accounts')
        /\ nextId'["json"] = 1 => SameName(categories, categories')
<1>1. FinanceInv /\ [Next]_vars => [Fresh]_vars
  <2> SUFFICES ASSUME FinanceInv, Next PROVE Fresh
    OBVIOUS
  <2> USE DEF Factories
  <2>1. ASSUME NEW name \in Names, NEW start \in Starts, CreateAccount(name, start)
        PROVE  Fresh
    <3>1. /\ DOMAIN accounts' = DOMAIN accounts \cup {nextId["accounts"]}
          /\ \A i \in DOMAIN accounts \ {nextId["accounts"]} : accounts'[i] = accounts[i]
      BY <2>1 DEF CreateAccount, Stored
    <3>2. nextId'["csv"] = nextId["csv"]
      BY <2>1 DEF CreateAccount, NewId, FinanceInv, TypeOK
    <3>3. ASSUME nextId["csv"] = 1 PROVE nextId["accounts"] \notin DOMAIN accounts
      <4>1. ASSUME NEW i \in DOMAIN accounts PROVE i # nextId["accounts"]
        <5>1. PICK f \in {"accounts", "csv"} : i \in 1 .. nextId[f] - 1
          BY DEF FinanceInv, TypeOK, Issued
        <5> QED
          BY <3>3, <5>1 DEF FinanceInv, TypeOK
      <4> QED
        BY <4>1
    <3>4. ASSUME nextId["csv"] = 1, NEW op \in DOMAIN operations
          PROVE  operations[op].account # nextId["accounts"]
      BY <3>4 DEF FinanceInv, FacadeInv, TypeOK
    <3>5. SameName(categories, categories')
      BY <2>1 DEF CreateAccount, SameName
    <3> QED
      BY <3>1, <3>2, <3>3, <3>4, <3>5 DEF SameName
  <2>2. ASSUME NEW type \in Types, NEW name \in Names, CreateCategory(type, name)
        PROVE  Fresh
    <3>1. \A i \in DOMAIN categories \ {nextId["categories"]} : categories'[i] = categories[i]
      BY <2>2 DEF CreateCategory, Stored
    <3>2. nextId'["json"] = nextId["json"]
      BY <2>2 DEF CreateCategory, NewId, FinanceInv, TypeOK
    <3>3. ASSUME nextId["json"] = 1 PROVE nextId["categories"] \notin DOMAIN categories
      <4>1. ASSUME NEW i \in DOMAIN categories PROVE i # nextId["categories"]
        <5>1. PICK f \in {"categories", "json"} : i \in 1 .. nextId[f] - 1
          BY DEF FinanceInv, TypeOK, Issued
        <5> QED
          BY <3>3, <5>1 DEF FinanceInv, TypeOK
      <4> QED
        BY <4>1
    <3> QED
      BY <2>2, <3>1, <3>2, <3>3 DEF CreateCategory, SameName
  <2>3. ASSUME NEW id \in DOMAIN accounts,
               RemoveAccount(id) \/ \E balance \in Starts : UpdateBalance(id, balance)
        PROVE  Fresh
    <3>1. DOMAIN accounts' \subseteq DOMAIN accounts /\ SameName(accounts, accounts')
      <4>1. CASE RemoveAccount(id)
        BY <4>1 DEF RemoveAccount, Erased, SameName
      <4>2. ASSUME NEW balance \in Starts, UpdateBalance(id, balance)
            PROVE  DOMAIN accounts' \subseteq DOMAIN accounts /\ SameName(accounts, accounts')
        BY <4>2 DEF UpdateBalance, SameName, FinanceInv, TypeOK, AccountType
      <4> QED
        BY <2>3, <4>1, <4>2
    <3> QED
      BY <2>3, <3>1 DEF RemoveAccount, UpdateBalance, SameName
  <2>4. ASSUME NEW id \in DOMAIN categories, RemoveCategory(id)
        PROVE  Fresh
    BY <2>4 DEF RemoveCategory, Erased, SameName
  <2>5. ASSUME NEW type \in Types, NEW account \in DOMAIN accounts, NEW amount \in Amounts,
               NEW date \in Dates, NEW category \in CategoryIds,
               CreateOperation(type, account, amount, date, category)
        PROVE  Fresh
    <3>1. DOMAIN accounts' = DOMAIN accounts /\ SameName(accounts, accounts')
      BY <2>5 DEF CreateOperation, SameName, FinanceInv, TypeOK, AccountType
    <3> QED
      BY <2>5, <3>1 DEF CreateOperation, SameName
  <2>6. ASSUME NEW id \in DOMAIN operations, RemoveOperation(id)
        PROVE  Fresh
    <3>1. DOMAIN accounts' = DOMAIN accounts /\ SameName(accounts, accounts')
      BY <2>6 DEF RemoveOperation, SameName, FinanceInv, TypeOK, AccountType
    <3> QED
      BY <2>6, <3>1 DEF RemoveOperation, SameName
  <2>7. CASE ImportCsv
    BY <2>7 DEF ImportCsv, NewId, FinanceInv, TypeOK, FacadeInv, SameName
  <2>8. CASE ImportJson
    BY <2>8 DEF ImportJson, NewId, FinanceInv, TypeOK, FacadeInv, SameName, Empty
  <2> QED
    BY <2>1, <2>2, <2>3, <2>4, <2>5, <2>6, <2>7, <2>8 DEF Next
<1> QED
  BY <1>1, FinanceInvHolds, PTL DEF Spec, IdsAreFresh

-----------------------------------------------------------------------------
(* Operations are numbered, so there are finitely many.                      *)
LEMMA OperationsFinite ==
    ASSUME FinanceInv
    PROVE  IsFiniteSet(DOMAIN operations)
<1>1. PICK n \in Int : DOMAIN operations \in SUBSET (1 .. n)
    BY DEF FinanceInv, TypeOK, Issued, Factories
<1>2. IsFiniteSet(1 .. n)
    BY FS_Interval
<1> QED  BY <1>1, <1>2, FS_Subset

(* AnalyticsAgree: what the categories of a period add up to is the income   *)
(* of the period less its expense.                                           *)
THEOREM AnalysesAgree == Spec => []AnalyticsAgree
<1>1. FinanceInv => AnalyticsAgree
    <2> SUFFICES ASSUME FinanceInv, NEW from \in Dates, NEW to \in Dates
                 PROVE  SumFunction(SumByCategory(from, to)) = IncomeMinusExpense(from, to)
        BY DEF AnalyticsAgree
    <2> DEFINE S == InPeriod(from, to)
               signed == [id \in S |-> Signed(operations[id])]
               amount == [id \in S |-> operations[id].amount]
               key == [id \in S |-> operations[id].category]
               ofType(type) == {id \in S : operations[id].type = type}
               ofCategory(c) == {id \in S : operations[id].category = c}
               keys == {operations[id].category : id \in S}
               sums == SumByCategory(from, to)
    <2>1. S \in SUBSET DOMAIN operations /\ IsFiniteSet(S)
        BY OperationsFinite, FS_Subset DEF InPeriod
    <2>2. /\ \A id \in S : operations[id] \in OperationType
          /\ \A id \in S : signed[id] \in Int /\ amount[id] \in Int
        BY <2>1, SignedIsInt DEF FinanceInv, TypeOK, OperationType
    <2>3. ASSUME NEW T \in SUBSET S PROVE IsFiniteSet(T)
        BY <2>1, FS_Subset
    <2>4. SumFunction(sums) = SumFunctionOnSet(signed, S)
        <3> DEFINE part == [c \in keys |-> ofCategory(c)]
        <3>1. ASSUME NEW c \in keys
              PROVE  part[c] \in SUBSET S /\ sums[c] = SumFunctionOnSet(signed, part[c])
            <4> DEFINE f == [id \in ofCategory(c) |-> Signed(operations[id])]
            <4>1. sums[c] = SumFunction(f) /\ part[c] = ofCategory(c)
                BY DEF SumByCategory
            <4>2. DOMAIN f = ofCategory(c) /\ \A id \in ofCategory(c) : f[id] = signed[id]
                OBVIOUS
            <4>3. ofCategory(c) \in SUBSET S /\ IsFiniteSet(ofCategory(c))
                BY <2>3
            <4> HIDE DEF f, S, sums, signed, key, part, ofCategory
            <4> QED  BY <4>1, <4>2, <4>3, SumOfFunction
        <3>2. DOMAIN sums = keys
            BY DEF SumByCategory
        <3>3. IsFiniteSet(keys)
            <4>1. keys = {key[id] : id \in DOMAIN key} /\ DOMAIN key = S
                OBVIOUS
            <4> HIDE DEF S, key, keys
            <4> QED  BY <2>1, <4>1, ImageFinite
        <3>4. /\ \A id \in S : \E c \in keys : id \in part[c]
              /\ \A b, c \in keys : b # c => part[b] \cap part[c] = {}
            OBVIOUS
        <3> HIDE DEF S, keys, key, sums, signed, part
        <3>5. SumFunctionOnSet(sums, keys) = SumFunctionOnSet(signed, S)
            BY <2>1, <2>2, <3>1, <3>3, <3>4, SumOfParts
        <3> QED  BY <3>2, <3>5 DEF SumFunction
    <2>5. /\ S = ofType("income") \cup ofType("expense")
          /\ ofType("income") \cap ofType("expense") = {}
        BY <2>2 DEF OperationType, Types
    <2>6. SumFunctionOnSet(signed, S)
            = SumFunctionOnSet(signed, ofType("income")) + SumFunctionOnSet(signed, ofType("expense"))
        <3>1. IsFiniteSet(ofType("income")) /\ IsFiniteSet(ofType("expense"))
            BY <2>3
        <3> HIDE DEF S, signed, ofType
        <3> QED  BY <2>2, <2>5, <3>1, SumUnion
    <2>7. SumFunctionOnSet(signed, ofType("income")) = SumFunctionOnSet(amount, ofType("income"))
        <3>1. IsFiniteSet(ofType("income")) /\ \A id \in ofType("income") : signed[id] = amount[id]
            BY <2>3 DEF Signed
        <3> HIDE DEF signed, amount, ofType
        <3> QED  BY <3>1, SumEqual
    <2>8. SumFunctionOnSet(signed, ofType("expense")) = - SumFunctionOnSet(amount, ofType("expense"))
        <3>1. /\ IsFiniteSet(ofType("expense"))
              /\ \A id \in ofType("expense") : amount[id] \in Int /\ signed[id] = - amount[id]
            BY <2>2, <2>3 DEF Signed
        <3> HIDE DEF signed, amount, ofType
        <3> QED  BY <3>1, SumNegated
    <2>9. ASSUME NEW type \in Types
          PROVE  /\ SumFunction([id \in ofType(type) |-> operations[id].amount])
                      = SumFunctionOnSet(amount, ofType(type))
                 /\ SumFunctionOnSet(amount, ofType(type)) \in Int
        <3> DEFINE f == [id \in ofType(type) |-> operations[id].amount]
        <3>1. /\ DOMAIN f = ofType(type) /\ IsFiniteSet(ofType(type))
              /\ \A id \in ofType(type) : f[id] = amount[id] /\ amount[id] \in Int
            BY <2>2, <2>3
        <3> HIDE DEF amount, ofType, f
        <3>2. SumFunction(f) = SumFunctionOnSet(amount, ofType(type)) /\ SumFunctionOnSet(amount, ofType(type)) \in Int
            BY <3>1, SumOfFunction, SumInt
        <3> QED  BY <3>2 DEF f
    <2>10. IncomeMinusExpense(from, to)
             = SumFunctionOnSet(amount, ofType("income")) - SumFunctionOnSet(amount, ofType("expense"))
        BY <2>9 DEF IncomeMinusExpense, Types
    <2>11. "income" \in Types /\ "expense" \in Types
        BY DEF Types
    <2> HIDE DEF S, signed, amount, ofType, sums
    <2>12. SumFunction(sums) = IncomeMinusExpense(from, to)
        BY <2>4, <2>6, <2>7, <2>8, <2>9, <2>10, <2>11
    <2> QED  BY <2>12 DEF sums
<1> QED  BY <1>1, FinanceInvHolds, PTL

-----------------------------------------------------------------------------
(* The operations on record against an account, and what they come to.       *)
Against(ops, id) == {o \in DOMAIN ops : ops[o].account = id}
SignedOf(ops) == [o \in DOMAIN ops |-> Signed(ops[o])]
Total(ops, id) == SumFunctionOnSet(SignedOf(ops), Against(ops, id))

LEMMA BaseIsBalanceLessTotal ==
    ASSUME NEW ops, IsFiniteSet(DOMAIN ops), NEW repo, NEW id
    PROVE  Base(repo, id, ops) = repo[id].balance - Total(ops, id)
<1> DEFINE f == [op \in Against(ops, id) |-> Signed(ops[op])]
<1>1. Base(repo, id, ops) = repo[id].balance - SumFunction(f)
    BY DEF Base, Against
<1>2. DOMAIN f \in SUBSET DOMAIN ops /\ \A o \in DOMAIN f : f[o] = SignedOf(ops)[o]
    BY DEF Against, SignedOf
<1>3. DOMAIN f = Against(ops, id)
    OBVIOUS
<1> HIDE DEF f
<1>4. SumFunction(f) = SumFunctionOnSet(SignedOf(ops), DOMAIN f)
    BY <1>2, SumOfFunction, FS_Subset
<1> QED  BY <1>1, <1>3, <1>4 DEF Total

(* One operation more or less moves the total of its account by its amount.  *)
LEMMA OneOperationMore ==
    ASSUME NEW less, IsFiniteSet(DOMAIN less), NEW n, n \notin DOMAIN less,
           NEW more, DOMAIN more = DOMAIN less \cup {n}, more \in [DOMAIN more -> OperationType],
           \A o \in DOMAIN less : more[o] = less[o],
           NEW id
    PROVE  /\ Total(less, id) \in Int /\ Signed(more[n]) \in Int
           /\ Total(more, id) = Total(less, id) + IF more[n].account = id THEN Signed(more[n]) ELSE 0
<1> DEFINE old == Against(less, id)
           f == SignedOf(less)
           g == SignedOf(more)
<1>1. IsFiniteSet(old) /\ n \notin old
    <2>1. old \in SUBSET DOMAIN less
        BY DEF Against
    <2> QED  BY <2>1, FS_Subset
<1>2. /\ \A o \in old : f[o] = g[o]
      /\ \A o \in old \cup {n} : g[o] \in Int
      /\ g[n] = Signed(more[n])
    BY SignedIsInt DEF SignedOf, Against
<1>3. Against(more, id) = IF more[n].account = id THEN old \cup {n} ELSE old
    BY DEF Against
<1> HIDE DEF old, f, g
<1>4. SumFunctionOnSet(f, old) = SumFunctionOnSet(g, old) /\ SumFunctionOnSet(g, old) \in Int
    BY <1>1, <1>2, SumEqual, SumInt
<1>5. SumFunctionOnSet(g, old \cup {n}) = SumFunctionOnSet(g, old) + g[n]
    BY <1>1, <1>2, SumAdd
<1>6. Total(less, id) = SumFunctionOnSet(f, old) /\ Total(more, id) = SumFunctionOnSet(g, Against(more, id))
    BY DEF Total, old, f, g
<1>7. CASE more[n].account = id
    BY <1>2, <1>3, <1>4, <1>5, <1>6, <1>7
<1>8. CASE more[n].account # id
    BY <1>2, <1>3, <1>4, <1>6, <1>8
<1> QED  BY <1>7, <1>8

(* An account under a number the account facade has not handed out came      *)
(* from an import, and its name shows it.                                    *)
NamesInv ==
    \A id \in DOMAIN accounts :
        accounts[id].name # Imported => id \in 1 .. nextId["accounts"] - 1

LEMMA NamesStep == FinanceInv /\ NamesInv /\ [Next]_vars => NamesInv'
<1> SUFFICES ASSUME FinanceInv, NamesInv, [Next]_vars PROVE NamesInv'
    OBVIOUS
<1> USE DEF Factories
<1>1. ASSUME NEW name \in Names, NEW start \in Starts, CreateAccount(name, start)
      PROVE  NamesInv'
    <2>1. /\ nextId["accounts"] \in Nat \ {0}
          /\ nextId'["accounts"] = nextId["accounts"] + 1
        BY <1>1 DEF CreateAccount, NewId, FinanceInv, TypeOK, FacadeInv
    <2>2. /\ DOMAIN accounts' = DOMAIN accounts \cup {nextId["accounts"]}
          /\ \A i \in DOMAIN accounts \ {nextId["accounts"]} : accounts'[i] = accounts[i]
        BY <1>1 DEF CreateAccount, Stored
    <2> QED  BY <2>1, <2>2 DEF NamesInv
<1>2. ASSUME NEW id \in DOMAIN accounts, RemoveAccount(id)
      PROVE  NamesInv'
    BY <1>2 DEF RemoveAccount, Erased, NamesInv
<1>3. ASSUME NEW id \in DOMAIN accounts, NEW balance \in Starts, UpdateBalance(id, balance)
      PROVE  NamesInv'
    BY <1>3 DEF UpdateBalance, NamesInv, FinanceInv, TypeOK, AccountType
<1>4. ASSUME NEW type \in Types, NEW name \in Names, CreateCategory(type, name)
      PROVE  NamesInv'
    BY <1>4 DEF CreateCategory, NewId, NamesInv, FinanceInv, TypeOK
<1>5. ASSUME NEW id \in DOMAIN categories, RemoveCategory(id)
      PROVE  NamesInv'
    BY <1>5 DEF RemoveCategory, NamesInv
<1>6. ASSUME NEW type \in Types, NEW account \in DOMAIN accounts, NEW amount \in Amounts,
             NEW date \in Dates, NEW category \in CategoryIds,
             CreateOperation(type, account, amount, date, category)
      PROVE  NamesInv'
    BY <1>6 DEF CreateOperation, NewId, NamesInv, FinanceInv, TypeOK, AccountType
<1>7. ASSUME NEW id \in DOMAIN operations, RemoveOperation(id)
      PROVE  NamesInv'
    BY <1>7 DEF RemoveOperation, NamesInv, FinanceInv, TypeOK, AccountType
<1>8. CASE ImportCsv
    BY <1>8 DEF ImportCsv, NewId, Stored, Empty, NamesInv, FinanceInv, TypeOK
<1>9. CASE ImportJson
    BY <1>9 DEF ImportJson, NewId, NamesInv, FinanceInv, TypeOK
<1>10. CASE UNCHANGED vars
    BY <1>10 DEF NamesInv, vars
<1> QED  BY <1>1, <1>2, <1>3, <1>4, <1>5, <1>6, <1>7, <1>8, <1>9, <1>10 DEF Next

LEMMA NamesInvHolds == Spec => []NamesInv
<1>1. Init => NamesInv
    BY DEF Init, Empty, NamesInv
<1> QED  BY <1>1, NamesStep, FinanceInvHolds, PTL DEF Spec

(* What BalanceFollowsOperations says of the accounts of one step.            *)
BasesKept ==
    \A id \in DOMAIN accounts \cap DOMAIN accounts' :
        accounts'[id].name = accounts[id].name =>
            Base(accounts', id, operations') = Base(accounts, id, operations)

Edited == \E id \in DOMAIN accounts, balance \in Starts : UpdateBalance(id, balance)

LEMMA OperationsUntouched ==
    ASSUME UNCHANGED operations,
           \A id \in DOMAIN accounts \cap DOMAIN accounts' :
               accounts'[id].name = accounts[id].name => accounts'[id].balance = accounts[id].balance
    PROVE  BasesKept
BY DEF BasesKept, Base

(* The balance of the operation's account moves by what its total does.      *)
LEMMA OperationMovesBalance ==
    ASSUME FinanceInv, NEW type \in Types, NEW account \in DOMAIN accounts, NEW amount \in Amounts,
           NEW date \in Dates, NEW category \in CategoryIds,
           CreateOperation(type, account, amount, date, category)
    PROVE  BasesKept
<1> DEFINE n == nextId["operations"]
           op == [type |-> type, account |-> account, amount |-> amount,
                  date |-> date, category |-> category]
<1>1. IsFiniteSet(DOMAIN operations) /\ n \notin DOMAIN operations
    BY OperationsFinite DEF FinanceInv, TypeOK, Issued, Factories
<1>2. /\ DOMAIN operations' = DOMAIN operations \cup {n}
      /\ operations'[n] = op
      /\ \A o \in DOMAIN operations : operations'[o] = operations[o]
    <2>1. operations' = Stored(operations, n, op)
        BY DEF CreateOperation
    <2> HIDE DEF op, n
    <2> QED  BY <1>1, <2>1 DEF Stored
<1>3. operations' \in [DOMAIN operations' -> OperationType]
    BY OperationAdded DEF FinanceInv, TypeOK
<1>4. op.account = account /\ IsFiniteSet(DOMAIN operations')
    BY <1>1, <1>2, FS_AddElement
<1>5. /\ DOMAIN accounts' = DOMAIN accounts
      /\ accounts'[account].balance = accounts[account].balance + Signed(op)
      /\ \A id \in DOMAIN accounts \ {account} : accounts'[id] = accounts[id]
    <2>1. accounts' = [accounts EXCEPT ![account].balance = @ + Signed(op)]
        BY DEF CreateOperation
    <2> HIDE DEF op
    <2> QED  BY <2>1 DEF FinanceInv, TypeOK, AccountType
<1> HIDE DEF op, n
<1>6. ASSUME NEW id \in DOMAIN accounts
      PROVE  Base(accounts', id, operations') = Base(accounts, id, operations)
    <2>1. /\ Total(operations, id) \in Int /\ Signed(op) \in Int
          /\ Total(operations', id) = Total(operations, id) + IF account = id THEN Signed(op) ELSE 0
        BY <1>1, <1>2, <1>3, <1>4, OneOperationMore
    <2>2. /\ Base(accounts, id, operations) = accounts[id].balance - Total(operations, id)
          /\ Base(accounts', id, operations') = accounts'[id].balance - Total(operations', id)
        BY <1>1, <1>4, BaseIsBalanceLessTotal
    <2>3. accounts[id].balance \in Int
        BY DEF FinanceInv, TypeOK, AccountType
    <2>4. CASE id = account
        BY <1>5, <2>1, <2>2, <2>3, <2>4
    <2>5. CASE id # account
        BY <1>5, <2>1, <2>2, <2>3, <2>5
    <2> QED  BY <2>4, <2>5
<1> QED  BY <1>6 DEF BasesKept

LEMMA RemovalMovesBalance ==
    ASSUME FinanceInv, NEW n \in DOMAIN operations, RemoveOperation(n)
    PROVE  BasesKept
<1> DEFINE account == operations[n].account
           op == operations[n]
<1>1. IsFiniteSet(DOMAIN operations) /\ IsFiniteSet(DOMAIN operations') /\ n \notin DOMAIN operations'
    <2>1. DOMAIN operations' = DOMAIN operations \ {n}
        BY DEF RemoveOperation, Erased
    <2> QED  BY <2>1, OperationsFinite, FS_RemoveElement
<1>2. /\ DOMAIN operations = DOMAIN operations' \cup {n}
      /\ \A o \in DOMAIN operations' : operations[o] = operations'[o]
      /\ operations \in [DOMAIN operations -> OperationType]
    BY DEF RemoveOperation, Erased, FinanceInv, TypeOK
<1>3. /\ DOMAIN accounts' = DOMAIN accounts
      /\ account \in DOMAIN accounts => accounts'[account].balance = accounts[account].balance - Signed(op)
      /\ \A id \in DOMAIN accounts \ {account} : accounts'[id] = accounts[id]
    <2>1. accounts' = IF account \in DOMAIN accounts
                      THEN [accounts EXCEPT ![account].balance = @ - Signed(op)]
                      ELSE accounts
        BY DEF RemoveOperation
    <2> HIDE DEF op, account
    <2> QED  BY <2>1 DEF FinanceInv, TypeOK, AccountType
<1>4. ASSUME NEW id \in DOMAIN accounts
      PROVE  Base(accounts', id, operations') = Base(accounts, id, operations)
    <2>1. /\ Total(operations', id) \in Int /\ Signed(op) \in Int
          /\ Total(operations, id) = Total(operations', id) + IF account = id THEN Signed(op) ELSE 0
        BY <1>1, <1>2, OneOperationMore
    <2> HIDE DEF op, account
    <2>2. /\ Base(accounts, id, operations) = accounts[id].balance - Total(operations, id)
          /\ Base(accounts', id, operations') = accounts'[id].balance - Total(operations', id)
        BY <1>1, BaseIsBalanceLessTotal
    <2>3. accounts[id].balance \in Int
        BY DEF FinanceInv, TypeOK, AccountType
    <2>4. CASE id = account
        BY <1>3, <2>1, <2>2, <2>3, <2>4
    <2>5. CASE id # account
        BY <1>3, <2>1, <2>2, <2>3, <2>5
    <2> QED  BY <2>4, <2>5
<1> QED  BY <1>4 DEF BasesKept

LEMMA BasesStep == FinanceInv /\ NamesInv /\ [Next]_vars => Edited \/ BasesKept
<1> SUFFICES ASSUME FinanceInv, NamesInv, [Next]_vars PROVE Edited \/ BasesKept
    OBVIOUS
<1>1. ASSUME NEW name \in Names, NEW start \in Starts, CreateAccount(name, start)
      PROVE  BasesKept
    <2>1. /\ UNCHANGED operations
          /\ \A i \in DOMAIN accounts \ {nextId["accounts"]} : accounts'[i] = accounts[i]
          /\ accounts'[nextId["accounts"]].name = name
        BY <1>1 DEF CreateAccount, Stored
    <2>2. ASSUME nextId["accounts"] \in DOMAIN accounts
          PROVE  accounts[nextId["accounts"]].name = Imported
        BY <2>2 DEF NamesInv, FinanceInv, TypeOK, Factories
    <2> QED  BY <2>1, <2>2, OperationsUntouched, NamesAssumption
<1>2. ASSUME NEW id \in DOMAIN accounts, RemoveAccount(id)
      PROVE  BasesKept
    BY <1>2, OperationsUntouched DEF RemoveAccount, Erased
<1>3. ASSUME NEW id \in DOMAIN accounts, NEW balance \in Starts, UpdateBalance(id, balance)
      PROVE  Edited
    BY <1>3 DEF Edited
<1>4. ASSUME NEW type \in Types, NEW name \in Names, CreateCategory(type, name)
      PROVE  BasesKept
    BY <1>4, OperationsUntouched DEF CreateCategory
<1>5. ASSUME NEW id \in DOMAIN categories, RemoveCategory(id)
      PROVE  BasesKept
    BY <1>5, OperationsUntouched DEF RemoveCategory
<1>6. CASE ImportCsv
    BY <1>6, OperationsUntouched DEF ImportCsv, Empty
<1>7. CASE ImportJson
    BY <1>7, OperationsUntouched DEF ImportJson
<1>8. CASE UNCHANGED vars
    BY <1>8, OperationsUntouched DEF vars
<1> QED  BY <1>1, <1>2, <1>3, <1>4, <1>5, <1>6, <1>7, <1>8, OperationMovesBalance, RemovalMovesBalance DEF Next

(* BalanceFollowsOperations: unless it is edited or replaced, an account     *)
(* holds a constant plus the operations on record against it, whatever       *)
(* numbers are reused after an import.                                       *)
THEOREM BalanceFollows == Spec => BalanceFollowsOperations
<1>1. FinanceInv /\ NamesInv /\ [Next]_vars => [Edited \/ BasesKept]_vars
    BY BasesStep
<1> QED  BY <1>1, FinanceInvHolds, NamesInvHolds, PTL DEF Spec, BalanceFollowsOperations, Edited, BasesKept
=============================================================================
