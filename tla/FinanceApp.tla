----------------------------- MODULE FinanceApp -----------------------------
(***************************************************************************)
(* The finance library: three in-memory repositories, the facades that     *)
(* create, edit and remove what they hold, the two importers, and the      *)
(* analytics over the operations.  It is single-threaded: a step is one    *)
(* call of a facade or an importer, and a call that throws before it has   *)
(* changed anything is no step.                                            *)
(*                                                                         *)
(* Identifiers do not come from one place.  Each facade's create() has a   *)
(* static DomainFactory of its own, and each importer has one as a member; *)
(* InMemoryRepository::add() stores an object under its id whether or not  *)
(* the id is taken.                                                        *)
(*                                                                         *)
(* Outside the model: descriptions, fractions of an amount (a double here  *)
(* is a whole number), SimpleCachedRepository (the same map), and files    *)
(* that cannot be read or are empty, on which an import throws.            *)
(***************************************************************************)
EXTENDS Integers, FiniteSets, Functions

CONSTANTS
    Names,         \* names a user gives to accounts and categories
    NoName,        \* the empty name
    Imported,      \* the name of what an importer creates
    Starts,        \* start and edited balances
    ImportedStart, \* balance of an imported account, 2000.0 in the code
    Amounts,       \* amounts of operations
    Dates,         \* dates of operations
    CategoryIds,   \* categories operations name, on record or not
    MaxIds         \* bound: identifiers each factory hands out, by factory

Factories == {"accounts", "categories", "operations", "csv", "json"}

ASSUME NamesAssumption ==
    /\ NoName \in Names
    /\ Imported \notin Names

ASSUME NumbersAssumption ==
    /\ Starts \subseteq Int
    /\ ImportedStart \in Int
    /\ Amounts \subseteq Int
    /\ Dates \subseteq Int
    /\ CategoryIds \subseteq Int
    /\ MaxIds \in [Factories -> Nat]

Types == {"income", "expense"}

VARIABLES
    accounts,      \* accountRepo: id -> [name, balance]
    categories,    \* categoryRepo: id -> [name, type]
    operations,    \* operationRepo: id -> [type, account, amount, date, category]
    nextId         \* next id of each DomainFactory

vars == <<accounts, categories, operations, nextId>>

Empty == [id \in {} |-> NoName]

Init ==
    /\ accounts = Empty
    /\ categories = Empty
    /\ operations = Empty
    /\ nextId = [f \in Factories |-> 1]

-----------------------------------------------------------------------------
(* IdGenerator and InMemoryRepository.                                       *)

NewId(factory) ==
    /\ nextId[factory] <= MaxIds[factory]
    /\ nextId' = [nextId EXCEPT ![factory] = @ + 1]

(* add() and update() do the same: storage[obj.id] = obj.                    *)
Stored(repo, id, object) ==
    [i \in DOMAIN repo \cup {id} |-> IF i = id THEN object ELSE repo[i]]

Erased(repo, id) == [i \in DOMAIN repo \ {id} |-> repo[i]]

-----------------------------------------------------------------------------
(* AccountFacade and CategoryFacade.                                         *)

(* Mutant: a removed identifier is handed out again.                         *)
CreateAccount_ReusesIds(name, start) ==
    LET id == Cardinality(DOMAIN accounts) + 1 IN
    /\ nextId' = [nextId EXCEPT !["accounts"] = id + 1]
    /\ id <= MaxIds["accounts"]
    /\ accounts' = Stored(accounts, id, [name |-> name, balance |-> start])
    /\ UNCHANGED <<categories, operations>>

(* The factory validates neither the name nor the balance.                   *)
CreateAccount(name, start) ==
    /\ NewId("accounts")
    /\ accounts' = Stored(accounts, nextId["accounts"], [name |-> name, balance |-> start])
    /\ UNCHANGED <<categories, operations>>

UpdateBalance(id, newBalance) ==
    /\ id \in DOMAIN accounts
    /\ accounts' = [accounts EXCEPT ![id].balance = newBalance]
    /\ UNCHANGED <<categories, operations, nextId>>

(* The operations of a removed account stay on record.                       *)
RemoveAccount(id) ==
    /\ accounts' = Erased(accounts, id)
    /\ UNCHANGED <<categories, operations, nextId>>

CreateCategory(type, name) ==
    /\ NewId("categories")
    /\ categories' = Stored(categories, nextId["categories"], [name |-> name, type |-> type])
    /\ UNCHANGED <<accounts, operations>>

RemoveCategory(id) ==
    /\ categories' = Erased(categories, id)
    /\ UNCHANGED <<accounts, operations, nextId>>

-----------------------------------------------------------------------------
(* OperationFacade.                                                          *)

Signed(op) == IF op.type = "income" THEN op.amount ELSE - op.amount

(* Mutant: the factory does not test the amount.                             *)
CreateOperation_AnyAmount(type, account, amount, date, category) ==
    LET op == [type |-> type, account |-> account, amount |-> amount,
               date |-> date, category |-> category] IN
    /\ account \in DOMAIN accounts
    /\ NewId("operations")
    /\ operations' = Stored(operations, nextId["operations"], op)
    /\ accounts' = [accounts EXCEPT ![account].balance = @ + Signed(op)]
    /\ UNCHANGED categories

(* The account must exist and the amount must not be negative; the category  *)
(* is not looked up.                                                         *)
CreateOperation(type, account, amount, date, category) ==
    LET op == [type |-> type, account |-> account, amount |-> amount,
               date |-> date, category |-> category] IN
    /\ account \in DOMAIN accounts
    /\ amount >= 0
    /\ NewId("operations")
    /\ operations' = Stored(operations, nextId["operations"], op)
    /\ accounts' = [accounts EXCEPT ![account].balance = @ + Signed(op)]
    /\ UNCHANGED categories

(* Mutant: the account is found by the operation's own id.                   *)
RemoveOperation_WrongAccount(id) ==
    /\ id \in DOMAIN operations
    /\ accounts' = IF id \in DOMAIN accounts
                   THEN [accounts EXCEPT ![id].balance = @ - Signed(operations[id])]
                   ELSE accounts
    /\ operations' = Erased(operations, id)
    /\ UNCHANGED <<categories, nextId>>

(* The account, if it still exists, is put back to where it was.             *)
RemoveOperation(id) ==
    /\ id \in DOMAIN operations
    /\ LET account == operations[id].account IN
       accounts' = IF account \in DOMAIN accounts
                   THEN [accounts EXCEPT ![account].balance = @ - Signed(operations[id])]
                   ELSE accounts
    /\ operations' = Erased(operations, id)
    /\ UNCHANGED <<categories, nextId>>

-----------------------------------------------------------------------------
(* The importers: the parsers are stubs that create one object in an empty   *)
(* repository, with an id of the importer's own factory.                     *)

ImportCsv ==
    /\ accounts = Empty
    /\ NewId("csv")
    /\ accounts' = Stored(accounts, nextId["csv"], [name |-> Imported, balance |-> ImportedStart])
    /\ UNCHANGED <<categories, operations>>

ImportJson ==
    /\ categories = Empty
    /\ NewId("json")
    /\ categories' = Stored(categories, nextId["json"], [name |-> Imported, type |-> "income"])
    /\ UNCHANGED <<accounts, operations>>

Next ==
    \/ \E name \in Names, start \in Starts : CreateAccount(name, start)
    \/ \E id \in DOMAIN accounts :
          RemoveAccount(id) \/ \E balance \in Starts : UpdateBalance(id, balance)
    \/ \E type \in Types, name \in Names : CreateCategory(type, name)
    \/ \E id \in DOMAIN categories : RemoveCategory(id)
    \/ \E type \in Types, account \in DOMAIN accounts, amount \in Amounts, date \in Dates,
          category \in CategoryIds : CreateOperation(type, account, amount, date, category)
    \/ \E id \in DOMAIN operations : RemoveOperation(id)
    \/ ImportCsv
    \/ ImportJson

Spec == Init /\ [][Next]_vars

-----------------------------------------------------------------------------
(* AnalyticsFacade.                                                          *)

InPeriod(from, to) ==
    {id \in DOMAIN operations : from <= operations[id].date /\ operations[id].date <= to}

IncomeMinusExpense(from, to) ==
    LET total(type) == SumFunction([id \in {i \in InPeriod(from, to) : operations[i].type = type} |->
                                        operations[id].amount])
    IN total("income") - total("expense")

(* Mutant: expenses are added.                                               *)
SumByCategory_Unsigned(from, to) ==
    [c \in {operations[id].category : id \in InPeriod(from, to)} |->
        SumFunction([id \in {i \in InPeriod(from, to) : operations[i].category = c} |->
                         operations[id].amount])]

(* A map from the categories that operations of the period name.             *)
SumByCategory(from, to) ==
    [c \in {operations[id].category : id \in InPeriod(from, to)} |->
        SumFunction([id \in {i \in InPeriod(from, to) : operations[i].category = c} |->
                         Signed(operations[id])])]

-----------------------------------------------------------------------------
(* Properties.                                                               *)

Issued(factories, repo) == DOMAIN repo \subseteq UNION {1 .. nextId[f] - 1 : f \in factories}

AccountType == [name : Names \cup {Imported}, balance : Int]
CategoryType == [name : Names \cup {Imported}, type : Types]
OperationType == [type : Types, account : Nat, amount : Nat, date : Dates, category : CategoryIds]

(* Every repository holds objects of its class under ids a factory has       *)
(* handed out, and no operation with a negative amount.                      *)
TypeOK ==
    /\ nextId \in [Factories -> Nat]
    /\ accounts \in [DOMAIN accounts -> AccountType] /\ Issued({"accounts", "csv"}, accounts)
    /\ categories \in [DOMAIN categories -> CategoryType] /\ Issued({"categories", "json"}, categories)
    /\ operations \in [DOMAIN operations -> OperationType] /\ Issued({"operations"}, operations)

SameName(repo, repoNext) ==
    \A id \in DOMAIN repo \cap DOMAIN repoNext : repoNext[id].name = repo[id].name

(* README.md: the factory manages identifiers centrally.  Nothing renames an *)
(* object, so an object under an old id with a new name has replaced another *)
(* one.                                                                      *)
NothingIsReplaced ==
    [][SameName(accounts, accounts') /\ SameName(categories, categories')]_vars

(* Until something has been imported the facades' ids do not collide: no     *)
(* object replaces another, and an account that was removed never returns    *)
(* under its id to inherit the operations that stayed on record.             *)
IdsAreFresh ==
    [][/\ nextId'["csv"] = 1 =>
             \A id \in DOMAIN accounts' \ DOMAIN accounts :
                \A op \in DOMAIN operations : operations[op].account # id
       /\ nextId'["csv"] = 1 => SameName(accounts, accounts')
       /\ nextId'["json"] = 1 => SameName(categories, categories')]_vars

(* What an account would hold without the operations on record against it.   *)
Base(repo, id, ops) ==
    repo[id].balance - SumFunction([op \in {o \in DOMAIN ops : ops[o].account = id} |-> Signed(ops[op])])

(* Operations and balances keep step through any history of creations and    *)
(* removals, whatever accounts come and go and however ids collide: as long  *)
(* as an account is neither edited nor replaced, its balance is a constant   *)
(* plus the operations on record against it.                                 *)
BalanceFollowsOperations ==
    [][\/ \E id \in DOMAIN accounts, balance \in Starts : UpdateBalance(id, balance)
       \/ \A id \in DOMAIN accounts \cap DOMAIN accounts' :
             accounts'[id].name = accounts[id].name =>
                Base(accounts', id, operations') = Base(accounts, id, operations)]_vars

(* The two analyses agree: over every period the sums by category add up to  *)
(* income minus expense, also when categories have been removed or replaced. *)
AnalyticsAgree ==
    \A from, to \in Dates : SumFunction(SumByCategory(from, to)) = IncomeMinusExpense(from, to)
=============================================================================
