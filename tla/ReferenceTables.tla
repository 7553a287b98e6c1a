--------------------------- MODULE ReferenceTables ---------------------------
(***************************************************************************)
(* The tables behind ReferenceCache: dictionary types and their data       *)
(* (internal/service/dict.go, repository/dict.go) and parameters           *)
(* (internal/service/config.go, repository/config.go), some of which the   *)
(* program itself refers to by name (contract_data.go).  Data names its    *)
(* type, by no key of the database's.                                      *)
(*                                                                         *)
(* A writer holds dictWriteMu or configWriteMu until it returns, and its   *)
(* rows change in one statement or transaction, so a request is one step:  *)
(* the rows, the cache entries it cleared afterwards, and its answer.      *)
(* ReferenceCache has those steps one by one, with readers between them,   *)
(* and takes for granted what is checked here: that a write clears every   *)
(* entry whose value it changed.                                           *)
(*                                                                         *)
(* A dictionary's type is spelled one way: the pattern of types allows     *)
(* lower case only, and data is assumed to follow it.                      *)
(***************************************************************************)
EXTENDS Naturals, FiniteSets

CONSTANTS
    RefIds,       \* ids of types, and of parameters
    DataCodes,
    RefNames,     \* names of types, and keys of parameters
    Contract,     \* those the program refers to
    Labels,       \* what a row of data shows, and the values of parameters
    Sensible      \* values that a contract parameter may have

ASSUME RefTablesAssumption == IsFiniteSet(RefIds) /\ Contract \subseteq RefNames /\ Sensible \subseteq Labels

VARIABLES
    dictTypes,    \* dict_id -> its name, for the types there are
    dictData,     \* dict_code -> [type, active, label]
    params,       \* config_id -> [key, builtin, value]
    reply         \* whether the last request succeeded, and the cache entries it cleared

refVars == <<dictTypes, dictData, params, reply>>

Data == [type: RefNames, active: BOOLEAN, label: Labels]
Param == [key: RefNames, builtin: BOOLEAN, value: Labels]

Put(table, id, row) == [i \in DOMAIN table \cup {id} |-> IF i = id THEN row ELSE table[i]]
Without(table, ids) == [i \in DOMAIN table \ ids |-> table[i]]

\* The program comes with its contract types and parameters; it may also start
\* on a database without them.
DictInit ==
    /\ \/ dictTypes = [i \in {} |-> 0]
       \/ \E id \in RefIds, n \in Contract : dictTypes = [i \in {id} |-> n]
    /\ dictData = [c \in {} |-> 0]
ParamsInit ==
    \/ params = [i \in {} |-> 0]
    \/ \E id \in RefIds, n \in Contract, v \in Sensible :
         params = [i \in {id} |-> [key |-> n, builtin |-> TRUE, value |-> v]]
RefInit == DictInit /\ ParamsInit /\ reply = [ok |-> TRUE, cleared |-> {}]

-----------------------------------------------------------------------------
\* What follows a commit: the entries are cleared one after the other, parameters
\* by one script, until a call of Redis fails; if the commit itself is not heard
\* of, none is.  Only the entries of a request that succeeds are kept here.
runPostCommit(names) == reply' \in {[ok |-> TRUE, cleared |-> names], [ok |-> FALSE, cleared |-> {}]}

-----------------------------------------------------------------------------
(* Dictionary types.                                                       *)

CountDictTypeByType(name, id) == Cardinality({i \in DOMAIN dictTypes \ {id} : dictTypes[i] = name})

\* The check takes no row for the new one's own, whatever id the request has.
CreateDictType(id, name) ==
    /\ id \notin DOMAIN dictTypes
    /\ \A i \in DOMAIN dictTypes : dictTypes[i] # name
    /\ dictTypes' = Put(dictTypes, id, name)
    /\ runPostCommit({})
    /\ UNCHANGED <<dictData, params>>

\* repository.UpdateDictType: the data follows a new name in the same transaction.
Renamed(old, name) ==
    [c \in DOMAIN dictData |-> IF dictData[c].type = old THEN [dictData[c] EXCEPT !.type = name] ELSE dictData[c]]

UpdateDictType(id, name) ==
    /\ id \in DOMAIN dictTypes
    /\ dictTypes[id] # name => {dictTypes[id], name} \cap Contract = {}
    /\ CountDictTypeByType(name, id) = 0
    /\ dictTypes' = Put(dictTypes, id, name)
    /\ dictData' = Renamed(dictTypes[id], name)
    /\ runPostCommit({dictTypes[id], name})
    /\ UNCHANGED params

\* SelectDictTypesForDelete: how much data there is of these types.
DataOf(names) == {c \in DOMAIN dictData : dictData[c].type \in names}

DeleteDictTypes(ids) ==
    LET names == {dictTypes[i] : i \in ids \cap DOMAIN dictTypes} IN
    /\ names \cap Contract = {}
    /\ DataOf(names) = {}
    /\ dictTypes' = Without(dictTypes, ids)
    /\ runPostCommit(names)
    /\ UNCHANGED <<dictData, params>>

-----------------------------------------------------------------------------
(* Dictionary data, of a type that exists or not.                          *)

CreateDictData(code, row) ==
    /\ code \notin DOMAIN dictData
    /\ dictData' = Put(dictData, code, row)
    /\ runPostCommit({row.type})
    /\ UNCHANGED <<dictTypes, params>>

\* Mutant: only the type that the row has now is cleared.
TypeNow(code, row) == {row.type}

\* A row may go to another type.
TypesOfUpdate(code, row) == {dictData[code].type, row.type}

UpdateDictData(code, row) ==
    /\ code \in DOMAIN dictData
    /\ dictData' = Put(dictData, code, row)
    /\ runPostCommit(TypesOfUpdate(code, row))
    /\ UNCHANGED <<dictTypes, params>>

DeleteDictData(codes) ==
    /\ dictData' = Without(dictData, codes)
    /\ runPostCommit({dictData[c].type : c \in codes \cap DOMAIN dictData})
    /\ UNCHANGED <<dictTypes, params>>

\* What SelectDictDataByType answers, and the cache keeps.
SelectDictDataByType(name) ==
    {<<c, dictData[c].label>> : c \in {d \in DOMAIN dictData : dictData[d].active /\ dictData[d].type = name}}

-----------------------------------------------------------------------------
(* Parameters.                                                             *)

CountConfigByKey(key, id) == Cardinality({i \in DOMAIN params \ {id} : params[i].key = key})

validateContractConfigValue(row) == row.key \in Contract => row.value \in Sensible

validateConfigCreate(row) == (row.key \in Contract => row.builtin) /\ validateContractConfigValue(row)

\* What is built in, or referred to, stays so and keeps its key.
validateConfigUpdate(old, row) ==
    /\ old.builtin \/ old.key \in Contract => row.builtin
    /\ old.key # row.key => ~old.builtin /\ {old.key, row.key} \cap Contract = {}
    /\ validateContractConfigValue(row)

CreateConfig(id, row) ==
    /\ id \notin DOMAIN params
    /\ \A i \in DOMAIN params : params[i].key # row.key
    /\ validateConfigCreate(row)
    /\ params' = Put(params, id, row)
    /\ runPostCommit({row.key})
    /\ UNCHANGED <<dictTypes, dictData>>

UpdateConfig(id, row) ==
    /\ id \in DOMAIN params
    /\ validateConfigUpdate(params[id], row)
    /\ CountConfigByKey(row.key, id) = 0
    /\ params' = Put(params, id, row)
    /\ runPostCommit({params[id].key, row.key})
    /\ UNCHANGED <<dictTypes, dictData>>

DeleteConfigs(ids) ==
    LET rows == {params[i] : i \in ids \cap DOMAIN params} IN
    /\ \A row \in rows : ~row.builtin /\ row.key \notin Contract
    /\ params' = Without(params, ids)
    /\ runPostCommit({row.key : row \in rows})
    /\ UNCHANGED <<dictTypes, dictData>>

SelectConfigValueByKey(key) == {params[i].value : i \in {j \in DOMAIN params : params[j].key = key}}

-----------------------------------------------------------------------------
DictTypeNext ==
    \/ \E id \in RefIds, name \in RefNames : CreateDictType(id, name) \/ UpdateDictType(id, name)
    \/ \E ids \in (SUBSET RefIds) \ {{}} : DeleteDictTypes(ids)

DictDataNext ==
    \/ \E code \in DataCodes, row \in Data : CreateDictData(code, row) \/ UpdateDictData(code, row)
    \/ \E codes \in (SUBSET DataCodes) \ {{}} : DeleteDictData(codes)

DictNext == DictTypeNext \/ DictDataNext

ParamsNext ==
    \/ \E id \in RefIds, row \in Param : CreateConfig(id, row) \/ UpdateConfig(id, row)
    \/ \E ids \in (SUBSET RefIds) \ {{}} : DeleteConfigs(ids)

RefSpec == RefInit /\ [][DictNext \/ ParamsNext]_refVars

-----------------------------------------------------------------------------
RefTypeOK ==
    /\ DOMAIN dictTypes \subseteq RefIds /\ \A i \in DOMAIN dictTypes : dictTypes[i] \in RefNames
    /\ DOMAIN dictData \subseteq DataCodes /\ \A c \in DOMAIN dictData : dictData[c] \in Data
    /\ DOMAIN params \subseteq RefIds /\ \A i \in DOMAIN params : params[i] \in Param
    /\ reply \in [ok: BOOLEAN, cleared: SUBSET RefNames]

\* A request that reports success has cleared every entry whose value it
\* changed, whether it changed, moved or removed the row behind it
\* (dict.go:167, dict.go:324, config.go:149).
ChangesCleared ==
    reply'.ok => \A n \in RefNames :
        \/ n \in reply'.cleared
        \/ UNCHANGED <<SelectDictDataByType(n), SelectConfigValueByKey(n)>>

Orphans == {c \in DOMAIN dictData : \A i \in DOMAIN dictTypes : dictTypes[i] # dictData[c].type}

\* No operation on types leaves data without its type (repository/dict.go:250),
\* or takes it away from it.
TypesKeepData ==
    dictTypes' # dictTypes => Orphans' \subseteq Orphans /\ DOMAIN dictData' = DOMAIN dictData

\* What the program refers to stays there, under one row, with a value it can use.
ContractKept ==
    /\ \A i \in DOMAIN dictTypes : dictTypes[i] \in Contract => i \in DOMAIN dictTypes' /\ dictTypes'[i] = dictTypes[i]
    /\ \A i \in DOMAIN params :
         params[i].key \in Contract =>
            i \in DOMAIN params' /\ params'[i].key = params[i].key /\ params'[i].builtin
    /\ \A i \in DOMAIN params' : params'[i].key \in Contract => params'[i].value \in Sensible
    /\ \A i, j \in DOMAIN dictTypes' : dictTypes'[i] = dictTypes'[j] => i = j
    /\ \A i, j \in DOMAIN params' : params'[i].key = params'[j].key => i = j

RefTablesSound == ChangesCleared /\ TypesKeepData /\ ContractKept

=============================================================================
