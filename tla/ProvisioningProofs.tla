------------------------- MODULE ProvisioningProofs -------------------------
(***************************************************************************)
(* What the endpoints do to the vault is what the vault's specification    *)
(* allows, for every number of threads, cards, profiles and values; so the *)
(* invariants proved of the vault hold in the whole program, whatever      *)
(* happens at the reader and between the steps of the requests.            *)
(***************************************************************************)
EXTENDS Provisioning, VersionedStoreProofs

-----------------------------------------------------------------------------
(* Type correctness, and the steps of the vault                            *)

(* Where a request goes on, its local variables stay typed.                *)
LEMMA GotoType ==
  ASSUME request \in [Callers -> Requests], NEW c \in Callers,
         NEW local \in Requests, Goto(c, local)
  PROVE  request' \in [Callers -> Requests]
BY DEF Goto

(* The requests with the values they hold at each point are typed.         *)
LEMMA RequestTypes ==
  /\ Free \in Requests
  /\ \A id \in ProfileIds : [op |-> "mark", id |-> id] \in Requests
  /\ \A id \in ProfileIds, iccid \in Iccids :
       [op |-> "compare", id |-> id, iccid |-> iccid] \in Requests
  /\ \A id \in ProfileIds, iccid \in Iccids, files \in CardFiles, field \in {"imsi", "info"} :
       [op |-> "adopt", id |-> id, iccid |-> iccid, files |-> files, field |-> field]
         \in Requests
  /\ \A record \in Record : [op |-> "add", record |-> record] \in Requests
  /\ \A id \in ProfileIds, base \in Revisions, changed \in SUBSET Fields :
       [op |-> "summary", id |-> id, base |-> base, changed |-> changed] \in Requests
  /\ \A o \in {"queued", "writing", "commit"}, id \in ProfileIds, base \in Revisions,
        record \in Record, todo \in SUBSET Fields :
       [op |-> o, id |-> id, base |-> base, record |-> record, todo |-> todo] \in Requests
BY DEF Requests

(* What a thread holds at the point its request has reached.               *)
LEMMA RequestCases ==
  ASSUME request \in [Callers -> Requests], NEW c \in Callers
  PROVE  /\ request[c].op = "mark" => request[c].id \in ProfileIds
         /\ request[c].op = "compare" => request[c].id \in ProfileIds
         /\ request[c].op = "adopt" =>
              /\ request[c].id \in ProfileIds
              /\ request[c].iccid \in Iccids
              /\ request[c].files \in CardFiles
         /\ request[c].op = "add" => request[c].record \in Record
         /\ request[c].op = "summary" =>
              /\ request[c].id \in ProfileIds
              /\ request[c].base \in Revisions
              /\ request[c].changed \in SUBSET Fields
         /\ request[c].op \in {"queued", "writing", "commit"} =>
              request[c] \in [op : {"queued", "writing", "commit"}, id : ProfileIds,
                              base : Revisions, record : Record, todo : SUBSET Fields]
<1>1. request[c] \in Requests
  OBVIOUS
<1> QED BY <1>1 DEF Requests, Free

(* The rest of the program beside the vault.                               *)
OutsideTypeOK ==
  /\ cards \in [Iccids -> CardFiles]
  /\ inserted \in Iccids \cup {NoCard}
  /\ seen \subseteq Iccids
  /\ adapter \in Callers \cup {NoCaller}
  /\ request \in [Callers -> Requests]

(* Every step of the program is a step of the vault or leaves the vault    *)
(* alone, and keeps the rest typed.                                        *)
LEMMA StepOfVault ==
  SystemTypeOK /\ [SystemNext]_systemVars => [Next]_vars /\ OutsideTypeOK'
<1> SUFFICES ASSUME SystemTypeOK, [SystemNext]_systemVars
             PROVE  [Next]_vars /\ OutsideTypeOK'
  OBVIOUS
<1> USE DEF OutsideTypeOK
<1>a. OutsideTypeOK /\ TypeOK
  BY DEF SystemTypeOK
<1>b. DOMAIN profiles \subseteq ProfileIds /\ DOMAIN drafts \subseteq ProfileIds
  BY <1>a DEF TypeOK, IsTable
<1>1. ASSUME NEW iccid \in Iccids, InsertCard(iccid)
      PROVE  [Next]_vars /\ OutsideTypeOK'
  BY <1>1, <1>a DEF InsertCard
<1>2. CASE RemoveCard
  BY <1>2, <1>a DEF RemoveCard
<1>3. CASE SystemRestart
  BY <1>3, <1>a, RequestTypes DEF SystemRestart, Next, cardVars
<1>4. ASSUME NEW c \in Callers, VaultRequest(c)
      PROVE  [Next]_vars /\ OutsideTypeOK'
  <2>1. OutsideTypeOK'
    BY <1>4, <1>a DEF VaultRequest, cardVars
  <2>2. AtomicCall \/ TwoSectionCall(c)
    BY <1>4 DEF VaultRequest, AtomicCall
  <2> QED BY <2>1, <2>2 DEF Next
<1>5. ASSUME NEW c \in Callers, NEW id \in ProfileIds, ReadProfile(c, id)
      PROVE  [Next]_vars /\ OutsideTypeOK'
  <2>1. id \in DOMAIN profiles => profiles[id].record.iccid \in Iccids
    BY <1>a DEF TypeOK, IsTable, ProfileRow, Record
  <2>2. id \in DOMAIN drafts => drafts[id].record.iccid \in Iccids
    BY <1>a DEF TypeOK, IsTable, DraftRow, Record
  <2>3. request' \in [Callers -> Requests]
    BY <1>5, <1>a, <2>1, <2>2, RequestTypes, GotoType DEF ReadProfile
  <2> QED BY <1>5, <1>a, <2>3 DEF ReadProfile, cardVars
<1>6. ASSUME NEW c \in Callers, CompareCard(c)
      PROVE  [Next]_vars /\ OutsideTypeOK'
  <2>1. request' \in [Callers -> Requests]
    BY <1>6, <1>a, RequestTypes, RequestCases, GotoType DEF CompareCard
  <2> QED BY <1>6, <1>a, <2>1 DEF CompareCard, cardVars
<1>7. ASSUME NEW c \in Callers, Goto(c, Free), UNCHANGED <<cardVars, adapter>>
      PROVE  OutsideTypeOK'
  <2>1. request' \in [Callers -> Requests]
    BY <1>7, <1>a, RequestTypes, GotoType
  <2> QED BY <1>7, <1>a, <2>1 DEF cardVars
<1>8. ASSUME NEW c \in Callers, MarkVerified(c)
      PROVE  [Next]_vars /\ OutsideTypeOK'
  <2>1. OutsideTypeOK'
    BY <1>7, <1>8 DEF MarkVerified
  <2>2. Next
    BY <1>8, <1>a, RequestCases DEF MarkVerified, Next, AtomicCall
  <2> QED BY <2>1, <2>2
<1>9. ASSUME NEW c \in Callers, NEW id \in ProfileIds, NEW field \in {"imsi", "info"},
             ReadCardToAdopt(c, id, field)
      PROVE  [Next]_vars /\ OutsideTypeOK'
  <2>1. inserted \in Iccids /\ cards[inserted] \in CardFiles
    BY <1>9, <1>a DEF ReadCardToAdopt
  <2>2. request' \in [Callers -> Requests]
    BY <1>9, <1>a, <2>1, RequestTypes, GotoType DEF ReadCardToAdopt
  <2> QED BY <1>9, <1>a, <2>2 DEF ReadCardToAdopt, cardVars
<1>10. ASSUME NEW c \in Callers, AdoptImsi(c)
       PROVE  [Next]_vars /\ OutsideTypeOK'
  <2>1. OutsideTypeOK'
    BY <1>7, <1>10 DEF AdoptImsi
  <2>2. /\ request[c].id \in ProfileIds /\ request[c].iccid \in Iccids
        /\ request[c].files.imsi \in Imsis
    BY <1>10, <1>a, RequestCases DEF AdoptImsi, CardFiles
  <2>3. AtomicCall
    BY <1>10, <2>2 DEF AdoptImsi, AtomicCall
  <2> QED BY <2>1, <2>3 DEF Next
<1>11. ASSUME NEW c \in Callers, AdoptInfo(c)
       PROVE  [Next]_vars /\ OutsideTypeOK'
  <2>1. OutsideTypeOK'
    BY <1>7, <1>11 DEF AdoptInfo
  <2>2. /\ request[c].id \in ProfileIds /\ request[c].iccid \in Iccids
        /\ request[c].files.info \in Infos
    BY <1>11, <1>a, RequestCases DEF AdoptInfo, CardFiles
  <2>3. AtomicCall
    BY <1>11, <2>2 DEF AdoptInfo, AtomicCall
  <2> QED BY <2>1, <2>3 DEF Next
<1>12. ASSUME NEW c \in Callers, NEW record \in Record, CheckNewCard(c, record)
       PROVE  [Next]_vars /\ OutsideTypeOK'
  <2>1. request' \in [Callers -> Requests]
    BY <1>12, <1>a, RequestTypes, GotoType DEF CheckNewCard
  <2> QED BY <1>12, <1>a, <2>1 DEF CheckNewCard, cardVars
<1>13. ASSUME NEW c \in Callers, AddChecked(c)
       PROVE  [Next]_vars /\ OutsideTypeOK'
  <2>1. OutsideTypeOK'
    BY <1>7, <1>13 DEF AddChecked
  <2>2. request[c].record \in Record /\ TRUE \in BOOLEAN
    BY <1>13, <1>a, RequestCases DEF AddChecked
  <2>3. AtomicCall
    BY <1>13, <2>2 DEF AddChecked, AtomicCall
  <2> QED BY <2>1, <2>3 DEF Next
<1>14. ASSUME NEW c \in Callers, NEW id \in ProfileIds, ReadSummary(c, id)
       PROVE  [Next]_vars /\ OutsideTypeOK'
  <2>1. drafts[id].base \in Revisions /\ drafts[id].changed \in SUBSET Fields
    BY <1>14, <1>a DEF ReadSummary, TypeOK, IsTable, DraftRow
  <2>2. request' \in [Callers -> Requests]
    BY <1>14, <1>a, <2>1, RequestTypes, GotoType DEF ReadSummary
  <2> QED BY <1>14, <1>a, <2>2 DEF ReadSummary, cardVars
<1>15. ASSUME NEW c \in Callers, ReadDraft(c)
       PROVE  [Next]_vars /\ OutsideTypeOK'
  <2> DEFINE r == request[c]
  <2>1. r.id \in ProfileIds /\ r.base \in Revisions /\ r.changed \in SUBSET Fields
    BY <1>15, <1>a, RequestCases DEF ReadDraft
  <2>2. drafts[r.id].record \in Record
    BY <1>15, <1>a DEF ReadDraft, TypeOK, IsTable, DraftRow
  <2>3. Goto(c, [op |-> "queued", id |-> r.id, base |-> r.base,
                 record |-> drafts[r.id].record, todo |-> r.changed])
    BY <1>15 DEF ReadDraft, FieldsToWrite
  <2> HIDE DEF r
  <2>4. request' \in [Callers -> Requests]
    BY <1>a, <2>1, <2>2, <2>3, RequestTypes, GotoType
  <2> QED BY <1>15, <1>a, <2>4 DEF ReadDraft, cardVars
<1>16. ASSUME NEW c \in Callers, StartBridge(c)
       PROVE  [Next]_vars /\ OutsideTypeOK'
  <2>1. request[c] \in [op : {"queued", "writing", "commit"}, id : ProfileIds,
                        base : Revisions, record : Record, todo : SUBSET Fields]
    BY <1>16, <1>a, RequestCases DEF StartBridge
  <2>2. [request[c] EXCEPT !.op = "writing"] \in Requests
    BY <2>1 DEF Requests
  <2>3. request' \in [Callers -> Requests]
    BY <1>16, <1>a, <2>2, GotoType DEF StartBridge
  <2> QED BY <1>16, <1>a, <2>3 DEF StartBridge, cardVars
<1>17. ASSUME NEW c \in Callers, NEW field \in Fields, WriteField(c, field)
       PROVE  [Next]_vars /\ OutsideTypeOK'
  <2>1. request[c] \in [op : {"queued", "writing", "commit"}, id : ProfileIds,
                        base : Revisions, record : Record, todo : SUBSET Fields]
    BY <1>17, <1>a, RequestCases DEF WriteField
  <2>2. [request[c] EXCEPT !.todo = @ \ {field}] \in Requests
    BY <2>1 DEF Requests
  <2>3. request' \in [Callers -> Requests]
    BY <1>17, <1>a, <2>2, GotoType DEF WriteField
  <2>4. inserted \in Iccids /\ cards[inserted] \in CardFiles
    BY <1>17, <1>a, <2>1 DEF WriteField, CardIn, Record
  <2> DEFINE files == [cards[inserted] EXCEPT ![field] = request[c].record[field]]
  <2>5. files \in CardFiles
    BY <2>1, <2>4 DEF CardFiles, Fields, Record
  <2>6. cards' = [cards EXCEPT ![inserted] = files]
    BY <1>17 DEF WriteField
  <2> HIDE DEF files
  <2>7. cards' \in [Iccids -> CardFiles]
    BY <1>a, <2>5, <2>6
  <2> QED BY <1>17, <1>a, <2>3, <2>7 DEF WriteField
<1>18. ASSUME NEW c \in Callers, BridgeAnswers(c)
       PROVE  [Next]_vars /\ OutsideTypeOK'
  <2>1. request[c] \in [op : {"queued", "writing", "commit"}, id : ProfileIds,
                        base : Revisions, record : Record, todo : SUBSET Fields]
    BY <1>18, <1>a, RequestCases DEF BridgeAnswers
  <2>2. [request[c] EXCEPT !.op = "commit"] \in Requests
    BY <2>1 DEF Requests
  <2>3. request' \in [Callers -> Requests]
    BY <1>18, <1>a, <2>2, GotoType DEF BridgeAnswers
  <2> QED BY <1>18, <1>a, <2>3 DEF BridgeAnswers, cardVars
<1>19. ASSUME NEW c \in Callers, BridgeFails(c)
       PROVE  [Next]_vars /\ OutsideTypeOK'
  <2>1. request' \in [Callers -> Requests]
    BY <1>19, <1>a, RequestTypes, GotoType DEF BridgeFails
  <2> QED BY <1>19, <1>a, <2>1 DEF BridgeFails, cardVars
<1>20. ASSUME NEW c \in Callers, Commit(c)
       PROVE  [Next]_vars /\ OutsideTypeOK'
  <2>1. OutsideTypeOK'
    BY <1>7, <1>20 DEF Commit
  <2>2. request[c].id \in ProfileIds /\ request[c].base \in Revisions
    BY <1>20, <1>a, RequestCases DEF Commit
  <2>3. AtomicCall
    BY <1>20, <2>2 DEF Commit, AtomicCall
  <2> QED BY <2>1, <2>3 DEF Next
<1>21. ASSUME NEW c \in Callers, Refused(c)
       PROVE  [Next]_vars /\ OutsideTypeOK'
  BY <1>7, <1>21 DEF Refused
<1>22. CASE UNCHANGED systemVars
  BY <1>22, <1>a DEF systemVars, cardVars
<1>23. ASSUME NEW c \in Callers, Continue(c)
       PROVE  [Next]_vars /\ OutsideTypeOK'
  BY <1>6, <1>8, <1>10, <1>11, <1>13, <1>15, <1>16, <1>17, <1>18, <1>19, <1>20,
     <1>21, <1>23
  DEF Continue
<1>24. ASSUME NEW c \in Callers, Arrive(c)
       PROVE  [Next]_vars /\ OutsideTypeOK'
  BY <1>5, <1>9, <1>12, <1>14, <1>24 DEF Arrive
<1> QED
  BY <1>1, <1>2, <1>3, <1>4, <1>22, <1>23, <1>24 DEF SystemNext

-----------------------------------------------------------------------------
(* The vault within the program                                            *)

(* Every reachable state of the program is typed.                          *)
THEOREM SystemTypeCorrect == SystemSpec => []SystemTypeOK
<1>1. SystemInit => SystemTypeOK
  <2> SUFFICES ASSUME SystemInit PROVE SystemTypeOK
    OBVIOUS
  <2>1. request \in [Callers -> Requests]
    BY RequestTypes DEF SystemInit
  <2> QED BY <2>1, InitType DEF SystemInit, SystemTypeOK
<1>2. SystemTypeOK /\ [SystemNext]_systemVars => SystemTypeOK'
  BY StepOfVault, NextType DEF SystemTypeOK, OutsideTypeOK
<1> QED BY <1>1, <1>2, PTL DEF SystemSpec

(* What holds of the vault's specification holds of the program.           *)
LEMMA VaultInSystem == SystemSpec => Spec
<1>1. SystemInit => Init
  BY DEF SystemInit
<1>2. SystemTypeOK /\ [SystemNext]_systemVars => [Next]_vars
  BY StepOfVault
<1> QED BY <1>1, <1>2, SystemTypeCorrect, PTL DEF SystemSpec, Spec

(* The vault's histories stay complete, its rows stay together and its     *)
(* drafts stay committable in the whole program, too.                      *)
THEOREM VaultSafeInSystem ==
  SystemSpec => [](NoOrphanRows /\ HistoryEndsInActive /\ DraftBaseIsActive)
<1> QED BY VaultInSystem, NoOrphans, HistoryComplete, DraftsCommittable, PTL

-----------------------------------------------------------------------------
(* Versions and the writing adapter                                        *)

(* The whole program keeps a store of versions: no request and no failure  *)
(* at the reader rewrites, skips or drops a version of a profile.          *)
THEOREM SystemIsVersionedStore == SystemSpec => ImplementsVersionedStore
<1> QED BY VaultInSystem, VaultIsVersionedStore, PTL

(* A thread that writes is the one that holds the adapter.                 *)
WriterHoldsAdapter ==
  \A c \in Callers : request[c].op = "writing" => adapter = c

(* A card is never written by two threads, whatever starts, fails, is      *)
(* removed or restarted in between: a thread writes only while it holds    *)
(* the lock of the adapter.                                                *)
THEOREM OneWriterAtATime == SystemSpec => []OneWriter
<1>1. SystemInit => WriterHoldsAdapter
  BY DEF SystemInit, WriterHoldsAdapter, Free
<1>2. SystemTypeOK /\ WriterHoldsAdapter /\ [SystemNext]_systemVars => WriterHoldsAdapter'
  <2> SUFFICES ASSUME SystemTypeOK, WriterHoldsAdapter, [SystemNext]_systemVars
               PROVE  WriterHoldsAdapter'
    OBVIOUS
  <2>a. request \in [Callers -> Requests] /\ adapter \in Callers \cup {NoCaller}
    BY DEF SystemTypeOK
  <2>1. ASSUME NEW c \in Callers, NEW local, Goto(c, local), local.op # "writing",
               UNCHANGED adapter
        PROVE  WriterHoldsAdapter'
    BY <2>1, <2>a DEF Goto, WriterHoldsAdapter
  <2>2. CASE UNCHANGED <<adapter, request>>
    BY <2>2 DEF WriterHoldsAdapter
  <2>3. CASE SystemRestart
    BY <2>3 DEF SystemRestart, WriterHoldsAdapter, Free
  <2>4. ASSUME NEW c \in Callers, StartBridge(c)
        PROVE  WriterHoldsAdapter'
    BY <2>4, <2>a, NoCallerAssumption
    DEF StartBridge, AdapterFree, Goto, WriterHoldsAdapter
  <2>5. ASSUME NEW c \in Callers, NEW field \in Fields, WriteField(c, field)
        PROVE  WriterHoldsAdapter'
    BY <2>5, <2>a DEF WriteField, Goto, WriterHoldsAdapter
  <2>6. ASSUME NEW c \in Callers, BridgeAnswers(c) \/ BridgeFails(c)
        PROVE  WriterHoldsAdapter'
    <3>1. \A d \in Callers : request[d].op = "writing" => d = c
      BY <2>6 DEF BridgeAnswers, BridgeFails, WriterHoldsAdapter
    <3>2. \A d \in Callers : d # c => request'[d] = request[d]
      BY <2>6, <2>a DEF BridgeAnswers, BridgeFails, Goto
    <3>3. request'[c].op # "writing"
      <4>1. CASE BridgeFails(c)
        BY <4>1, <2>a DEF BridgeFails, Goto, Free
      <4>2. CASE BridgeAnswers(c)
        <5>1. request[c] \in [op : {"queued", "writing", "commit"}, id : ProfileIds,
                              base : Revisions, record : Record, todo : SUBSET Fields]
          BY <4>2, <2>a, RequestCases DEF BridgeAnswers
        <5>2. request'[c] = [request[c] EXCEPT !.op = "commit"]
          BY <4>2, <2>a DEF BridgeAnswers, Goto
        <5> QED BY <5>1, <5>2
      <4> QED BY <2>6, <4>1, <4>2
    <3> QED BY <3>1, <3>2, <3>3 DEF WriterHoldsAdapter
  <2>7. ASSUME NEW c \in Callers, Continue(c)
        PROVE  WriterHoldsAdapter'
    <3>1. \/ StartBridge(c) \/ \E field \in Fields : WriteField(c, field)
          \/ BridgeAnswers(c) \/ BridgeFails(c)
          \/ \E local : local.op # "writing" /\ Goto(c, local) /\ UNCHANGED adapter
      BY <2>7
      DEF Continue, CompareCard, MarkVerified, AdoptImsi, AdoptInfo, AddChecked,
          ReadDraft, Commit, Refused, Free
    <3> QED BY <3>1, <2>1, <2>4, <2>5, <2>6
  <2>8. ASSUME NEW c \in Callers, Arrive(c)
        PROVE  WriterHoldsAdapter'
    <3>1. \E local : local.op # "writing" /\ Goto(c, local) /\ UNCHANGED adapter
      BY <2>8 DEF Arrive, ReadProfile, ReadCardToAdopt, ReadSummary, CheckNewCard
    <3> QED BY <3>1, <2>1
  <2> QED
    BY <2>2, <2>3, <2>7, <2>8
    DEF SystemNext, systemVars, InsertCard, RemoveCard, VaultRequest
<1>3. WriterHoldsAdapter => OneWriter
  BY DEF WriterHoldsAdapter, OneWriter
<1> QED BY <1>1, <1>2, <1>3, SystemTypeCorrect, PTL DEF SystemSpec

-----------------------------------------------------------------------------
(* Single requests                                                         *)

(* With requests that do not overlap, what a request read still fits when  *)
(* it goes on: the profile it compares, the files it adopts, the draft it  *)
(* writes; and what is no longer to be written is on the card.             *)
RequestFits(r) ==
  /\ r.op = "compare" =>
       r.id \in DOMAIN profiles /\ r.iccid = profiles[r.id].record.iccid
  /\ r.op = "mark" =>
       r.id \in DOMAIN profiles /\ profiles[r.id].record.iccid \in seen
  /\ r.op = "adopt" => r.iccid \in seen /\ r.files = cards[r.iccid]
  /\ r.op = "add" => r.record.iccid \in seen
  /\ r.op = "summary" => r.id \in DOMAIN drafts /\ r.changed = drafts[r.id].changed
  /\ r.op \in {"queued", "writing", "commit"} =>
       /\ r.id \in DOMAIN drafts /\ r.record = drafts[r.id].record
       /\ r.todo \subseteq drafts[r.id].changed
       /\ \A f \in drafts[r.id].changed \ r.todo :
            cards[r.record.iccid][f] = r.record[f]
  /\ r.op \in {"writing", "commit"} => r.record.iccid \in seen
  /\ r.op = "commit" => r.todo = {}

RequestsFit ==
  /\ inserted # NoCard => inserted \in seen
  /\ \A c \in Callers : RequestFits(request[c])

(* A request that ends leaves nothing to fit.                              *)
LEMMA EndOfRequest ==
  ASSUME NEW caller, Callers = {caller}, SystemTypeOK, RequestsFit,
         NEW c \in Callers, Goto(c, Free), UNCHANGED cardVars
  PROVE  RequestsFit'
<1>1. \A d \in Callers : request'[d] = Free
  BY DEF SystemTypeOK, Goto
<1> QED BY <1>1 DEF RequestsFit, RequestFits, Free, cardVars

(* One that goes on with fitting values, in the same vault and with the    *)
(* same cards, fits.                                                       *)
LEMMA RequestGoesOn ==
  ASSUME NEW caller, Callers = {caller}, SystemTypeOK, RequestsFit,
         NEW c \in Callers, NEW local, Goto(c, local), RequestFits(local),
         UNCHANGED <<profiles, drafts, cardVars>>
  PROVE  RequestsFit'
<1>1. \A d \in Callers : request'[d] = local
  BY DEF SystemTypeOK, Goto
<1>2. RequestFits(local)'
  BY DEF RequestFits, cardVars
<1> HIDE DEF RequestFits
<1> QED BY <1>1, <1>2 DEF RequestsFit, cardVars

(* What a request holds at the point it reaches fits.                      *)
LEMMA NextFit ==
  ASSUME NEW caller, Callers = {caller}, SystemTypeOK, NoOrphanRows,
         IccidsAreCurrent, RequestsFit, [SystemNext]_systemVars
  PROVE  RequestsFit'
<1>a. /\ request \in [Callers -> Requests]
      /\ inserted \in Iccids \cup {NoCard} /\ seen \subseteq Iccids
      /\ cards \in [Iccids -> CardFiles]
      /\ \A c \in Callers : RequestFits(request[c])
  BY DEF SystemTypeOK, RequestsFit
<1>b. inserted \in Iccids => inserted \in seen
  BY NoCardAssumption DEF RequestsFit
<1>1. ASSUME NEW iccid \in Iccids, InsertCard(iccid)
      PROVE  RequestsFit'
  <2>1. ASSUME NEW c \in Callers PROVE RequestFits(request[c])'
    BY <1>1, <1>a DEF InsertCard, vars, RequestFits
  <2> QED BY <1>1, <2>1 DEF InsertCard, RequestsFit
<1>2. CASE RemoveCard
  <2>1. ASSUME NEW c \in Callers PROVE RequestFits(request[c])'
    BY <1>2, <1>a DEF RemoveCard, vars, RequestFits
  <2> QED BY <1>2, <2>1 DEF RemoveCard, RequestsFit
<1>3. ASSUME \A c \in Callers : request'[c] = Free, UNCHANGED cardVars
      PROVE  RequestsFit'
  BY <1>3 DEF RequestsFit, RequestFits, Free, cardVars
<1>4. CASE SystemRestart
  BY <1>3, <1>4 DEF SystemRestart
<1>5. ASSUME NEW c \in Callers, VaultRequest(c)
      PROVE  RequestsFit'
  BY <1>3, <1>5 DEF VaultRequest
<1>6. ASSUME NEW c \in Callers, NEW id \in ProfileIds, ReadProfile(c, id)
      PROVE  RequestsFit'
  <2>1. PICK iccid : /\ id \in DOMAIN profiles /\ iccid = profiles[id].record.iccid
                     /\ Goto(c, [op |-> "compare", id |-> id, iccid |-> iccid])
    BY <1>6 DEF ReadProfile, IccidsAreCurrent, NoOrphanRows
  <2>2. RequestFits([op |-> "compare", id |-> id, iccid |-> iccid])
    BY <2>1 DEF RequestFits
  <2> QED BY <1>6, <2>1, <2>2, RequestGoesOn DEF ReadProfile, vars
<1>7. ASSUME NEW c \in Callers, CompareCard(c)
      PROVE  RequestsFit'
  <2> DEFINE id == request[c].id
  <2>1. /\ id \in DOMAIN profiles
        /\ request[c].iccid = profiles[id].record.iccid
        /\ inserted = request[c].iccid
    BY <1>7, <1>a DEF CompareCard, CardIn, RequestFits
  <2>2. inserted \in seen
    BY <1>7, <1>a, <1>b, <2>1 DEF CompareCard, SystemTypeOK, TypeOK, IsTable, ProfileRow, Record
  <2>3. Goto(c, [op |-> "mark", id |-> id])
    BY <1>7 DEF CompareCard
  <2> HIDE DEF id
  <2>4. RequestFits([op |-> "mark", id |-> id])
    BY <2>1, <2>2 DEF RequestFits
  <2> QED BY <1>7, <2>3, <2>4, RequestGoesOn DEF CompareCard, vars
<1>8. ASSUME NEW c \in Callers, NEW id \in ProfileIds, NEW field \in {"imsi", "info"},
             ReadCardToAdopt(c, id, field)
      PROVE  RequestsFit'
  <2> DEFINE local == [op |-> "adopt", id |-> id, iccid |-> inserted,
                       files |-> cards[inserted], field |-> field]
  <2>1. inserted \in seen
    BY <1>8, <1>a, <1>b DEF ReadCardToAdopt
  <2>2. RequestFits(local)
    BY <2>1 DEF RequestFits
  <2>3. Goto(c, local)
    BY <1>8 DEF ReadCardToAdopt
  <2> HIDE DEF local
  <2> QED BY <1>8, <2>2, <2>3, RequestGoesOn DEF ReadCardToAdopt, vars
<1>9. ASSUME NEW c \in Callers, NEW record \in Record, CheckNewCard(c, record)
      PROVE  RequestsFit'
  <2>1. record.iccid \in seen
    BY <1>9, <1>b DEF CheckNewCard, CardIn, Record
  <2>2. RequestFits([op |-> "add", record |-> record])
    BY <2>1 DEF RequestFits
  <2> QED BY <1>9, <2>2, RequestGoesOn DEF CheckNewCard, vars
<1>10. ASSUME NEW c \in Callers, NEW id \in ProfileIds, ReadSummary(c, id)
       PROVE  RequestsFit'
  <2> DEFINE local == [op |-> "summary", id |-> id, base |-> drafts[id].base,
                       changed |-> drafts[id].changed]
  <2>1. RequestFits(local)
    BY <1>10 DEF ReadSummary, RequestFits
  <2>2. Goto(c, local)
    BY <1>10 DEF ReadSummary
  <2> HIDE DEF local
  <2> QED BY <1>10, <2>1, <2>2, RequestGoesOn DEF ReadSummary, vars
<1>11. ASSUME NEW c \in Callers, ReadDraft(c)
       PROVE  RequestsFit'
  <2> DEFINE r == request[c]
             local == [op |-> "queued", id |-> r.id, base |-> r.base,
                       record |-> drafts[r.id].record, todo |-> r.changed]
  <2>1. r.id \in DOMAIN drafts /\ r.changed = drafts[r.id].changed
    BY <1>11, <1>a DEF ReadDraft, RequestFits
  <2>2. Goto(c, local)
    BY <1>11 DEF ReadDraft, FieldsToWrite
  <2> HIDE DEF r
  <2>3. RequestFits(local)
    BY <2>1 DEF RequestFits
  <2> HIDE DEF local
  <2> QED BY <1>11, <2>2, <2>3, RequestGoesOn DEF ReadDraft, vars
<1>12. ASSUME NEW c \in Callers, request[c].op \in {"queued", "writing"},
              NEW op \in {"writing", "commit"},
              Goto(c, [request[c] EXCEPT !.op = op]),
              request[c].record.iccid \in seen,
              op = "commit" => request[c].todo = {},
              UNCHANGED <<profiles, drafts, cardVars>>
       PROVE  RequestsFit'
  <2> DEFINE r == request[c]
             local == [r EXCEPT !.op = op]
  <2>1. r \in [op : {"queued", "writing", "commit"}, id : ProfileIds,
               base : Revisions, record : Record, todo : SUBSET Fields]
    BY <1>12, <1>a, RequestCases
  <2>2. RequestFits(r) /\ r.op \in {"queued", "writing"} /\ r.record.iccid \in seen
        /\ (op = "commit" => r.todo = {})
    BY <1>12, <1>a
  <2> HIDE DEF r
  <2>3. /\ local.op = op /\ local.id = r.id /\ local.record = r.record
        /\ local.todo = r.todo
    BY <2>1
  <2>4. Goto(c, local)
    BY <1>12 DEF r
  <2> HIDE DEF local
  <2>5. RequestFits(local)
    BY <2>2, <2>3 DEF RequestFits
  <2> QED BY <1>12, <2>4, <2>5, RequestGoesOn
<1>13. ASSUME NEW c \in Callers, StartBridge(c)
       PROVE  RequestsFit'
  <2>1. request[c].record.iccid \in Iccids
    BY <1>13, <1>a, RequestCases DEF StartBridge, Record
  <2>2. request[c].record.iccid \in seen
    BY <1>13, <1>b, <2>1 DEF StartBridge, CardIn
  <2> QED BY <1>12, <1>13, <2>2 DEF StartBridge, vars
<1>14. ASSUME NEW c \in Callers, BridgeAnswers(c)
       PROVE  RequestsFit'
  <2>1. request[c].record.iccid \in seen
    BY <1>14, <1>a DEF BridgeAnswers, RequestFits
  <2> QED BY <1>12, <1>14, <2>1 DEF BridgeAnswers, vars
<1>15. ASSUME NEW c \in Callers, NEW field \in Fields, WriteField(c, field)
       PROVE  RequestsFit'
  <2> DEFINE r == request[c]
             local == [r EXCEPT !.todo = @ \ {field}]
             iccid == r.record.iccid
             files == [cards[inserted] EXCEPT ![field] = r.record[field]]
  <2>1. r \in [op : {"queued", "writing", "commit"}, id : ProfileIds,
               base : Revisions, record : Record, todo : SUBSET Fields]
    BY <1>15, <1>a, RequestCases DEF WriteField
  <2>2. RequestFits(r) /\ r.op = "writing" /\ inserted = iccid /\ field \in r.todo
    BY <1>15, <1>a DEF WriteField, CardIn
  <2>3. /\ Goto(c, local) /\ cards' = [cards EXCEPT ![inserted] = files]
        /\ UNCHANGED <<profiles, drafts, inserted, seen>>
    BY <1>15 DEF WriteField, vars
  <2> HIDE DEF r
  <2>4. iccid \in Iccids /\ cards[iccid] \in CardFiles
    BY <1>a, <2>1 DEF Record
  <2>5. cards'[iccid] = files
    BY <1>a, <2>2, <2>3, <2>4
  <2>6. /\ files[field] = r.record[field]
        /\ \A f \in Fields \ {field} : files[f] = cards[iccid][f]
    BY <2>2, <2>4 DEF CardFiles, Fields
  <2>7. /\ local.op = "writing" /\ local.id = r.id /\ local.record = r.record
        /\ local.todo = r.todo \ {field}
    BY <2>1, <2>2
  <2>8. \A d \in Callers : request'[d] = local
    BY <1>a, <2>3 DEF Goto
  <2> HIDE DEF local, files
  <2>9. drafts[r.id].changed \subseteq Fields
    BY <2>2 DEF RequestFits, SystemTypeOK, TypeOK, IsTable, DraftRow
  <2>10. \A f \in drafts[r.id].changed \ local.todo : cards'[iccid][f] = r.record[f]
    BY <2>2, <2>5, <2>6, <2>7, <2>9 DEF RequestFits
  <2>11. /\ r.id \in DOMAIN drafts /\ r.record = drafts[r.id].record
         /\ local.todo \subseteq drafts[r.id].changed /\ iccid \in seen
    BY <2>2, <2>7 DEF RequestFits
  <2>12. ASSUME NEW d \in Callers PROVE RequestFits(request[d])'
    BY <2>3, <2>7, <2>8, <2>10, <2>11 DEF RequestFits
  <2>13. inserted' # NoCard => inserted' \in seen'
    BY <2>3 DEF RequestsFit
  <2> QED BY <2>12, <2>13 DEF RequestsFit
<1>16. CASE UNCHANGED systemVars
  <2>1. ASSUME NEW c \in Callers PROVE RequestFits(request[c])'
    BY <1>16, <1>a DEF systemVars, vars, cardVars, RequestFits
  <2> QED BY <1>16, <2>1 DEF systemVars, cardVars, RequestsFit
<1>17. ASSUME NEW c \in Callers, Goto(c, Free), UNCHANGED cardVars
       PROVE  RequestsFit'
  BY <1>17, EndOfRequest
<1>18. ASSUME NEW c \in Callers, Continue(c)
       PROVE  RequestsFit'
  BY <1>7, <1>11, <1>13, <1>14, <1>15, <1>17, <1>18
  DEF Continue, MarkVerified, AdoptImsi, AdoptInfo, AddChecked, BridgeFails, Commit, Refused
<1>19. ASSUME NEW c \in Callers, Arrive(c)
       PROVE  RequestsFit'
  BY <1>6, <1>8, <1>9, <1>10, <1>19 DEF Arrive
<1> QED
  BY <1>1, <1>2, <1>4, <1>5, <1>16, <1>18, <1>19 DEF SystemNext

(* While requests do not overlap, what a request holds fits at each point. *)
LEMMA RequestsAlwaysFit ==
  ASSUME NEW caller, Callers = {caller}
  PROVE  SystemSpec => [](SystemTypeOK /\ IInv /\ IccidsAreCurrent /\ RequestsFit)
<1>1. SystemInit => RequestsFit
  BY DEF SystemInit, RequestsFit, RequestFits, Free
<1>2. IInv => NoOrphanRows
  BY DEF IInv
<1>3. /\ SystemTypeOK /\ NoOrphanRows /\ IccidsAreCurrent /\ RequestsFit
      /\ [SystemNext]_systemVars
      => RequestsFit'
  BY NextFit
<1>4. SystemSpec => []IInv
  BY VaultInSystem, InvariantHolds, PTL
<1>5. SystemSpec => []IccidsAreCurrent
  BY VaultInSystem, IccidsStayCurrent, PTL
<1> QED
  BY <1>1, <1>2, <1>3, <1>4, <1>5, SystemTypeCorrect, PTL DEF SystemSpec

(* A new active version of a profile leaves one new row behind.            *)
LEMMA ActivateRow ==
  ASSUME IInv, NEW id \in DOMAIN profiles, NEW record, NEW note,
         Activate(id, record, note)
  PROVE  \A k \in DOMAIN revisions' \ DOMAIN revisions :
           revisions'[k].record = record /\ revisions'[k].note = note
BY DEF Activate, WithRevision, Put, RevisionRow

(* Rows that are entered begin a history.                                  *)
LEMMA EnteredRow ==
  ASSUME NEW ids, Entered(ids)
  PROVE  \A k \in DOMAIN revisions' \ DOMAIN revisions : k[2] = 1
BY DEF Entered

(* Steps of the vault alone enter first versions only.                     *)
LEMMA VaultRequestRows ==
  ASSUME IInv, NEW c \in Callers, VaultRequest(c)
  PROVE  \A k \in DOMAIN revisions' \ DOMAIN revisions : k[2] = 1
<1> DEFINE Goal == \A k \in DOMAIN revisions' \ DOMAIN revisions : k[2] = 1
<1>1. ASSUME NEW n \in 1..MaxImport, NEW rows \in [1..n -> Record], ImportCsv(rows)
      PROVE  Goal
  BY <1>1, ImportEnters, EnteredRow
<1>2. ASSUME NEW record \in Record, AddProfile(record, FALSE)
      PROVE  Goal
  BY <1>2, AddEnters, EnteredRow
<1>3. ASSUME UNCHANGED revisions
      PROVE  Goal
  BY <1>3
<1>4. ASSUME FinishDelete(c)
      PROVE  Goal
  BY <1>4 DEF FinishDelete, RevisionsWithout, Restrict
<1>5. CASE TwoSectionCall(c)
  BY <1>3, <1>4, <1>5
  DEF TwoSectionCall, BeginPrepare, StoreDraft, BeginDelete, FailSecondSection
<1>6. CASE SuciKeyCall
  BY <1>3, <1>6 DEF SuciKeyCall, ImportSuciKey, SetSuciKeyActive, DeleteSuciKey
<1> QED BY <1>1, <1>2, <1>3, <1>5, <1>6 DEF VaultRequest, DiscardChange, SetInventory

(* While requests do not overlap, a version becomes active only when the   *)
(* card with its ICCID holds its new values, wherever writes are cut off   *)
(* and whichever cards are exchanged meanwhile.                            *)
THEOREM RevisionsAreOnCard ==
  ASSUME NEW caller, Callers = {caller}
  PROVE  SystemSpec => NewRevisionIsOnCard
<1> DEFINE Step ==
      \A k \in DOMAIN revisions' \ DOMAIN revisions :
        LET record == revisions'[k].record
        IN  k[2] > 1 => \A f \in revisions'[k].note :
                          cards[record.iccid][f] = record[f]
<1>1. ASSUME SystemTypeOK, IInv, IccidsAreCurrent, RequestsFit, [SystemNext]_systemVars
      PROVE  Step
  <2>a. /\ request \in [Callers -> Requests]
        /\ \A c \in Callers : RequestFits(request[c])
    BY <1>1 DEF SystemTypeOK, RequestsFit
  <2>1. ASSUME UNCHANGED revisions
        PROVE  Step
    BY <2>1
  <2>2. CASE SystemRestart
    BY <1>1, <2>1, <2>2, BackfilledNothing DEF SystemRestart, Restart
  <2>3. ASSUME \A k \in DOMAIN revisions' \ DOMAIN revisions : k[2] = 1
        PROVE  Step
    BY <2>3
  <2>4. ASSUME NEW c \in Callers, VaultRequest(c)
        PROVE  Step
    BY <1>1, <2>3, <2>4, VaultRequestRows
  <2>5. ASSUME NEW c \in Callers, AddChecked(c)
        PROVE  Step
    <3>1. request[c].record \in Record
      BY <2>5, <2>a, RequestCases DEF AddChecked
    <3> QED BY <1>1, <2>3, <2>5, <3>1, AddEnters, EnteredRow DEF AddChecked
  <2>6. ASSUME NEW id \in DOMAIN profiles, NEW record, NEW note,
               Activate(id, record, note),
               \A f \in note : cards[record.iccid][f] = record[f]
        PROVE  Step
    BY <1>1, <2>6, ActivateRow
  <2>7. ASSUME NEW c \in Callers, Commit(c)
        PROVE  Step
    <3> DEFINE r == request[c]
    <3>1. /\ r.id \in DOMAIN profiles
          /\ Activate(r.id, drafts[r.id].record, drafts[r.id].changed)
      BY <2>7 DEF Commit, CommitChange
    <3>2. RequestFits(r) /\ r.op = "commit"
      BY <2>7, <2>a DEF Commit
    <3>3. \A f \in drafts[r.id].changed :
            cards[drafts[r.id].record.iccid][f] = drafts[r.id].record[f]
      BY <3>2 DEF RequestFits
    <3> QED BY <2>6, <3>1, <3>3
  <2>8. ASSUME NEW c \in Callers, AdoptImsi(c)
        PROVE  Step
    <3> DEFINE r == request[c]
               record == [profiles[r.id].record EXCEPT !.imsi = r.files.imsi]
    <3>1. /\ r.id \in DOMAIN profiles /\ profiles[r.id].record.iccid = r.iccid
          /\ Activate(r.id, record, {"imsi"})
      BY <2>8 DEF AdoptImsi, AdoptCardImsi, IsIccidOf
    <3>2. r.files = cards[r.iccid]
      BY <2>8, <2>a DEF AdoptImsi, RequestFits
    <3>3. profiles[r.id].record \in Record
      BY <1>1, <3>1 DEF SystemTypeOK, TypeOK, IsTable, ProfileRow
    <3>4. record.iccid = r.iccid /\ record.imsi = r.files.imsi
      BY <3>1, <3>3 DEF Record
    <3>5. \A f \in {"imsi"} : cards[record.iccid][f] = record[f]
      BY <3>2, <3>4
    <3> HIDE DEF record
    <3> QED BY <2>6, <3>1, <3>5
  <2>9. ASSUME NEW c \in Callers, AdoptInfo(c)
        PROVE  Step
    <3> DEFINE r == request[c]
               record == [profiles[r.id].record EXCEPT !.info = r.files.info]
    <3>1. /\ r.id \in DOMAIN profiles /\ profiles[r.id].record.iccid = r.iccid
          /\ Activate(r.id, record, {"info"})
      BY <2>9 DEF AdoptInfo, AdoptReadableFields, IsIccidOf
    <3>2. r.files = cards[r.iccid]
      BY <2>9, <2>a DEF AdoptInfo, RequestFits
    <3>3. profiles[r.id].record \in Record
      BY <1>1, <3>1 DEF SystemTypeOK, TypeOK, IsTable, ProfileRow
    <3>4. record.iccid = r.iccid /\ record.info = r.files.info
      BY <3>1, <3>3 DEF Record
    <3>5. \A f \in {"info"} : cards[record.iccid][f] = record[f]
      BY <3>2, <3>4
    <3> HIDE DEF record
    <3> QED BY <2>6, <3>1, <3>5
  <2> HIDE DEF Step
  <2>10. ASSUME NEW c \in Callers, Continue(c)
         PROVE  Step
    BY <2>1, <2>5, <2>7, <2>8, <2>9, <2>10
    DEF Continue, CompareCard, MarkVerified, MarkCardVerified, ReadDraft, StartBridge,
        WriteField, BridgeAnswers, BridgeFails, Refused, vars
  <2>11. ASSUME NEW c \in Callers, Arrive(c)
         PROVE  Step
    BY <2>1, <2>11
    DEF Arrive, ReadProfile, ReadCardToAdopt, ReadSummary, CheckNewCard, vars
  <2>12. CASE UNCHANGED vars
    BY <2>1, <2>12 DEF vars
  <2> QED
    BY <1>1, <2>2, <2>4, <2>10, <2>11, <2>12
    DEF SystemNext, systemVars, InsertCard, RemoveCard
<1>2. SystemTypeOK /\ IInv /\ IccidsAreCurrent /\ RequestsFit /\ [SystemNext]_systemVars
        => [Step]_systemVars
  BY <1>1
<1> QED
  BY <1>2, RequestsAlwaysFit, PTL DEF SystemSpec, NewRevisionIsOnCard

(* While requests do not overlap, a file of a card changes only to what    *)
(* the pending draft of the profile with its ICCID asks for, although the  *)
(* card in the reader may change between any two files.                    *)
THEOREM CardsGetDraftValues ==
  ASSUME NEW caller, Callers = {caller}
  PROVE  SystemSpec => WritesComeFromDraft
<1> DEFINE Step ==
      \A iccid \in Iccids : \A f \in Fields :
        cards'[iccid][f] # cards[iccid][f] =>
          \E id \in DOMAIN drafts :
            /\ profiles[id].record.iccid = iccid
            /\ f \in drafts[id].changed
            /\ drafts[id].record[f] = cards'[iccid][f]
<1>1. ASSUME SystemTypeOK, IInv, IccidsAreCurrent, RequestsFit, [SystemNext]_systemVars
      PROVE  Step
  <2>1. CASE UNCHANGED cards
    BY <2>1
  <2>2. ASSUME NEW c \in Callers, NEW field \in Fields, WriteField(c, field)
        PROVE  Step
    <3> DEFINE r == request[c]
    <3>1. /\ RequestFits(r) /\ r.op = "writing" /\ inserted = r.record.iccid
          /\ field \in r.todo
          /\ cards' = [cards EXCEPT ![inserted] = [@ EXCEPT ![field] = r.record[field]]]
      BY <1>1, <2>2 DEF WriteField, CardIn, RequestsFit
    <3>2. r.record \in Record
      BY <1>1, <2>2, RequestCases DEF WriteField, SystemTypeOK
    <3> HIDE DEF r
    <3>3. /\ cards \in [Iccids -> CardFiles] /\ inserted \in Iccids
      BY <1>1, <3>1, <3>2 DEF SystemTypeOK, Record
    <3>4. ASSUME NEW iccid \in Iccids, NEW f \in Fields,
                 cards'[iccid][f] # cards[iccid][f]
          PROVE  iccid = inserted /\ f = field /\ cards'[iccid][f] = r.record[field]
      BY <3>1, <3>3, <3>4 DEF CardFiles, Fields
    <3>5. /\ r.id \in DOMAIN drafts /\ field \in drafts[r.id].changed
          /\ drafts[r.id].record = r.record
          /\ profiles[r.id].record.iccid = inserted
      BY <1>1, <3>1 DEF RequestFits, IccidsAreCurrent
    <3> QED BY <3>4, <3>5
  <2> HIDE DEF Step
  <2>3. ASSUME NEW c \in Callers, Continue(c)
        PROVE  Step
    BY <2>1, <2>2, <2>3
    DEF Continue, CompareCard, MarkVerified, AdoptImsi, AdoptInfo, AddChecked, ReadDraft,
        StartBridge, BridgeAnswers, BridgeFails, Commit, Refused, cardVars
  <2>4. ASSUME NEW c \in Callers, Arrive(c)
        PROVE  Step
    BY <2>1, <2>4
    DEF Arrive, ReadProfile, ReadCardToAdopt, ReadSummary, CheckNewCard, cardVars
  <2> QED
    BY <1>1, <2>1, <2>3, <2>4
    DEF SystemNext, systemVars, cardVars, InsertCard, RemoveCard, SystemRestart,
        VaultRequest
<1>2. SystemTypeOK /\ IInv /\ IccidsAreCurrent /\ RequestsFit /\ [SystemNext]_systemVars
        => [Step]_systemVars
  BY <1>1
<1> QED
  BY <1>2, RequestsAlwaysFit, PTL DEF SystemSpec, WritesComeFromDraft

(* Steps of the vault alone verify no profile.                             *)
LEMMA VaultRequestVerifiesNone ==
  ASSUME NEW c \in Callers, VaultRequest(c)
  PROVE  \A i \in DOMAIN profiles' :
           \/ i \in DOMAIN profiles /\ profiles'[i] = profiles[i]
           \/ ~profiles'[i].verified
<1> DEFINE Goal ==
      \A i \in DOMAIN profiles' :
        \/ i \in DOMAIN profiles /\ profiles'[i] = profiles[i]
        \/ ~profiles'[i].verified
<1>1. ASSUME NEW n \in 1..MaxImport, NEW rows \in [1..n -> Record], ImportCsv(rows)
      PROVE  Goal
  <2>1. PICK first, last :
          profiles' = PutAll(profiles,
            [i \in first..last |-> NewProfile(rows[i - first + 1], FALSE)])
    BY <1>1 DEF ImportCsv
  <2> QED BY <2>1 DEF PutAll, NewProfile
<1>2. ASSUME NEW record \in Record, AddProfile(record, FALSE)
      PROVE  Goal
  <2>1. PICK n : profiles' = Put(profiles, n, NewProfile(record, FALSE))
    BY <1>2 DEF AddProfile
  <2> QED BY <2>1 DEF Put, NewProfile
<1>3. ASSUME UNCHANGED profiles
      PROVE  Goal
  BY <1>3
<1>4. ASSUME FinishDelete(c)
      PROVE  Goal
  BY <1>4 DEF FinishDelete, Drop, Restrict
<1>5. CASE TwoSectionCall(c)
  BY <1>3, <1>4, <1>5
  DEF TwoSectionCall, BeginPrepare, StoreDraft, BeginDelete, FailSecondSection
<1>6. CASE SuciKeyCall
  BY <1>3, <1>6 DEF SuciKeyCall, ImportSuciKey, SetSuciKeyActive, DeleteSuciKey
<1> QED BY <1>1, <1>2, <1>3, <1>5, <1>6 DEF VaultRequest, DiscardChange, SetInventory

(* In a vault without rows of an older release, and while requests do not  *)
(* overlap, each profile that is marked verified, by a comparison, a       *)
(* checked entry, an adoption or a write, had its card in the reader.      *)
THEOREM VerifiedCardsWereSeen ==
  ASSUME NEW caller, Callers = {caller}, LegacyIds = {}
  PROVE  SystemSpec => []VerifiedWasInReader
<1>1. SystemInit => VerifiedWasInReader
  <2> SUFFICES ASSUME SystemInit PROVE DOMAIN profiles = {}
    BY DEF VerifiedWasInReader
  <2> QED BY DEF SystemInit, Init
<1>2. ASSUME SystemTypeOK, IccidsAreCurrent, RequestsFit, VerifiedWasInReader,
             [SystemNext]_systemVars
      PROVE  VerifiedWasInReader'
  <2>a. /\ request \in [Callers -> Requests]
        /\ \A c \in Callers : RequestFits(request[c])
        /\ \A i \in DOMAIN profiles : profiles[i] \in ProfileRow
    BY <1>2 DEF SystemTypeOK, TypeOK, IsTable, RequestsFit
  <2>1. ASSUME seen \subseteq seen',
               \A i \in DOMAIN profiles' :
                 \/ i \in DOMAIN profiles /\ profiles'[i] = profiles[i]
                 \/ ~profiles'[i].verified
                 \/ profiles'[i].record.iccid \in seen'
        PROVE  VerifiedWasInReader'
    BY <1>2, <2>1 DEF VerifiedWasInReader
  <2>2. CASE UNCHANGED profiles /\ seen \subseteq seen'
    BY <2>1, <2>2
  <2>3. ASSUME NEW c \in Callers, VaultRequest(c)
        PROVE  VerifiedWasInReader'
    BY <2>1, <2>3, VaultRequestVerifiesNone DEF VaultRequest, cardVars
  <2>4. ASSUME NEW id \in DOMAIN profiles, NEW record, NEW note,
               Activate(id, record, note), record.iccid \in seen, UNCHANGED seen
        PROVE  VerifiedWasInReader'
    <3>1. /\ DOMAIN profiles' = DOMAIN profiles
          /\ profiles'[id].record = record
          /\ \A i \in DOMAIN profiles \ {id} : profiles'[i] = profiles[i]
      BY <2>4 DEF Activate, Put
    <3> QED BY <2>1, <2>4, <3>1
  <2>5. ASSUME NEW c \in Callers, MarkVerified(c)
        PROVE  VerifiedWasInReader'
    <3> DEFINE id == request[c].id
    <3>1. /\ id \in DOMAIN profiles /\ profiles[id].record.iccid \in seen
          /\ profiles' = [profiles EXCEPT ![id].verified = TRUE] /\ UNCHANGED seen
      BY <2>5, <2>a DEF MarkVerified, MarkCardVerified, RequestFits, cardVars
    <3> HIDE DEF id
    <3>2. /\ DOMAIN profiles' = DOMAIN profiles
          /\ \A i \in DOMAIN profiles \ {id} : profiles'[i] = profiles[i]
          /\ profiles'[id].record = profiles[id].record
      BY <3>1, <2>a DEF ProfileRow
    <3> QED BY <2>1, <3>1, <3>2
  <2>6. ASSUME NEW c \in Callers, AddChecked(c)
        PROVE  VerifiedWasInReader'
    <3> DEFINE record == request[c].record
    <3>1. record \in Record /\ record.iccid \in seen /\ UNCHANGED seen
      BY <2>6, <2>a, RequestCases DEF AddChecked, RequestFits, cardVars
    <3>2. PICK n : profiles' = Put(profiles, n, NewProfile(record, TRUE))
      BY <2>6 DEF AddChecked, AddProfile
    <3>3. NewProfile(record, TRUE).record = record
      BY DEF NewProfile
    <3> HIDE DEF record
    <3>4. /\ DOMAIN profiles' = DOMAIN profiles \cup {n}
          /\ profiles'[n].record = record
          /\ \A i \in DOMAIN profiles \ {n} : profiles'[i] = profiles[i]
      BY <3>2, <3>3 DEF Put
    <3> QED BY <2>1, <3>1, <3>4
  <2>7. ASSUME NEW c \in Callers, Commit(c)
        PROVE  VerifiedWasInReader'
    <3> DEFINE r == request[c]
    <3>1. /\ r.id \in DOMAIN profiles /\ UNCHANGED seen
          /\ Activate(r.id, drafts[r.id].record, drafts[r.id].changed)
      BY <2>7 DEF Commit, CommitChange, cardVars
    <3>2. drafts[r.id].record.iccid \in seen
      BY <2>7, <2>a DEF Commit, RequestFits
    <3> QED BY <2>4, <3>1, <3>2
  <2>8. ASSUME NEW c \in Callers, AdoptImsi(c)
        PROVE  VerifiedWasInReader'
    <3> DEFINE r == request[c]
               record == [profiles[r.id].record EXCEPT !.imsi = r.files.imsi]
    <3>1. /\ r.id \in DOMAIN profiles /\ profiles[r.id].record.iccid = r.iccid
          /\ Activate(r.id, record, {"imsi"}) /\ UNCHANGED seen
      BY <2>8 DEF AdoptImsi, AdoptCardImsi, IsIccidOf, cardVars
    <3>2. r.iccid \in seen
      BY <2>8, <2>a DEF AdoptImsi, RequestFits
    <3>3. record.iccid = r.iccid
      BY <2>a, <3>1 DEF ProfileRow, Record
    <3> HIDE DEF record
    <3> QED BY <2>4, <3>1, <3>2, <3>3
  <2>9. ASSUME NEW c \in Callers, AdoptInfo(c)
        PROVE  VerifiedWasInReader'
    <3> DEFINE r == request[c]
               record == [profiles[r.id].record EXCEPT !.info = r.files.info]
    <3>1. /\ r.id \in DOMAIN profiles /\ profiles[r.id].record.iccid = r.iccid
          /\ Activate(r.id, record, {"info"}) /\ UNCHANGED seen
      BY <2>9 DEF AdoptInfo, AdoptReadableFields, IsIccidOf, cardVars
    <3>2. r.iccid \in seen
      BY <2>9, <2>a DEF AdoptInfo, RequestFits
    <3>3. record.iccid = r.iccid
      BY <2>a, <3>1 DEF ProfileRow, Record
    <3> HIDE DEF record
    <3> QED BY <2>4, <3>1, <3>2, <3>3
  <2>10. ASSUME NEW c \in Callers, Continue(c)
         PROVE  VerifiedWasInReader'
    BY <2>2, <2>5, <2>6, <2>7, <2>8, <2>9, <2>10
    DEF Continue, CompareCard, ReadDraft, StartBridge, WriteField, BridgeAnswers,
        BridgeFails, Refused, vars, cardVars
  <2>11. ASSUME NEW c \in Callers, Arrive(c)
         PROVE  VerifiedWasInReader'
    BY <2>2, <2>11
    DEF Arrive, ReadProfile, ReadCardToAdopt, ReadSummary, CheckNewCard, vars, cardVars
  <2> QED
    BY <1>2, <2>2, <2>3, <2>10, <2>11
    DEF SystemNext, systemVars, vars, cardVars, InsertCard, RemoveCard, SystemRestart,
        Restart
<1>3. SystemTypeOK /\ IccidsAreCurrent /\ RequestsFit /\ VerifiedWasInReader
        /\ [SystemNext]_systemVars => VerifiedWasInReader'
  BY <1>2
<1> QED BY <1>1, <1>3, RequestsAlwaysFit, PTL DEF SystemSpec

(* What the vault keeps for requests that do not overlap, it keeps in the  *)
(* whole program: complete notes, unchangeable ICCIDs and confirmed        *)
(* deletions.                                                              *)
THEOREM SerialVaultSafeInSystem ==
  ASSUME NEW caller, Callers = {caller}
  PROVE  SystemSpec => /\ []NotesNameEveryChange
                       /\ IccidImmutable
                       /\ DeletionConfirmed
<1>1. Spec => /\ []NotesNameEveryChange
              /\ IccidImmutable
              /\ DeletionConfirmed
  BY NotesComplete, IccidsNeverChange, DeletionsConfirmed
<1> QED BY <1>1, VaultInSystem

-----------------------------------------------------------------------------
(* Profiles, drafts and cards keep the promise of prepared changes         *)

(* The invariants of the vault for requests that do not overlap            *)
SerialInv == SystemTypeOK /\ NoOrphanRows /\ IccidsAreCurrent /\ ListsAreCurrent

LEMMA SameStored ==
  ASSUME DOMAIN profiles' = DOMAIN profiles,
         \A i \in DOMAIN profiles : profiles'[i].record = profiles[i].record
  PROVE  Stored' = Stored
BY DEF Stored

LEMMA SameWanted ==
  ASSUME UNCHANGED drafts
  PROVE  Wanted' = Wanted
BY DEF Wanted

(* Without its draft a profile has no prepared change.                     *)
LEMMA WantedWithout ==
  ASSUME NEW id, drafts' = DraftsWithout(id)
  PROVE  Wanted' = Changes!Drop(Wanted, id)
<1>1. /\ DOMAIN drafts' = DOMAIN drafts \ {id}
      /\ \A i \in DOMAIN drafts' : drafts'[i] = drafts[i]
  BY DEF DraftsWithout, Drop, Restrict
<1> QED BY <1>1 DEF Wanted, Changes!Drop, Changes!Restrict

LEMMA EntryIsEnter ==
  ASSUME NEW ids, Entered(ids), UNCHANGED <<drafts, cards>>
  PROVE  Changes!Enter
BY SameWanted DEF Entered, Stored, Changes!Enter

(* A version that differs from the active one in a field of the card       *)
LEMMA AdoptionIsLearn ==
  ASSUME SystemTypeOK, NEW id \in DOMAIN profiles \ DOMAIN drafts,
         NEW field \in Fields, NEW record, NEW note, Activate(id, record, note),
         record.iccid = profiles[id].record.iccid,
         record[field] = cards[record.iccid][field],
         \A f \in Fields \ {field} : record[f] = profiles[id].record[f],
         UNCHANGED <<drafts, cards>>
  PROVE  Changes!Learn(id)
<1>1. /\ DOMAIN profiles' = DOMAIN profiles
      /\ profiles'[id].record = record
      /\ \A i \in DOMAIN profiles \ {id} : profiles'[i] = profiles[i]
  BY DEF Activate, Put
<1> DEFINE old == Stored[id]
           read == Changes!Restrict(cards[old.card], {field})
<1>2. /\ id \in DOMAIN Stored \ DOMAIN Wanted
      /\ old = [card |-> record.iccid, parts |-> [f \in Fields |-> profiles[id].record[f]]]
  BY DEF Stored, Wanted
<1>3. DOMAIN old.parts = Fields
  BY <1>2
<1>4. Changes!Overlaid(old.parts, read) = [f \in Fields |-> record[f]]
  BY <1>2 DEF Changes!Overlaid, Changes!Restrict
<1>5. Stored'[id] = [card |-> record.iccid, parts |-> [f \in Fields |-> record[f]]]
  BY <1>1 DEF Stored
<1>6. Stored' = [Stored EXCEPT ![id].parts = Changes!Overlaid(@, read)]
  <2>1. DOMAIN Stored' = DOMAIN Stored /\ \A i \in DOMAIN Stored \ {id} : Stored'[i] = Stored[i]
    BY <1>1 DEF Stored
  <2>2. Stored' = [i \in DOMAIN Stored |-> Stored'[i]] /\ Stored = [i \in DOMAIN Stored |-> Stored[i]]
    BY <1>1 DEF Stored
  <2>3. Stored'[id] = [old EXCEPT !.parts = Changes!Overlaid(@, read)]
    BY <1>2, <1>4, <1>5
  <2> HIDE DEF read, Stored
  <2> QED BY <1>2, <2>1, <2>2, <2>3
<1>7. {field} \in SUBSET DOMAIN old.parts
  BY <1>3
<1> QED BY <1>2, <1>6, <1>7, SameWanted DEF Changes!Learn

(* A commit after a complete write                                         *)
LEMMA CommitIsAccept ==
  ASSUME SerialInv, NEW id \in DOMAIN profiles \cap DOMAIN drafts,
         Activate(id, drafts[id].record, drafts[id].changed), drafts' = DraftsWithout(id),
         \A f \in drafts[id].changed :
           cards[drafts[id].record.iccid][f] = drafts[id].record[f],
         UNCHANGED cards
  PROVE  Changes!Accept(id)
<1> DEFINE record == drafts[id].record
           changed == drafts[id].changed
           old == Stored[id]
<1>1. /\ DOMAIN profiles' = DOMAIN profiles
      /\ profiles'[id].record = record
      /\ \A i \in DOMAIN profiles \ {id} : profiles'[i] = profiles[i]
  BY DEF Activate, Put
<1>2. /\ record.iccid = profiles[id].record.iccid
      /\ ChangedFields(profiles[id].record, record) \subseteq changed
  BY DEF SerialInv, IccidsAreCurrent, ListsAreCurrent
<1>3. /\ id \in DOMAIN Wanted /\ id \in DOMAIN Stored
      /\ Wanted[id] = [f \in changed |-> record[f]]
      /\ old = [card |-> record.iccid, parts |-> [f \in Fields |-> profiles[id].record[f]]]
  BY <1>2 DEF Stored, Wanted
<1>4. \A f \in DOMAIN Wanted[id] : cards[old.card][f] = Wanted[id][f]
  BY <1>3
<1>5. Changes!Overlaid(old.parts, Wanted[id]) = [f \in Fields |-> record[f]]
  BY <1>2, <1>3 DEF Changes!Overlaid, ChangedFields
<1>6. Stored'[id] = [card |-> record.iccid, parts |-> [f \in Fields |-> record[f]]]
  BY <1>1 DEF Stored
<1>7. Stored' = [Stored EXCEPT ![id].parts = Changes!Overlaid(@, Wanted[id])]
  <2>1. DOMAIN Stored' = DOMAIN Stored /\ \A i \in DOMAIN Stored \ {id} : Stored'[i] = Stored[i]
    BY <1>1 DEF Stored
  <2>2. Stored' = [i \in DOMAIN Stored |-> Stored'[i]] /\ Stored = [i \in DOMAIN Stored |-> Stored[i]]
    BY <1>1 DEF Stored
  <2>3. Stored'[id] = [old EXCEPT !.parts = Changes!Overlaid(@, Wanted[id])]
    BY <1>3, <1>5, <1>6
  <2> HIDE DEF Stored
  <2> QED BY <1>3, <2>1, <2>2, <2>3
<1> QED BY <1>3, <1>4, <1>7, WantedWithout DEF Changes!Accept

(* A file that is written is one the draft of this card names.             *)
LEMMA FieldIsWrite ==
  ASSUME SerialInv, RequestsFit, NEW c \in Callers, NEW field \in Fields, WriteField(c, field)
  PROVE  \E id \in DOMAIN profiles : Changes!Write(id)
<1> DEFINE r == request[c]
           id == r.id
<1>1. /\ RequestFits(r) /\ r.op = "writing" /\ inserted = r.record.iccid
      /\ field \in r.todo
      /\ cards' = [cards EXCEPT ![inserted] = [@ EXCEPT ![field] = r.record[field]]]
      /\ UNCHANGED <<profiles, drafts>>
  BY DEF WriteField, CardIn, RequestsFit, vars
<1>2. r.record \in Record
  BY RequestCases DEF WriteField, SerialInv, SystemTypeOK
<1>3. /\ id \in DOMAIN drafts /\ id \in DOMAIN profiles
      /\ field \in drafts[id].changed
      /\ drafts[id].record = r.record
      /\ profiles[id].record.iccid = inserted
  BY <1>1 DEF RequestFits, SerialInv, IccidsAreCurrent, NoOrphanRows
<1> HIDE DEF r, id
<1>4. /\ cards \in [Iccids -> CardFiles] /\ inserted \in Iccids
  BY <1>1, <1>2 DEF SerialInv, SystemTypeOK, Record
<1>5. /\ id \in DOMAIN Wanted /\ DOMAIN Wanted[id] = drafts[id].changed
      /\ Stored[id].card = inserted
  BY <1>3 DEF Wanted, Stored
<1> DEFINE touched == Changes!Restrict(cards'[inserted], DOMAIN Wanted[id])
<1>6. cards[inserted] \in CardFiles /\ cards'[inserted] = [cards[inserted] EXCEPT ![field] = r.record[field]]
  BY <1>1, <1>4
<1>7. DOMAIN touched = drafts[id].changed /\ \A f \in drafts[id].changed : touched[f] = cards'[inserted][f]
  BY <1>5 DEF Changes!Restrict
<1>8. Changes!Overlaid(cards[inserted], touched) = cards'[inserted]
  <2> HIDE DEF touched
  <2> QED BY <1>3, <1>6, <1>7 DEF Changes!Overlaid, CardFiles
<1>9. cards' = [cards EXCEPT ![inserted] = Changes!Overlaid(@, touched)]
  <2> HIDE DEF touched
  <2> QED BY <1>1, <1>4, <1>6, <1>8
<1>10. UNCHANGED <<Stored, Wanted>>
  BY <1>1, SameStored, SameWanted
<1> QED BY <1>3, <1>5, <1>9, <1>10 DEF Changes!Write

(* Requests that reach the vault only enter, draft and remove.             *)
LEMMA VaultRequestChanges ==
  ASSUME SerialInv, IInv, NEW c \in Callers, VaultRequest(c)
  PROVE  \/ Changes!Enter
         \/ \E id \in DOMAIN profiles :
              Changes!Prepare(id) \/ Changes!Withdraw(id) \/ Changes!Remove(id)
         \/ UNCHANGED <<Stored, Wanted, cards>>
<1>a. UNCHANGED cards /\ DOMAIN Stored = DOMAIN profiles /\ DOMAIN Wanted = DOMAIN drafts
  BY DEF VaultRequest, cardVars, Stored, Wanted
<1>1. ASSUME NEW n \in 1..MaxImport, NEW rows \in [1..n -> Record], ImportCsv(rows)
      PROVE  Changes!Enter
  BY <1>a, <1>1, ImportEnters, EntryIsEnter DEF ImportCsv
<1>2. ASSUME NEW record \in Record, AddProfile(record, FALSE)
      PROVE  Changes!Enter
  BY <1>a, <1>2, AddEnters, EntryIsEnter DEF AddProfile
<1>3. ASSUME NEW id \in ProfileIds, DiscardChange(id)
      PROVE  id \in DOMAIN profiles /\ Changes!Withdraw(id)
  BY <1>a, <1>3, SameStored, WantedWithout DEF DiscardChange, Changes!Withdraw
<1>4. ASSUME UNCHANGED <<profiles, drafts>>
      PROVE  UNCHANGED <<Stored, Wanted, cards>>
  BY <1>a, <1>4, SameStored, SameWanted
<1>5. ASSUME StoreDraft(c)
      PROVE  call[c].id \in DOMAIN profiles /\ Changes!Prepare(call[c].id)
  <2> DEFINE id == call[c].id
  <2>1. PICK row : id \in DOMAIN profiles /\ drafts' = Put(drafts, id, row) /\ UNCHANGED profiles
    BY <1>5 DEF StoreDraft
  <2> HIDE DEF id
  <2>2. /\ DOMAIN drafts' = DOMAIN drafts \cup {id}
        /\ \A i \in DOMAIN drafts \ {id} : drafts'[i] = drafts[i]
    BY <2>1 DEF Put
  <2>3. /\ DOMAIN Wanted' = DOMAIN Wanted \cup {id}
        /\ \A i \in DOMAIN Wanted \ {id} : Wanted'[i] = Wanted[i]
    BY <2>2 DEF Wanted
  <2> QED BY <1>a, <2>1, <2>3, SameStored DEF Changes!Prepare, id
<1>6. ASSUME FinishDelete(c)
      PROVE  call[c].id \in DOMAIN profiles /\ Changes!Remove(call[c].id)
  <2> DEFINE id == call[c].id
  <2>1. /\ id \in DOMAIN profiles /\ profiles' = Drop(profiles, id)
        /\ drafts' = DraftsWithout(id)
    BY <1>6 DEF FinishDelete
  <2> HIDE DEF id
  <2>2. /\ DOMAIN profiles' = DOMAIN profiles \ {id}
        /\ \A i \in DOMAIN profiles' : profiles'[i] = profiles[i]
    BY <2>1 DEF Drop, Restrict
  <2>3. Stored' = Changes!Drop(Stored, id)
    BY <2>2 DEF Stored, Changes!Drop, Changes!Restrict
  <2> QED BY <1>a, <2>1, <2>3, WantedWithout DEF Changes!Remove, id
<1>7. CASE TwoSectionCall(c)
  BY <1>4, <1>5, <1>6, <1>7 DEF TwoSectionCall, BeginPrepare, BeginDelete, FailSecondSection
<1>8. CASE SuciKeyCall
  BY <1>4, <1>8 DEF SuciKeyCall, ImportSuciKey, SetSuciKeyActive, DeleteSuciKey
<1> QED BY <1>1, <1>2, <1>3, <1>4, <1>7, <1>8 DEF VaultRequest, SetInventory

(* A request under way enters, adopts, writes or commits, or nothing.      *)
LEMMA ContinueChanges ==
  ASSUME SerialInv, IInv, RequestsFit, NEW c \in Callers, Continue(c)
  PROVE  [Changes!Next]_<<Stored, Wanted, cards>>
<1> DEFINE r == request[c]
<1>a. /\ request \in [Callers -> Requests] /\ RequestFits(r)
      /\ \A i \in DOMAIN profiles : profiles[i] \in ProfileRow
      /\ DOMAIN Stored = DOMAIN profiles
  BY DEF SerialInv, SystemTypeOK, TypeOK, IsTable, RequestsFit, Stored
<1>1. ASSUME UNCHANGED <<profiles, drafts, cards>>
      PROVE  UNCHANGED <<Stored, Wanted, cards>>
  BY <1>1, SameStored, SameWanted
<1>2. ASSUME MarkVerified(c)
      PROVE  UNCHANGED <<Stored, Wanted, cards>>
  <2>1. /\ profiles' = [profiles EXCEPT ![r.id].verified = TRUE]
        /\ UNCHANGED <<drafts, cards>>
    BY <1>2 DEF MarkVerified, MarkCardVerified, cardVars
  <2> HIDE DEF r
  <2>2. /\ DOMAIN profiles' = DOMAIN profiles
        /\ \A i \in DOMAIN profiles : profiles'[i].record = profiles[i].record
    BY <1>a, <2>1 DEF ProfileRow
  <2> QED BY <2>1, <2>2, SameStored, SameWanted
<1>3. ASSUME AddChecked(c)
      PROVE  Changes!Next
  <2>1. r.record \in Record /\ AddProfile(r.record, TRUE) /\ UNCHANGED <<drafts, cards>>
    BY <1>3, <1>a, RequestCases DEF AddChecked, AddProfile, cardVars
  <2> QED BY <2>1, AddEnters, EntryIsEnter DEF Changes!Next
<1>4. ASSUME AdoptImsi(c)
      PROVE  Changes!Next
  <2> DEFINE record == [profiles[r.id].record EXCEPT !.imsi = r.files.imsi]
  <2>1. /\ r.id \in DOMAIN profiles \ DOMAIN drafts
        /\ profiles[r.id].record.iccid = r.iccid
        /\ Activate(r.id, record, {"imsi"}) /\ UNCHANGED <<drafts, cards>>
    BY <1>4 DEF AdoptImsi, AdoptCardImsi, IsIccidOf, NoPendingChange, cardVars
  <2>2. r.files = cards[r.iccid]
    BY <1>4, <1>a DEF AdoptImsi, RequestFits
  <2>3. profiles[r.id].record \in Record
    BY <1>a, <2>1 DEF ProfileRow
  <2>4. /\ record.iccid = r.iccid /\ record["imsi"] = cards[r.iccid]["imsi"]
        /\ \A f \in Fields \ {"imsi"} : record[f] = profiles[r.id].record[f]
    BY <2>1, <2>2, <2>3 DEF Record, Fields
  <2>5. Changes!Learn(r.id)
    <3>1. "imsi" \in Fields /\ SystemTypeOK
      BY DEF Fields, SerialInv
    <3> HIDE DEF record, r
    <3> QED BY <2>1, <2>4, <3>1, AdoptionIsLearn
  <2> QED BY <1>a, <2>1, <2>5 DEF Changes!Next
<1>5. ASSUME AdoptInfo(c)
      PROVE  Changes!Next
  <2> DEFINE record == [profiles[r.id].record EXCEPT !.info = r.files.info]
  <2>1. /\ r.id \in DOMAIN profiles \ DOMAIN drafts
        /\ profiles[r.id].record.iccid = r.iccid
        /\ Activate(r.id, record, {"info"}) /\ UNCHANGED <<drafts, cards>>
    BY <1>5 DEF AdoptInfo, AdoptReadableFields, IsIccidOf, NoPendingChange, cardVars
  <2>2. r.files = cards[r.iccid]
    BY <1>5, <1>a DEF AdoptInfo, RequestFits
  <2>3. profiles[r.id].record \in Record
    BY <1>a, <2>1 DEF ProfileRow
  <2>4. /\ record.iccid = r.iccid /\ record["info"] = cards[r.iccid]["info"]
        /\ \A f \in Fields \ {"info"} : record[f] = profiles[r.id].record[f]
    BY <2>1, <2>2, <2>3 DEF Record, Fields
  <2>5. Changes!Learn(r.id)
    <3>1. "info" \in Fields /\ SystemTypeOK
      BY DEF Fields, SerialInv
    <3> HIDE DEF record, r
    <3> QED BY <2>1, <2>4, <3>1, AdoptionIsLearn
  <2> QED BY <1>a, <2>1, <2>5 DEF Changes!Next
<1>6. ASSUME NEW field \in Fields, WriteField(c, field)
      PROVE  Changes!Next
  BY <1>a, <1>6, FieldIsWrite DEF Changes!Next
<1>7. ASSUME Commit(c)
      PROVE  Changes!Next
  <2>1. /\ r.id \in DOMAIN profiles \cap DOMAIN drafts
        /\ Activate(r.id, drafts[r.id].record, drafts[r.id].changed)
        /\ drafts' = DraftsWithout(r.id) /\ UNCHANGED cards
    BY <1>7 DEF Commit, CommitChange, cardVars
  <2>2. \A f \in drafts[r.id].changed :
          cards[drafts[r.id].record.iccid][f] = drafts[r.id].record[f]
    BY <1>7, <1>a DEF Commit, RequestFits
  <2>3. Changes!Accept(r.id)
    <3> HIDE DEF r
    <3> QED BY <2>1, <2>2, CommitIsAccept
  <2> QED BY <1>a, <2>1, <2>3 DEF Changes!Next
<1> QED BY <1>1, <1>2, <1>3, <1>4, <1>5, <1>6, <1>7
  DEF Continue, CompareCard, ReadDraft, StartBridge, BridgeAnswers, BridgeFails, Refused,
      vars, cardVars

LEMMA SystemSimulates ==
  SerialInv /\ IInv /\ RequestsFit /\ [SystemNext]_systemVars
    => [Changes!Next]_<<Stored, Wanted, cards>>
<1> SUFFICES ASSUME SerialInv, IInv, RequestsFit, [SystemNext]_systemVars
             PROVE  [Changes!Next]_<<Stored, Wanted, cards>>
  OBVIOUS
<1>1. CASE UNCHANGED <<profiles, drafts, cards>>
  BY <1>1, SameStored, SameWanted
<1>2. ASSUME NEW c \in Callers, VaultRequest(c)
      PROVE  [Changes!Next]_<<Stored, Wanted, cards>>
  <2>1. DOMAIN Stored = DOMAIN profiles
    BY DEF Stored
  <2> QED BY <1>2, <2>1, VaultRequestChanges DEF Changes!Next
<1>3. ASSUME NEW c \in Callers, Arrive(c)
      PROVE  UNCHANGED <<profiles, drafts, cards>>
  BY <1>3 DEF Arrive, ReadProfile, ReadCardToAdopt, ReadSummary, CheckNewCard, vars, cardVars
<1> QED BY <1>1, <1>2, <1>3, ContinueChanges
  DEF SystemNext, systemVars, vars, cardVars, InsertCard, RemoveCard, SystemRestart, Restart

(* While requests do not overlap, the whole program keeps what prepared    *)
(* changes promise, for every number of profiles, cards and values: cards  *)
(* that are exchanged in the middle of a write, bridges that fail after    *)
(* any file, restarts, adoptions and deletions included.                   *)
THEOREM SystemIsCardChanges ==
  ASSUME NEW caller, Callers = {caller}
  PROVE  SystemSpec => ImplementsCardChanges
<1>1. SystemInit => Changes!Init
  BY DEF SystemInit, Init, Changes!Init, Wanted, EmptyTable, Changes!EmptyTable
<1>2. SystemSpec => []ListsAreCurrent
  <2>1. NotesInv => ListsAreCurrent
    BY DEF NotesInv
  <2>2. Spec => []NotesInv
    BY NotesStayComplete
  <2> QED BY <2>1, <2>2, VaultInSystem, PTL
<1>3. SystemTypeOK /\ IInv /\ IccidsAreCurrent /\ ListsAreCurrent => SerialInv
  BY DEF SerialInv, IInv
<1>4. SystemSpec => [](SystemTypeOK /\ IInv /\ IccidsAreCurrent /\ RequestsFit)
  BY RequestsAlwaysFit
<1> QED BY <1>1, <1>2, <1>3, <1>4, SystemSimulates, PTL
        DEF SystemSpec, ImplementsCardChanges, Changes!Spec, Changes!cardChangeVars
=============================================================================
