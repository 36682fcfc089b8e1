-------------------------- MODULE DataPathsProofs --------------------------
(***************************************************************************)
(* Theorems about what the stack does with data, for any data, parameters, *)
(* packets and buffers, in any order of calls: first about each path by    *)
(* itself, then about DataPaths, where a step of one path changes nothing  *)
(* of the others.                                                          *)
(***************************************************************************)
EXTENDS DataPaths, SequenceTheorems, WellFoundedInduction, TLAPS

-----------------------------------------------------------------------------
(* Parameters and PDUs: LinkData.                                            *)

\* The parameters kept by bci.c are those it accepts.
ParamsOK == L!Accepted(adv_params)

LEMMA InitParams == L!Init => ParamsOK
BY DEF L!Init, ParamsOK, L!Accepted, L!LeastInterval, L!LL_ADV_INTERVAL_MIN_NONCONN,
       L!LL_ADV_INTERVAL_MAX, L!LL_ADV_CH_ALL

\* Only its setter changes them.
LEMMA ParamsAreKept ==
    ASSUME [L!Next]_(L!vars) PROVE L!bci_set_advertising_params \/ UNCHANGED adv_params
<1>1. CASE L!ll_advertise_start(L!adv_type_to_pdu(adv_params.type), adv_params.interval,
                                adv_params.chmap)
  BY <1>1 DEF L!ll_advertise_start, L!Fail, L!bci
<1>2. CASE L!ll_advertise_stop \/ L!ll_set_advertising_data \/ L!ll_set_scan_response_data \/ L!Write
  BY <1>2 DEF L!ll_advertise_stop, L!ll_set_advertising_data, L!ll_set_scan_response_data,
              L!SetData, L!Write, L!Fail, L!bci
<1>3. CASE \/ L!adv_interval_cb \/ L!adv_singleshot_cb \/ L!ReadPart \/ L!EndOfPdu
           \/ L!NotAsked \/ L!send_scan_rsp
  BY <1>3 DEF L!adv_interval_cb, L!adv_singleshot_cb, L!ReadPart, L!EndOfPdu, L!NotAsked,
              L!send_scan_rsp, L!bci
<1>4. CASE L!Initiating
  BY <1>4 DEF L!Initiating, L!ll_set_conn_params, L!ll_set_data_ch_map, L!ll_conn_create,
              L!ll_conn_cancel, L!Fail, L!bci
<1>5. CASE UNCHANGED L!vars
  BY <1>5 DEF L!vars, L!bci
<1> QED BY <1>1, <1>2, <1>3, <1>4, <1>5 DEF L!Next, L!Advertising, L!bci_set_advertise_enable

LEMMA NextParams == ParamsOK /\ [L!Next]_(L!vars) => ParamsOK'
<1>1. ASSUME ParamsOK, L!bci_set_advertising_params PROVE ParamsOK'
  BY <1>1 DEF L!bci_set_advertising_params, ParamsOK, L!Fail, L!bci
<1>2. ASSUME ParamsOK, UNCHANGED adv_params PROVE ParamsOK'
  BY <1>2 DEF ParamsOK
<1> QED BY <1>1, <1>2, ParamsAreKept

LEMMA ParamsSuffice == ParamsOK => L!AcceptedParamsStart
BY DEF ParamsOK, L!AcceptedParamsStart, L!Accepted, L!LeastInterval, L!StartIsValid,
       L!LL_ADV_INTERVAL_MIN_NONCONN

\* What bci_set_advertising_params() accepts for non-connectable and scannable
\* advertising, in whole units, ll_advertise_start() accepts later.
THEOREM AcceptedStarts == L!Spec => []L!AcceptedParamsStart
BY ParamsSuffice, InitParams, NextParams, PTL DEF L!Spec

-----------------------------------------------------------------------------
\* The PDUs, the call that writes one, and what the radio has read of one.
PduNames == {"adv", "scan_rsp"}
Accepted == {d \in Data : d.len <= L!LL_ADV_MTU_DATA}
Contents == Data \union {L!None}
PduTypes == {"ADV_IND", "ADV_SCAN_IND", "ADV_NONCONN_IND", "SCAN_RSP"}

PduTyped ==
    /\ pdu \in [adv : [type : PduTypes, length : Nat, front : Contents, back : Contents],
                scan_rsp : [type : PduTypes, length : Nat, front : Contents, back : Contents]]
    /\ \/ setting = L!NotSetting
       \/ setting \in [pdu : PduNames, data : Accepted, next : {"front", "back", "length"}]
    /\ onair \in [pdu : {"none", "listen", "adv", "scan_rsp"},
                  next : {"length", "front", "back", "end"}]
    /\ sent \in [length : Nat, front : Contents, back : Contents]
    /\ torn \in BOOLEAN

\* What is behind a length has been set.
Filled(name) ==
    \A half \in L!Halves : L!Reaches(pdu[name].length - L!BDADDR_LEN, half) => pdu[name][half] # L!None

\* A PDU is whole but for a call that is writing it, which has written what comes before
\* its next part, and nothing before its first.
WritingOK ==
    \A name \in PduNames :
        /\ Filled(name)
        /\ setting.pdu # name \/ setting.next = "front" => L!Whole(pdu[name])
        /\ setting.pdu = name =>
            /\ setting.next \in {"back", "length"} /\ L!Reaches(setting.data.len, "front")
                => pdu[name].front = setting.data
            /\ setting.next = "length" /\ L!Reaches(setting.data.len, "back")
                => pdu[name].back = setting.data

HasRead(part) == onair.next \in CASE part = "length" -> {"front", "back", "end"}
                                  [] part = "front" -> {"back", "end"}
                                  [] part = "back" -> {"end"}

\* What has been read of a PDU that no call has written since is still there.
Current(name) ==
    /\ HasRead("length") => sent.length = pdu[name].length
    /\ HasRead("front") => sent.front = pdu[name].front
    /\ HasRead("back") => sent.back = pdu[name].back

\* The length read never promises more than there is, or has been read.
ReadIsFilled ==
    HasRead("length") =>
        \A half \in L!Halves :
            L!Reaches(sent.length - L!BDADDR_LEN, half) =>
                (IF HasRead(half) THEN sent[half] ELSE pdu.scan_rsp[half]) # L!None

SendingOK ==
    /\ onair.pdu = "adv" /\ current_state = "ADVERTISING" => Current("adv")
    /\ onair.pdu = "scan_rsp" /\ ~torn =>
        (setting.pdu = "scan_rsp" => setting.next = "front") /\ Current("scan_rsp")
    /\ onair.pdu = "scan_rsp" => ReadIsFilled

\* The data that are advertised are not set.
StateOK == current_state = "ADVERTISING" => setting.pdu # "adv"

PduInv == PduTyped /\ WritingOK /\ SendingOK /\ StateOK

LEMMA InitPdus == L!LinkDataAssumption /\ L!Init => PduInv
<1> SUFFICES ASSUME L!LinkDataAssumption, L!Init PROVE PduInv
  OBVIOUS
<1>1. L!None \in Contents /\ 0 \in Nat
  BY DEF Contents
<1>2. PduTyped
  BY <1>1 DEF L!Init, L!Empty, L!Unread, L!NothingOnAir, PduTyped, PduTypes
<1>3. \A name \in PduNames : pdu[name].length = 0 /\ setting.pdu # name
  BY DEF L!Init, L!Empty, L!NotSetting, PduNames
<1>4. WritingOK
  BY <1>3 DEF WritingOK, Filled, L!Whole, L!Halves, L!Reaches, L!BDADDR_LEN
<1>5. SendingOK /\ StateOK
  BY DEF L!Init, L!NothingOnAir, SendingOK, StateOK
<1> QED BY <1>2, <1>4, <1>5 DEF PduInv

\* A step that writes neither PDU but for its type.
LEMMA NotWritten ==
    ASSUME WritingOK, UNCHANGED setting,
           \A name \in PduNames : /\ pdu'[name].length = pdu[name].length
                                  /\ pdu'[name].front = pdu[name].front
                                  /\ pdu'[name].back = pdu[name].back
    PROVE  WritingOK'
<1> SUFFICES ASSUME NEW name \in PduNames PROVE
        /\ Filled(name)'
        /\ setting.pdu # name \/ setting.next = "front" => L!Whole(pdu'[name])
        /\ setting.pdu = name =>
            /\ setting.next \in {"back", "length"} /\ L!Reaches(setting.data.len, "front")
                => pdu'[name].front = setting.data
            /\ setting.next = "length" /\ L!Reaches(setting.data.len, "back")
                => pdu'[name].back = setting.data
  BY DEF WritingOK, L!Whole
<1>1. \A half \in L!Halves : pdu'[name][half] = pdu[name][half]
  BY DEF L!Halves
<1>2. Filled(name)'
  BY <1>1 DEF WritingOK, Filled
<1>3. L!Whole(pdu[name]) => L!Whole(pdu'[name])
  BY <1>1 DEF L!Whole
<1> QED BY <1>2, <1>3 DEF WritingOK

\* The radio is stopped, or begins to send.
LEMMA SendKeeps ==
    ASSUME PduInv, UNCHANGED <<pdu, setting>>, NEW name \in PduNames, L!Send(name)
    PROVE  SendingOK'
BY DEF L!Send, SendingOK, Current, ReadIsFilled, HasRead, PduNames, PduInv

LEMMA SendTyped ==
    ASSUME PduTyped, UNCHANGED <<pdu, setting>>,
           \/ L!Silence
           \/ \E name \in PduNames : L!Send(name)
           \/ onair' = [pdu |-> "listen", next |-> "end"] /\ sent' = L!Unread /\ torn' = FALSE
    PROVE  PduTyped'
<1>1. sent' = L!Unread /\ L!Unread \in [length : Nat, front : Contents, back : Contents]
  BY DEF L!Silence, L!Send, L!Unread, Contents
<1>2. onair' \in [pdu : {"none", "listen", "adv", "scan_rsp"}, next : {"length", "front", "back", "end"}]
  BY DEF L!Silence, L!Send, L!NothingOnAir, PduNames
<1>3. torn' \in BOOLEAN
  BY DEF L!Silence, L!Send
<1> QED BY <1>1, <1>2, <1>3 DEF PduTyped

LEMMA SendingKeeps ==
    ASSUME PduInv, UNCHANGED <<pdu, setting, current_state>>, NEW name \in PduNames, L!Send(name)
    PROVE  PduInv'
<1>1. PduTyped' /\ SendingOK'
  BY SendTyped, SendKeeps DEF PduInv
<1>2. WritingOK' /\ StateOK'
  BY NotWritten DEF PduInv, StateOK
<1> QED BY <1>1, <1>2 DEF PduInv

LEMMA SilenceKeeps ==
    ASSUME PduInv, UNCHANGED setting, pdu' = pdu,
           onair'.pdu \notin PduNames, PduTyped',
           current_state' = "ADVERTISING" => current_state = "ADVERTISING"
    PROVE  PduInv'
<1>1. WritingOK'
  BY NotWritten DEF PduInv
<1>2. SendingOK' /\ StateOK'
  BY DEF PduInv, SendingOK, StateOK, PduNames
<1> QED BY <1>1, <1>2 DEF PduInv

\* The calls that concern neither the PDUs nor the radio.
LEMMA OthersKeep ==
    ASSUME PduInv, UNCHANGED <<pdu, setting, onair, sent, torn>>,
           current_state' = "ADVERTISING" => current_state = "ADVERTISING"
    PROVE  PduInv'
<1>1. PduTyped'
  BY DEF PduInv, PduTyped
<1>2. WritingOK'
  BY NotWritten DEF PduInv
<1>3. SendingOK'
  BY DEF PduInv, SendingOK, Current, ReadIsFilled, HasRead
<1>4. StateOK'
  BY DEF PduInv, StateOK
<1> QED BY <1>1, <1>2, <1>3, <1>4 DEF PduInv

LEMMA StartKeeps ==
    ASSUME PduInv, setting = L!NotSetting, NEW type, NEW interval, NEW chmap,
           L!ll_advertise_start(type, interval, chmap)
    PROVE  PduInv'
<1>1. CASE UNCHANGED <<pdu, onair, sent, torn, current_state>>
  <2>1. UNCHANGED setting
    BY DEF L!ll_advertise_start, L!Fail
  <2> QED BY <1>1, <2>1, OthersKeep
<1>2. CASE ~UNCHANGED <<pdu, onair, sent, torn, current_state>>
  <2>1. /\ type \in L!Scannable \union {"ADV_NONCONN_IND"}
        /\ pdu' = [pdu EXCEPT !.adv.type = type]
        /\ L!Send("adv") /\ current_state' = "ADVERTISING" /\ UNCHANGED setting
    BY <1>2 DEF L!ll_advertise_start, L!Fail, L!air, L!SendAdv
  <2>2. /\ pdu'.scan_rsp = pdu.scan_rsp
        /\ pdu'.adv = [pdu.adv EXCEPT !.type = type]
        /\ pdu' \in [adv : [type : PduTypes, length : Nat, front : Contents, back : Contents],
                     scan_rsp : [type : PduTypes, length : Nat, front : Contents, back : Contents]]
    BY <2>1 DEF PduInv, PduTyped, PduTypes, L!Scannable
  <2>3. WritingOK'
    <3>1. \A name \in PduNames : /\ pdu'[name].length = pdu[name].length
                                 /\ pdu'[name].front = pdu[name].front
                                 /\ pdu'[name].back = pdu[name].back
      BY <2>2 DEF PduNames, PduInv, PduTyped
    <3> QED BY <2>1, <3>1, NotWritten DEF PduInv
  <2>4. PduTyped'
    <3>1. sent' \in [length : Nat, front : Contents, back : Contents]
      BY <2>1 DEF L!Send, L!Unread, Contents
    <3>2. onair' \in [pdu : {"none", "listen", "adv", "scan_rsp"},
                      next : {"length", "front", "back", "end"}] /\ torn' \in BOOLEAN
      BY <2>1 DEF L!Send
    <3> QED BY <2>1, <2>2, <3>1, <3>2 DEF PduInv, PduTyped
  <2>5. SendingOK' /\ StateOK'
    BY <2>1 DEF L!Send, SendingOK, StateOK, Current, HasRead, L!NotSetting
  <2> QED BY <2>3, <2>4, <2>5 DEF PduInv
<1> QED BY <1>1, <1>2

LEMMA SetKeeps ==
    ASSUME L!LinkDataAssumption, PduInv, setting = L!NotSetting,
           NEW name \in PduNames, L!SetData(name),
           name = "adv" => current_state # "ADVERTISING"
    PROVE  PduInv'
<1>1. CASE L!Fail("EINVAL")
  BY <1>1, OthersKeep DEF L!Fail, L!air
<1>2. CASE \E d \in Data : /\ ~(d.len > L!LL_ADV_MTU_DATA)
                            /\ setting' = [pdu |-> name, data |-> d, next |-> "front"]
                            /\ UNCHANGED <<pdu, onair, sent, torn, current_state>>
  <2>1. PICK d \in Accepted :
          /\ setting' = [pdu |-> name, data |-> d, next |-> "front"]
          /\ UNCHANGED <<pdu, onair, sent, torn, current_state>>
    <3>1. PICK d \in Data :
            /\ ~(d.len > 31) /\ setting' = [pdu |-> name, data |-> d, next |-> "front"]
            /\ UNCHANGED <<pdu, onair, sent, torn, current_state>>
      BY <1>2 DEF L!LL_ADV_MTU_DATA
    <3>2. d.len \in 0 .. 255
      BY DEF L!LinkDataAssumption
    <3>3. d.len <= 31
      BY <3>1, <3>2
    <3>4. d \in Accepted
      BY <3>3 DEF Accepted, L!LL_ADV_MTU_DATA
    <3> QED BY <3>1, <3>4
  <2>2. PduTyped'
    BY <2>1 DEF PduInv, PduTyped
  <2>3. \A other \in PduNames : Filled(other) /\ L!Whole(pdu[other])
    BY DEF PduInv, WritingOK, L!NotSetting, PduNames
  <2>4. WritingOK'
    BY <2>1, <2>3 DEF WritingOK, Filled, L!Whole
  <2>5. SendingOK' /\ StateOK'
    BY <2>1 DEF PduInv, SendingOK, StateOK, Current, ReadIsFilled, HasRead
  <2> QED BY <2>2, <2>4, <2>5 DEF PduInv
<1> QED BY <1>1, <1>2 DEF L!SetData, L!WriteOrder, L!air

LEMMA WriteKeeps ==
    ASSUME PduInv, L!LinkDataAssumption, L!Write PROVE PduInv'
<1>1. PICK name \in PduNames, part \in {"length", "front", "back"} :
        setting.pdu = name /\ setting.next = part /\ setting.data \in Accepted
  BY DEF L!Write, PduInv, PduTyped
<1> DEFINE d == setting.data
           other == IF name = "adv" THEN "scan_rsp" ELSE "adv"
<1>2. /\ pdu' = [pdu EXCEPT ![name][part] = L!Written(part)]
      /\ setting' = IF part = "length" THEN L!NotSetting
                    ELSE [setting EXCEPT !.next = IF part = "front" THEN "back" ELSE "length"]
      /\ torn' = (torn \/ onair.pdu = name)
      /\ UNCHANGED <<onair, sent, current_state>>
  BY <1>1 DEF L!Write, L!WriteOrder
<1>3. d \in Data /\ d.len \in 0 .. 31 /\ d # L!None /\ d \in Contents
  <2>1. d \in Data /\ d.len <= 31 /\ d \in Contents
    BY <1>1 DEF Accepted, Contents, L!LL_ADV_MTU_DATA
  <2>2. d.len \in 0 .. 255 /\ d # L!None
    BY <2>1 DEF L!LinkDataAssumption
  <2> QED BY <2>1, <2>2
<1>4. L!Written(part) \in IF part = "length" THEN Nat ELSE Contents
  BY <1>1, <1>3 DEF L!Written, L!BDADDR_LEN, PduInv, PduTyped, PduNames
<1>5. /\ pdu'[other] = pdu[other]
      /\ pdu'[name] = [pdu[name] EXCEPT ![part] = L!Written(part)]
      /\ pdu' \in [adv : [type : PduTypes, length : Nat, front : Contents, back : Contents],
                   scan_rsp : [type : PduTypes, length : Nat, front : Contents, back : Contents]]
  <2> DEFINE Pdu == [type : PduTypes, length : Nat, front : Contents, back : Contents]
  <2>1. pdu \in [adv : Pdu, scan_rsp : Pdu]
    BY DEF PduInv, PduTyped
  <2>2. pdu[name] \in Pdu
    BY <2>1 DEF PduNames
  <2>3. [pdu[name] EXCEPT ![part] = L!Written(part)] \in Pdu
    BY <1>4, <2>2
  <2>4. pdu'[name] = [pdu[name] EXCEPT ![part] = L!Written(part)] /\ pdu'[other] = pdu[other]
    BY <1>2, <2>1 DEF PduNames
  <2>5. pdu' \in [adv : Pdu, scan_rsp : Pdu]
    <3> HIDE DEF Pdu
    <3> QED BY <1>2, <2>1, <2>3 DEF PduNames
  <2> QED BY <2>4, <2>5
<1>6. PduTyped'
  <2>1. \/ setting' = L!NotSetting
        \/ setting' \in [pdu : PduNames, data : Accepted, next : {"front", "back", "length"}]
    <3>1. setting \in [pdu : PduNames, data : Accepted, next : {"front", "back", "length"}]
      BY <1>1 DEF PduInv, PduTyped, L!NotSetting, PduNames
    <3> QED BY <1>2, <3>1
  <2> QED BY <1>2, <1>5, <2>1 DEF PduInv, PduTyped
<1>7. \A p \in {"length", "front", "back"} :
        pdu'[name][p] = IF p = part THEN L!Written(part) ELSE pdu[name][p]
  BY <1>1, <1>5 DEF PduInv, PduTyped, PduNames
<1>8. Filled(name)'
  <2> SUFFICES ASSUME NEW half \in L!Halves,
                      L!Reaches(pdu'[name].length - L!BDADDR_LEN, half)
               PROVE  pdu'[name][half] # L!None
    BY DEF Filled
  <2>1. CASE part = "length"
    <3>1. pdu'[name].length = L!BDADDR_LEN + d.len /\ pdu'[name][half] = pdu[name][half]
      BY <1>1, <1>7, <2>1 DEF L!Written, L!Halves
    <3>2. L!Reaches(d.len, half)
      BY <1>3, <3>1 DEF L!BDADDR_LEN, L!Reaches
    <3>3. pdu[name][half] = d
      BY <1>1, <2>1, <3>2 DEF PduInv, WritingOK, L!Halves
    <3> QED BY <1>3, <3>1, <3>3
  <2>2. CASE part # "length"
    <3>1. pdu'[name].length = pdu[name].length
      BY <1>1, <1>7, <2>2
    <3>2. pdu[name][half] # L!None
      BY <1>1, <3>1 DEF PduInv, WritingOK, Filled
    <3>3. pdu'[name][half] \in {d, pdu[name][half]}
      BY <1>1, <1>7 DEF L!Written, L!Halves
    <3> QED BY <1>3, <3>2, <3>3
  <2> QED BY <2>1, <2>2
<1>9. SendingOK'
  <2>1. ASSUME onair.pdu = "adv", current_state = "ADVERTISING" PROVE Current("adv")'
    <3>1. name = "scan_rsp" /\ pdu'.adv = pdu.adv
      BY <1>1, <1>5, <2>1 DEF PduInv, StateOK, PduNames
    <3> QED BY <1>2, <2>1, <3>1 DEF PduInv, SendingOK, Current, HasRead
  <2>2. ASSUME onair.pdu = "scan_rsp", ~torn'
        PROVE  setting'.pdu # "scan_rsp" /\ Current("scan_rsp")'
    <3>1. name = "adv" /\ ~torn
      BY <1>1, <1>2, <2>2 DEF PduNames
    <3>2. setting'.pdu # "scan_rsp"
      BY <1>1, <1>2, <3>1 DEF L!NotSetting, PduInv, PduTyped
    <3> QED BY <1>2, <1>5, <2>2, <3>1, <3>2 DEF PduInv, SendingOK, Current, HasRead
  <2>3. ASSUME onair.pdu = "scan_rsp" PROVE ReadIsFilled'
    <3>1. \A half \in L!Halves : pdu.scan_rsp[half] # L!None => pdu'.scan_rsp[half] # L!None
      BY <1>1, <1>3, <1>5, <1>7 DEF L!Written, L!Halves, PduNames
    <3> QED BY <1>2, <2>3, <3>1 DEF PduInv, SendingOK, ReadIsFilled, HasRead
  <2> QED BY <1>2, <2>1, <2>2, <2>3 DEF SendingOK
<1>10. L!Whole(pdu'[other]) /\ Filled(other)' /\ name # other
  BY <1>1, <1>5 DEF PduInv, WritingOK, Filled, PduNames, L!Whole
<1>11. CASE part = "length"
  <2>1. L!Whole(pdu'[name])
    <3>1. pdu'[name].length = L!BDADDR_LEN + d.len
      BY <1>1, <1>7, <1>11 DEF L!Written
    <3>2. \A half \in L!Halves : L!Reaches(d.len, half) => pdu'[name][half] = d
      BY <1>1, <1>7, <1>11 DEF PduInv, WritingOK, L!Halves
    <3> QED BY <1>1, <1>3, <3>1, <3>2 DEF L!Whole, Accepted
  <2>2. WritingOK'
    BY <1>1, <1>2, <1>8, <1>10, <1>11, <2>1 DEF WritingOK, PduNames, L!NotSetting, L!Whole
  <2>3. StateOK'
    BY <1>2, <1>11 DEF StateOK, L!NotSetting
  <2> QED BY <1>6, <1>9, <2>2, <2>3 DEF PduInv
<1>12. CASE part # "length"
  <2>1. /\ setting'.pdu = name /\ setting'.data = d
        /\ setting'.next = IF part = "front" THEN "back" ELSE "length"
    BY <1>1, <1>2, <1>12 DEF PduInv, PduTyped, L!NotSetting
  <2>2. /\ L!Reaches(d.len, "front") => pdu'[name].front = d
        /\ part = "back" /\ L!Reaches(d.len, "back") => pdu'[name].back = d
    BY <1>1, <1>7, <1>12 DEF L!Written, PduInv, WritingOK
  <2>3. WritingOK'
    BY <1>1, <1>8, <1>10, <1>12, <2>1, <2>2 DEF WritingOK, PduNames, L!Whole
  <2>4. StateOK'
    BY <1>1, <1>2, <2>1 DEF PduInv, StateOK
  <2> QED BY <1>6, <1>9, <2>3, <2>4 DEF PduInv
<1> QED BY <1>11, <1>12

LEMMA ReadKeepsPdus == ASSUME PduInv, L!ReadPart PROVE PduInv'
<1>1. PICK name \in PduNames, part \in {"length", "front", "back"} :
        onair.pdu = name /\ onair.next = part
  BY DEF L!ReadPart, L!Sending, PduInv, PduTyped, PduNames
<1>2. /\ sent' = [sent EXCEPT ![part] = pdu[name][part]]
      /\ onair' = [pdu |-> name,
                   next |-> IF part = "length" THEN "front" ELSE IF part = "front" THEN "back" ELSE "end"]
      /\ UNCHANGED <<pdu, setting, torn, current_state>>
  BY <1>1 DEF L!ReadPart, L!ReadOrder, PduInv, PduTyped
<1>3. pdu[name][part] \in IF part = "length" THEN Nat ELSE Contents
  BY <1>1 DEF PduInv, PduTyped, PduNames
<1>4. PduTyped'
  <2>1. sent' \in [length : Nat, front : Contents, back : Contents]
    BY <1>1, <1>2, <1>3 DEF PduInv, PduTyped
  <2>2. onair' \in [pdu : {"none", "listen", "adv", "scan_rsp"},
                    next : {"length", "front", "back", "end"}]
    BY <1>1, <1>2 DEF PduNames
  <2> QED BY <1>2, <2>1, <2>2 DEF PduInv, PduTyped
<1>5. WritingOK' /\ StateOK'
  BY <1>2, NotWritten DEF PduInv, StateOK
<1>6. \A p \in {"length", "front", "back"} :
        sent'[p] = IF p = part THEN pdu[name][part] ELSE sent[p]
  BY <1>1, <1>2 DEF PduInv, PduTyped
<1>7. Current(name) => Current(name)'
  BY <1>1, <1>2, <1>6 DEF Current, HasRead
<1>8. ASSUME name = "scan_rsp" PROVE ReadIsFilled'
  <2> SUFFICES ASSUME NEW half \in L!Halves, L!Reaches(sent'.length - L!BDADDR_LEN, half)
               PROVE  (IF HasRead(half)' THEN sent'[half] ELSE pdu'.scan_rsp[half]) # L!None
    BY DEF ReadIsFilled
  <2>1. CASE part = "length"
    <3>1. sent'.length = pdu.scan_rsp.length /\ ~HasRead(half)'
      BY <1>2, <1>6, <1>8, <2>1 DEF HasRead, L!Halves
    <3> QED BY <1>2, <3>1 DEF PduInv, WritingOK, Filled, PduNames
  <2>2. CASE part # "length"
    <3>1. sent'.length = sent.length /\ HasRead("length")
      BY <1>1, <1>6, <2>2 DEF HasRead
    <3>2. (IF HasRead(half) THEN sent[half] ELSE pdu.scan_rsp[half]) # L!None
      BY <1>1, <1>8, <3>1 DEF PduInv, SendingOK, ReadIsFilled
    <3>3. CASE half = part
      BY <1>1, <1>2, <1>6, <1>8, <3>2, <3>3 DEF HasRead, L!Halves
    <3>4. CASE half # part
      BY <1>1, <1>2, <1>6, <1>8, <2>2, <3>2, <3>4 DEF HasRead, L!Halves
    <3> QED BY <3>3, <3>4
  <2> QED BY <2>1, <2>2
<1>9. SendingOK'
  BY <1>1, <1>2, <1>7, <1>8 DEF PduInv, SendingOK, PduNames
<1> QED BY <1>4, <1>5, <1>9 DEF PduInv

LEMMA NextPdus == L!LinkDataAssumption /\ PduInv /\ [L!Next]_(L!vars) => PduInv'
<1> SUFFICES ASSUME L!LinkDataAssumption, PduInv, [L!Next]_(L!vars) PROVE PduInv'
  OBVIOUS
<1>1. CASE L!bci_set_advertising_params
  BY <1>1, OthersKeep DEF L!bci_set_advertising_params, L!Fail, L!air
<1>2. CASE L!ll_advertise_stop
  BY <1>2, OthersKeep DEF L!ll_advertise_stop, L!Fail, L!air
<1>3. CASE setting = L!NotSetting /\ L!bci_set_advertise_enable
  BY <1>2, <1>3, StartKeeps DEF L!bci_set_advertise_enable
<1>4. CASE setting = L!NotSetting /\ L!ll_set_advertising_data
  <2>1. CASE L!Fail("EBUSY")
    BY <2>1, OthersKeep DEF L!Fail, L!air
  <2>2. CASE current_state = "STANDBY"
    BY <1>4, <2>2, SetKeeps DEF L!ll_set_advertising_data, PduNames
  <2> QED BY <1>4, <2>1, <2>2 DEF L!ll_set_advertising_data
<1>5. CASE setting = L!NotSetting /\ L!ll_set_scan_response_data
  BY <1>5, SetKeeps DEF L!ll_set_scan_response_data, PduNames
<1>6. CASE L!Write
  BY <1>6, WriteKeeps
<1>7. CASE L!adv_interval_cb \/ L!adv_singleshot_cb
  <2>1. L!Send("adv") /\ UNCHANGED <<pdu, setting, current_state>> /\ "adv" \in PduNames
    BY <1>7 DEF L!adv_interval_cb, L!adv_singleshot_cb, L!SendAdv, PduNames
  <2> QED BY <2>1, SendingKeeps
<1>8. CASE L!ReadPart
  BY <1>8, ReadKeepsPdus
<1>9. CASE L!EndOfPdu \/ L!NotAsked
  <2>1. /\ UNCHANGED <<pdu, setting, current_state>>
        /\ \/ L!Silence
           \/ onair' = [pdu |-> "listen", next |-> "end"] /\ sent' = L!Unread /\ torn' = FALSE
    BY <1>9 DEF L!EndOfPdu, L!NotAsked
  <2>2. PduTyped'
    BY <2>1, SendTyped DEF PduInv
  <2> QED BY <2>1, <2>2, SilenceKeeps DEF L!Silence, L!NothingOnAir, PduNames
<1>10. CASE L!send_scan_rsp
  <2>1. L!Send("scan_rsp") /\ UNCHANGED <<pdu, setting, current_state>> /\ "scan_rsp" \in PduNames
    BY <1>10 DEF L!send_scan_rsp, PduNames
  <2> QED BY <2>1, SendingKeeps
<1>11. CASE L!ll_set_conn_params \/ L!ll_set_data_ch_map \/ L!ll_conn_create
  BY <1>11, OthersKeep
  DEF L!ll_set_conn_params, L!ll_set_data_ch_map, L!ll_conn_create, L!Fail, L!air
<1>12. CASE L!ll_conn_cancel
  <2>1. CASE L!Fail("ENOREADY")
    BY <2>1, OthersKeep DEF L!Fail, L!air
  <2>2. CASE ~L!Fail("ENOREADY")
    <3>1. L!Silence /\ UNCHANGED <<pdu, setting>> /\ current_state' = "STANDBY"
      BY <1>12, <2>2 DEF L!ll_conn_cancel
    <3>2. PduTyped'
      BY <3>1, SendTyped DEF PduInv
    <3> QED BY <3>1, <3>2, SilenceKeeps DEF L!Silence, L!NothingOnAir, PduNames
  <2> QED BY <2>1, <2>2
<1>13. CASE UNCHANGED L!vars
  BY <1>13, OthersKeep DEF L!vars, L!air
<1> QED BY <1>1, <1>3, <1>4, <1>5, <1>6, <1>7, <1>8, <1>9, <1>10, <1>11, <1>12, <1>13
        DEF L!Next, L!Advertising, L!Initiating

LEMMA PdusSuffice ==
    PduInv => L!AdvertisementIsWhole /\ L!ResponseIsWhole /\ L!ResponseIsFilled
<1> SUFFICES ASSUME PduInv
             PROVE  L!AdvertisementIsWhole /\ L!ResponseIsWhole /\ L!ResponseIsFilled
  OBVIOUS
<1>1. ASSUME NEW name \in PduNames, Current(name), onair.next = "end", L!Whole(pdu[name])
      PROVE  L!Whole(sent)
  <2>1. sent.length = pdu[name].length /\ \A half \in L!Halves : sent[half] = pdu[name][half]
    BY <1>1 DEF Current, HasRead, L!Halves
  <2> QED BY <1>1, <2>1 DEF L!Whole
<1>2. L!AdvertisementIsWhole
  BY <1>1 DEF PduInv, SendingOK, WritingOK, StateOK, L!AdvertisementIsWhole, PduNames
<1>3. L!ResponseIsWhole
  BY <1>1 DEF PduInv, SendingOK, WritingOK, L!ResponseIsWhole, PduNames
<1>4. L!ResponseIsFilled
  BY DEF PduInv, SendingOK, ReadIsFilled, HasRead, L!ResponseIsFilled, L!Halves
<1> QED BY <1>2, <1>3, <1>4

\* An advertisement sent while ADVERTISING has the length and data of one call of
\* ll_set_advertising_data(), and a SCAN_RSP that is not being set those of one call
\* of ll_set_scan_response_data(), with calls and handlers in any order.
THEOREM PdusAreWhole ==
    ASSUME L!LinkDataAssumption PROVE L!Spec => [](L!AdvertisementIsWhole /\ L!ResponseIsWhole)
<1>1. PduInv /\ [L!Next]_(L!vars) => PduInv'
  BY NextPdus
<1>2. L!Init => PduInv
  BY InitPdus
<1> QED BY <1>1, <1>2, PdusSuffice, PTL DEF L!Spec

-----------------------------------------------------------------------------
\* CONNECT_REQ is made of parameters in the range that ll.h gives.
ConnInv == /\ conn_params.interval_min \in 6 .. 3200
           /\ L!WindowFitsInterval

LEMMA InitConn == L!Init => ConnInv
BY DEF L!Init, ConnInv, L!WindowFitsInterval

LEMMA NextConn == L!LinkDataAssumption /\ ConnInv /\ [L!Next]_(L!vars) => ConnInv'
<1> SUFFICES ASSUME L!LinkDataAssumption, ConnInv, [L!Next]_(L!vars) PROVE ConnInv'
  OBVIOUS
<1>1. ASSUME UNCHANGED <<conn_params, pdu_connect_req>>,
             current_state' = "INITIATING" => current_state = "INITIATING"
      PROVE  ConnInv'
  BY <1>1 DEF ConnInv, L!WindowFitsInterval
<1>2. CASE L!ll_advertise_start(L!adv_type_to_pdu(adv_params.type), adv_params.interval,
                                adv_params.chmap)
  BY <1>1, <1>2 DEF L!ll_advertise_start, L!Fail, L!connection
<1>3. CASE \/ L!ll_advertise_stop \/ L!ll_set_advertising_data \/ L!ll_set_scan_response_data
           \/ L!Write \/ L!bci_set_advertising_params
  BY <1>1, <1>3 DEF L!ll_advertise_stop, L!ll_set_advertising_data, L!ll_set_scan_response_data,
              L!SetData, L!Write, L!bci_set_advertising_params, L!Fail, L!connection
<1>4. CASE \/ L!adv_interval_cb \/ L!adv_singleshot_cb \/ L!ReadPart \/ L!EndOfPdu
           \/ L!NotAsked \/ L!send_scan_rsp
  BY <1>1, <1>4 DEF L!adv_interval_cb, L!adv_singleshot_cb, L!ReadPart, L!EndOfPdu, L!NotAsked,
              L!send_scan_rsp, L!connection
<1>5. CASE L!ll_set_conn_params
  BY <1>5 DEF L!ll_set_conn_params, L!LinkDataAssumption, L!Fail, L!connection, ConnInv,
              L!WindowFitsInterval
<1>6. CASE L!ll_set_data_ch_map \/ L!ll_conn_cancel
  BY <1>1, <1>6 DEF L!ll_set_data_ch_map, L!ll_conn_cancel, L!Fail, L!connection
<1>7. CASE L!ll_conn_create
  <2>1. CASE UNCHANGED <<conn_params, pdu_connect_req, current_state>>
    BY <1>1, <2>1
  <2>2. CASE pdu_connect_req' = L!ConnectReq /\ UNCHANGED conn_params
    <3> DEFINE i == conn_params.interval_min
    <3>1. i \in 6 .. 3200
      BY DEF ConnInv
    <3>2. /\ pdu_connect_req'.interval = i
          /\ pdu_connect_req'.win_size = IF i > 8 THEN 8 ELSE (i - 1) % 256
          /\ pdu_connect_req'.win_offset = (i - 3) % 65536
      BY <2>2 DEF L!ConnectReq, L!win_size, L!U8, L!U16
    <3> HIDE DEF i
    <3>3. (i <= 8 => (i - 1) % 256 = i - 1) /\ (i - 3) % 65536 = i - 3
      BY <3>1
    <3>4. /\ pdu_connect_req'.win_size = IF i > 8 THEN 8 ELSE i - 1
          /\ pdu_connect_req'.win_offset = i - 3
      BY <3>1, <3>2, <3>3
    <3>5. pdu_connect_req'.interval = i /\ conn_params'.interval_min = i
      BY <2>2, <3>2 DEF i
    <3>6. /\ pdu_connect_req'.win_size \in 1 .. 8 /\ pdu_connect_req'.win_size < i
          /\ pdu_connect_req'.win_offset \in 0 .. i
      <4>1. i > 8 => pdu_connect_req'.win_size = 8
        BY <3>4
      <4>2. ~(i > 8) => pdu_connect_req'.win_size = i - 1
        BY <3>4
      <4> QED BY <3>1, <3>4, <4>1, <4>2
    <3> QED BY <3>1, <3>5, <3>6 DEF ConnInv, L!WindowFitsInterval
  <2> QED BY <1>7, <2>1, <2>2 DEF L!ll_conn_create, L!Fail, L!connection
<1>8. CASE UNCHANGED L!vars
  BY <1>1, <1>8 DEF L!vars, L!connection
<1> QED BY <1>2, <1>3, <1>4, <1>5, <1>6, <1>7, <1>8
        DEF L!Next, L!Advertising, L!Initiating, L!bci_set_advertise_enable

-----------------------------------------------------------------------------
(* Reports: AdvReport, for any number of packets of any length.              *)

Marks == R!Packets \union {R!Nothing, R!Mixed}

Typed ==
    /\ header \in R!Packets /\ payload \in R!Packets \union {R!Mixed} /\ length \in 0 .. 63
    /\ report \in [type : Marks, addr : Marks, len : 0 .. 255]
    /\ pending \in BOOLEAN /\ fresh \in BOOLEAN /\ disturbed \in BOOLEAN
    /\ air \in {"nothing", "header", "payload", "end"}
    /\ reads \in {"nothing", "type", "addr", "len", "data", "done"}
    /\ seen \in [type : Marks, addr : Marks, len : 0 .. 255, data : Marks]

\* As long as no other packet begins, report and buffer are of the packet reported.
ReportOK ==
    /\ air = "end" => payload = header
    /\ fresh => air = "nothing" /\ report.type = payload /\ report.addr = payload

\* Then what the callback has read is of that packet, too.
ReadingOK ==
    reads # "nothing" /\ ~disturbed =>
        /\ fresh
        /\ reads \in {"addr", "len", "data", "done"} => seen.type = payload
        /\ reads \in {"len", "data", "done"} => seen.addr = payload
        /\ reads = "done" => seen.data = payload

ReportInv == Typed /\ ReportOK /\ ReadingOK

LEMMA MarkTypes ==
    ASSUME R!AdvReportAssumption
    PROVE  /\ 0 \in R!Packets /\ {R!Nothing, R!Mixed} \subseteq Marks /\ R!Packets \subseteq Marks
           /\ \A p \in R!Packets : p # R!Nothing /\ (p + 1) % PacketIds \in R!Packets
           /\ \A k \in Int : k % 256 \in 0 .. 255
BY DEF R!AdvReportAssumption, R!Packets, Marks, R!Nothing

LEMMA InitReport == ASSUME R!AdvReportAssumption, R!Init PROVE ReportInv
<1>1. /\ R!NoView \in [type : Marks, addr : Marks, len : 0 .. 255, data : Marks]
      /\ report \in [type : Marks, addr : Marks, len : 0 .. 255]
  BY MarkTypes DEF R!Init, R!NoView
<1>2. Typed
  <2>1. 0 \in 0 .. 63
    OBVIOUS
  <2> QED BY <1>1, <2>1, MarkTypes DEF R!Init, Typed
<1>3. ReportOK /\ ReadingOK
  BY DEF R!Init, ReportOK, ReadingOK
<1> QED BY <1>2, <1>3 DEF ReportInv

LEMMA ReadKeeps ==
    ASSUME ReportInv, R!AdvReportAssumption, R!AdvReportCb
    PROVE  ReportInv'
<1> USE DEF ReportInv
<1>1. payload \in Marks /\ report.type \in Marks /\ report.addr \in Marks /\ report.len \in 0 .. 255
  BY MarkTypes DEF Typed
<1>2. /\ UNCHANGED <<header, length, payload, air, report, pending, unseen, fresh, disturbed>>
      /\ reads # "nothing"
  BY DEF R!AdvReportCb, R!Read, R!buffer
<1>3. ASSUME reads' \in {"addr", "len", "data", "done"},
             seen' \in [type : Marks, addr : Marks, len : 0 .. 255, data : Marks], ReadingOK'
      PROVE  ReportInv'
  BY <1>2, <1>3 DEF Typed, ReportOK
<1>4. CASE R!Read("type", report.type, "addr")
  BY <1>1, <1>2, <1>3, <1>4 DEF Typed, ReportOK, ReadingOK, R!Read
<1>5. CASE R!Read("addr", report.addr, "len")
  BY <1>1, <1>2, <1>3, <1>5 DEF Typed, ReportOK, ReadingOK, R!Read
<1>6. CASE R!Read("len", report.len, "data")
  BY <1>1, <1>2, <1>3, <1>6 DEF Typed, ReadingOK, R!Read
<1>7. CASE R!Read("data", payload, "done")
  BY <1>1, <1>2, <1>3, <1>7 DEF Typed, ReadingOK, R!Read
<1> QED BY <1>4, <1>5, <1>6, <1>7 DEF R!AdvReportCb

LEMMA NextReport ==
    ASSUME R!AdvReportAssumption, ReportInv, [R!Next]_(R!vars)
    PROVE  ReportInv'
<1> USE DEF ReportInv, R!buffer, R!application
<1>1. CASE R!ReceiveHeader
  <2>1. header' \in R!Packets /\ length' \in 0 .. 63
    BY <1>1, MarkTypes DEF R!ReceiveHeader, Typed, R!AdvReportAssumption
  <2> QED BY <1>1, <2>1 DEF R!ReceiveHeader, Typed, ReportOK, ReadingOK
<1>2. CASE R!ReceivePayload \/ R!EndPacket
  BY <1>2 DEF R!ReceivePayload, R!EndPacket, Typed, ReportOK, ReadingOK
<1>3. CASE R!StopRadio
  BY <1>3 DEF R!StopRadio, Typed, ReportOK, ReadingOK
<1>4. CASE R!ScanRadioRecvCb
  <2>1. report' \in [type : Marks, addr : Marks, len : 0 .. 255]
    <3>1. length - R!BDADDR_LEN \in Int /\ header \in Marks /\ payload \in Marks
      BY MarkTypes DEF Typed, R!BDADDR_LEN
    <3> QED BY <1>4, <3>1, MarkTypes DEF R!ScanRadioRecvCb, R!Fill
  <2>2. report'.type = payload /\ report'.addr = payload
    BY <1>4 DEF R!ScanRadioRecvCb, R!Fill, ReportOK, Typed
  <2> QED BY <1>4, <2>1, <2>2 DEF R!ScanRadioRecvCb, R!Send, Typed, ReportOK, ReadingOK
<1>5. CASE R!SWI0_IRQHandler
  <2>1. R!NoView \in [type : Marks, addr : Marks, len : 0 .. 255, data : Marks]
    BY MarkTypes DEF R!NoView
  <2> QED BY <1>5, <2>1 DEF R!SWI0_IRQHandler, Typed, ReportOK, ReadingOK
<1>6. CASE R!AdvReportCb
  BY <1>6, ReadKeeps
<1>7. CASE R!Return
  BY <1>7 DEF R!Return, Typed, ReportOK, ReadingOK
<1>8. CASE UNCHANGED R!vars
  BY <1>8 DEF R!vars, Typed, ReportOK, ReadingOK
<1> QED BY <1>1, <1>2, <1>3, <1>4, <1>5, <1>6, <1>7, <1>8 DEF R!Next

LEMMA ReportSuffices == ReportInv => R!UndisturbedReportIsWhole
BY DEF ReportInv, Typed, ReportOK, ReadingOK, R!UndisturbedReportIsWhole, R!OfOnePacket

\* What an application reads of a report (scan_radio_recv_cb, SWI0_IRQHandler) is of
\* one packet, unless another has begun since the report was filled, be it one that the
\* end of the window cut off in the middle.
THEOREM UndisturbedIsWhole ==
    ASSUME R!AdvReportAssumption PROVE R!Spec => []R!UndisturbedReportIsWhole
BY ReportSuffices, InitReport, NextReport, PTL DEF R!Spec

-----------------------------------------------------------------------------
(* AD structures: AdData.                                                    *)

\* A set of natural numbers has a least element.
LEMMA LeastNumber ==
    ASSUME NEW T, T \subseteq Nat, T # {}
    PROVE  \E x \in T : \A y \in T : x <= y
<1> DEFINE Less == {ss \in Nat \X Nat : ss[1] < ss[2]}
<1>1. IsWellFoundedOn(Less, Nat)
  BY NatLessThanWellFounded DEF OpToRel
<1>2. PICK x \in T : \A y \in T : ~ (<<y, x>> \in Less)
  <2> HIDE DEF Less
  <2> QED BY <1>1, WFMin
<1>3. ASSUME NEW y \in T PROVE x <= y
  <2>1. ~(<<y, x>> \in {ss \in Nat \X Nat : ss[1] < ss[2]})
    BY <1>2
  <2>2. x \in Nat /\ y \in Nat /\ <<y, x>> \in Nat \X Nat
    OBVIOUS
  <2>3. ~(y < x)
    BY <2>1, <2>2
  <2> QED BY <2>2, <2>3
<1> QED BY <1>3

LEMMA MinIsLeast ==
    ASSUME NEW T, T \subseteq Nat, T # {}
    PROVE  D!Min(T) \in T /\ \A y \in T : D!Min(T) <= y
BY LeastNumber DEF D!Min

BufferOK ==
    /\ buffer \in Seq(Nat) /\ pos \in Nat /\ wanted \subseteq D!Known
    /\ items \in Seq(Items) /\ todo \in Seq(Items)

\* The offsets S divide the buffer into complete groups.
Groups(S) ==
    /\ 0 \in S /\ D!len \in S /\ D!len > 0
    /\ \A i \in S \ {D!len} : /\ D!At(i) >= 1 /\ i + 1 < D!len
                            /\ D!At(i) >= D!LeastLength(D!At(i + 1))
                            /\ i + D!At(i) + 1 \in S

\* The parser stands at the beginning of a group, or at the end.
ParserOK ==
    /\ pc \in {"put", "einval"} => pos = 0
    /\ \A S \in SUBSET (0 .. D!len) :
        Groups(S) => pc # "outside" /\ pos \in S /\ (pc = "true" => pos = D!len)

AdInv == BufferOK /\ ParserOK

\* strncpy() stays in its group, whatever it finds there.
LEMMA CopyInGroup ==
    ASSUME BufferOK, NEW grouplen \in Nat, grouplen >= 1
    PROVE  D!CopyEnd(grouplen) \in Nat /\ D!CopyEnd(grouplen) <= pos + grouplen + 1
<1> DEFINE nuls == {i \in pos + 2 .. D!len - 1 : D!At(i) = 0}
           limit == pos + grouplen + 1
<1>1. pos \in Nat /\ limit \in Nat /\ nuls \subseteq Nat
  BY DEF BufferOK
<1>2. nuls # {} => D!Min(nuls) \in Nat
  <2> HIDE DEF nuls
  <2> QED BY <1>1, MinIsLeast
<1>3. D!CopyEnd(grouplen) = IF nuls = {} \/ D!Min(nuls) >= limit THEN limit
                           ELSE D!Min(nuls) + 1
  BY DEF D!CopyEnd
<1> HIDE DEF nuls
<1> QED BY <1>1, <1>2, <1>3

LEMMA NumbersOfAd ==
    /\ D!BCI_AD_FLAGS = 1 /\ D!BCI_AD_TX_POWER = 10 /\ D!BCI_AD_GAP_APPEARANCE = 25
    /\ D!BCI_AD_NAME_SHORT = 8 /\ D!BCI_AD_NAME_COMPLETE = 9 /\ D!BCI_AD_MFT_DATA = 255
    /\ D!Octets = {1, 10} /\ D!Names = {8, 9} /\ D!Known = {1, 8, 9, 10, 25, 255}
BY DEF D!BCI_AD_FLAGS, D!BCI_AD_TX_POWER, D!BCI_AD_GAP_APPEARANCE, D!BCI_AD_NAME_SHORT,
       D!BCI_AD_NAME_COMPLETE, D!BCI_AD_MFT_DATA, D!Octets, D!Names, D!Known

\* A group that is long enough for its type is read inside of it.
LEMMA ReadInGroup ==
    ASSUME BufferOK, NEW type, type \in D!Known,
           NEW grouplen \in Nat, grouplen >= 1, grouplen >= D!LeastLength(type)
    PROVE  D!ReadEnd(grouplen, type) \in Nat /\ D!ReadEnd(grouplen, type) <= pos + grouplen + 1
<1>1. D!CopyEnd(grouplen) \in Nat /\ D!CopyEnd(grouplen) <= pos + grouplen + 1
  BY CopyInGroup
<1>2. pos \in Nat
  BY DEF BufferOK
<1> QED BY <1>1, <1>2, NumbersOfAd DEF D!ReadEnd, D!LeastLength

LEMMA ByteFacts ==
    /\ D!Byte \subseteq Nat
    /\ \A v \in Nat : v \div 2 \in Nat /\ v % 256 \in D!Byte
    /\ \A v \in D!Short : v \in Nat
<1>1. \A v \in Nat : v \div 2 \in Nat /\ v % 256 \in 0 .. 255
  OBVIOUS
<1> QED BY <1>1 DEF D!Byte, D!Short

LEMMA BytesAreNumbers == ASSUME NEW s \in Seq(D!Byte) PROVE s \in Seq(Nat)
<1>1. D!Byte \subseteq Nat
  BY DEF D!Byte
<1> QED BY <1>1, SeqMonotonic

\* What bci_ad_put() writes of an item: octets.
LEMMA BodyIsBytes ==
    ASSUME D!AdDataAssumption, NEW item \in Items
    PROVE  D!Body(item) \in Seq(D!Byte)
<1>1. CASE item.type = D!BCI_AD_GAP_APPEARANCE
  <2>1. item.value \in Seq(D!Short) /\ Len(item.value) = 1
    BY <1>1 DEF D!AdDataAssumption
  <2>2. item.value[1] \in D!Short
    <3> DEFINE v == item.value
    <3>1. v \in Seq(D!Short) /\ 1 \in 1 .. Len(v)
      BY <2>1
    <3> HIDE DEF v
    <3>2. v[1] \in D!Short
      BY <3>1, ElementOfSeq
    <3> QED BY <3>2 DEF v
  <2> DEFINE u16 == item.value[1]
  <2>3. D!Body(item) = <<u16 % 256, (u16 \div 2) % 256>>
    BY <1>1 DEF D!Body
  <2>4. u16 \in Nat
    BY <2>2, ByteFacts
  <2> HIDE DEF u16
  <2>5. u16 % 256 \in D!Byte /\ (u16 \div 2) % 256 \in D!Byte
    BY <2>4, ByteFacts
  <2>6. <<u16 % 256, (u16 \div 2) % 256>> \in Seq(D!Byte)
    BY <2>5
  <2> QED BY <2>3, <2>6
<1>2. CASE item.type # D!BCI_AD_GAP_APPEARANCE
  BY <1>2 DEF D!Body, D!AdDataAssumption
<1> QED BY <1>1, <1>2

LEMMA ItemIsWritten ==
    ASSUME D!AdDataAssumption, NEW item \in Items
    PROVE  D!Encode(item.type, D!Body(item)) \in Seq(Nat)
<1> DEFINE body == D!Body(item)
<1>1. item.type \in Nat
  BY ByteFacts DEF D!AdDataAssumption
<1>2. body \in Seq(D!Byte)
  BY BodyIsBytes
<1> HIDE DEF body
<1>3. body \in Seq(Nat) /\ Len(body) + 1 \in Nat
  BY <1>2, BytesAreNumbers
<1>4. <<Len(body) + 1, item.type>> \in Seq(Nat)
  BY <1>1, <1>3
<1>5. <<Len(body) + 1, item.type>> \o body \in Seq(Nat)
  BY <1>3, <1>4, ConcatProperties
<1> QED BY <1>5 DEF body, D!Encode

LEMMA InitAd == D!AdDataAssumption /\ D!Init => AdInv
<1> SUFFICES ASSUME D!AdDataAssumption, D!Init PROVE AdInv
  OBVIOUS
<1>1. items \in Seq(Items)
  <2>1. CASE items \in UNION {[1 .. k -> Items] : k \in 1 .. MaxItems}
    <3>1. PICK k \in 1 .. MaxItems : items \in [1 .. k -> Items]
      BY <2>1
    <3>2. k \in Nat
      BY DEF D!AdDataAssumption
    <3> QED BY <3>1, <3>2
  <2>2. CASE items = <<>>
    BY <2>2
  <2> QED BY <2>1, <2>2 DEF D!Init
<1>2. buffer \in Seq(Nat)
  <2>1. buffer = <<>> \/ buffer \in Seq(D!Byte)
    BY DEF D!Init, D!AdDataAssumption
  <2>2. CASE buffer = <<>>
    BY <2>2
  <2>3. CASE buffer \in Seq(D!Byte)
    BY <2>3, BytesAreNumbers
  <2> QED BY <2>1, <2>2, <2>3
<1>3. BufferOK
  <2>1. todo = items /\ pos = 0 /\ wanted \in {D!Known, D!Names, D!Known \ D!Names}
    BY DEF D!Init
  <2>2. D!Names \subseteq D!Known
    BY DEF D!Known
  <2> QED BY <1>1, <1>2, <2>1, <2>2 DEF BufferOK
<1>4. ParserOK
  BY DEF D!Init, ParserOK, Groups
<1> QED BY <1>3, <1>4 DEF AdInv

LEMMA LoopKeeps ==
    ASSUME AdInv, D!Loop
    PROVE  AdInv'
<1> DEFINE grouplen == D!At(pos)
           type == D!At(pos + 1)
           Stays == pos + grouplen > D!len \/ type \notin D!Known
           Leaves == D!ReadEnd(grouplen, type) > D!len
<1>1. /\ pc = "loop" /\ pos + 1 < D!len /\ D!len \in Nat /\ pos \in Nat
      /\ grouplen \in Nat /\ type \in Nat
      /\ UNCHANGED <<items, todo, buffer, wanted>>
  BY DEF D!Loop, AdInv, BufferOK, D!len, D!At
<1>2. \/ pc' = "false" /\ UNCHANGED pos
      \/ pc' = "outside" /\ UNCHANGED pos /\ ~Stays /\ Leaves
      \/ pc' = "loop" /\ pos' = pos + grouplen + 1
  <2>1. CASE Stays
    BY <2>1, <1>1 DEF D!Loop
  <2>2. CASE ~Stays /\ Leaves
    BY <2>2, <1>1 DEF D!Loop
  <2>3. CASE ~Stays /\ ~Leaves
    BY <2>3, <1>1 DEF D!Loop, D!NextGroup
  <2> QED BY <2>1, <2>2, <2>3
<1>3. BufferOK'
  BY <1>1, <1>2 DEF BufferOK, AdInv
<1>4. ASSUME NEW S \in SUBSET (0 .. D!len), Groups(S)
      PROVE  pc' # "outside" /\ pos' \in S
  <2>1. pos \in S \ {D!len}
    BY <1>1, <1>4 DEF AdInv, ParserOK
  <2>2. grouplen >= 1 /\ grouplen >= D!LeastLength(type) /\ pos + grouplen + 1 \in S
    BY <2>1, <1>4 DEF Groups
  <2>3. pos + grouplen + 1 <= D!len
    BY <2>2, <1>1
  <2>4. type \in D!Known => ~Leaves
    BY <2>2, <2>3, <1>1, ReadInGroup DEF AdInv
  <2> HIDE DEF grouplen, type, Leaves
  <2> QED BY <1>2, <2>1, <2>2, <2>4 DEF Stays
<1>5. D!len' = D!len /\ \A S : Groups(S)' <=> Groups(S)
  BY <1>1 DEF D!len, D!At, Groups
<1>6. ParserOK'
  BY <1>2, <1>4, <1>5 DEF ParserOK
<1> QED BY <1>3, <1>6 DEF AdInv

LEMMA NextAd ==
    ASSUME D!AdDataAssumption, AdInv, [D!Next]_(D!vars)
    PROVE  AdInv'
<1> USE DEF AdInv
<1>1. ASSUME BufferOK', UNCHANGED buffer, UNCHANGED pos, pc' # "outside",
             pc' = "true" => pos + 1 >= D!len, pc' \in {"put", "einval"} => pc = "put"
      PROVE  AdInv'
  <2>1. D!len' = D!len /\ \A S : Groups(S)' <=> Groups(S)
    BY <1>1 DEF D!len, D!At, Groups
  <2>2. ASSUME NEW S \in SUBSET (0 .. D!len), Groups(S), pos \in S, pos + 1 >= D!len
        PROVE  pos = D!len
    BY <2>2 DEF Groups, BufferOK, D!len
  <2> QED BY <1>1, <2>1, <2>2 DEF ParserOK
<1>2. CASE D!Put
  <2>1. BufferOK'
    <3>1. Head(todo) \in Items /\ todo' \in Seq(Items)
      BY <1>2 DEF D!Put, BufferOK
    <3>2. buffer' \in Seq(Nat)
      BY <1>2, <3>1, ItemIsWritten DEF D!Put, BufferOK
    <3> QED BY <1>2, <3>1, <3>2 DEF D!Put, BufferOK
  <2> QED BY <1>2, <2>1 DEF D!Put, ParserOK, Groups
<1>3. CASE D!PutInvalid \/ D!PutEnd
  BY <1>1, <1>3 DEF D!PutInvalid, D!PutEnd, BufferOK
<1>4. CASE D!First
  <2>1. BufferOK' /\ UNCHANGED <<buffer, pos>> /\ pc' \in {"outside", "false", "loop"}
        /\ (pc' = "outside" => D!len = 0)
    BY <1>4 DEF D!First, BufferOK, D!len
  <2>2. CASE pc' # "outside"
    BY <1>1, <2>1, <2>2
  <2>3. CASE pc' = "outside"
    BY <2>1, <2>3 DEF ParserOK, Groups, D!len
  <2> QED BY <2>2, <2>3
<1>5. CASE D!Loop
  BY <1>5, LoopKeeps
<1>6. CASE D!Return
  BY <1>1, <1>6 DEF D!Return, BufferOK
<1>7. CASE UNCHANGED D!vars
  <2>1. UNCHANGED <<buffer, pos, pc, wanted, items, todo>>
    BY <1>7 DEF D!vars
  <2> QED BY <2>1 DEF BufferOK, ParserOK, Groups, D!len, D!At
<1> QED BY <1>2, <1>3, <1>4, <1>5, <1>6, <1>7 DEF D!Next

LEMMA AdSuffices == AdInv => D!WellFormedIsRead
<1> SUFFICES ASSUME AdInv, D!WellFormed, D!Ended
             PROVE  pc # "outside" /\ (pc = "true" => pos = D!len)
  BY DEF D!WellFormedIsRead
<1>1. PICK S \in SUBSET (0 .. D!len) : Groups(S)
  BY DEF D!WellFormed, Groups
<1> QED BY <1>1 DEF AdInv, ParserOK

\* bci_ad_get() reads a buffer of complete AD structures inside its bounds, however
\* long, and to its end if it knows all types in it.
THEOREM WellFormedBuffersAreRead == ASSUME D!AdDataAssumption PROVE D!Spec => []D!WellFormedIsRead
<1>1. AdInv /\ [D!Next]_(D!vars) => AdInv'
  BY NextAd
<1> QED BY <1>1, InitAd, AdSuffices, PTL DEF D!Spec

-----------------------------------------------------------------------------
(* What is put is what is got, for items that survive the code's encoding:   *)
(* strncpy() ends at a NUL, and the upper octet of an appearance, u16 >> 1,  *)
(* read back with a shift of one, holds nine bits.                           *)

Representable ==
    \A item \in Items :
        /\ item.type \in D!Names => \A i \in 1 .. Len(item.value) : item.value[i] # 0
        /\ item.type = D!BCI_AD_GAP_APPEARANCE => item.value[1] < 512

Weights == {1, 2, 4, 8, 16, 32, 64, 128, 256}
Bit(k, w) == (k \div w) % 2

LEMMA BitsOfLow ==
    ASSUME NEW v \in 0 .. 511
    PROVE  /\ \A w \in Weights \ {256} : Bit(v % 256, w) = Bit(v, w)
           /\ Bit(v % 256, 256) = 0
BY DEF Bit, Weights

LEMMA BitsOfHigh ==
    ASSUME NEW v \in 0 .. 511
    PROVE  /\ \A w \in Weights \ {1} : Bit(2 * (v \div 2), w) = Bit(v, w)
           /\ Bit(2 * (v \div 2), 1) = 0
BY DEF Bit, Weights

LEMMA SumOfBits ==
    ASSUME NEW k \in 0 .. 511
    PROVE  k = Bit(k, 1) + 2 * Bit(k, 2) + 4 * Bit(k, 4) + 8 * Bit(k, 8) + 16 * Bit(k, 16)
             + 32 * Bit(k, 32) + 64 * Bit(k, 64) + 128 * Bit(k, 128) + 256 * Bit(k, 256)
<1> DEFINE half(w) == k \div w
<1>1. half(1) = k /\ half(512) = 0 /\ \A w \in Weights : half(w) \in Int
  BY DEF Weights
<1>2. half(1) = Bit(k, 1) + 2 * half(2) /\ Bit(k, 1) \in Int
  BY DEF Bit
<1>3. half(2) = Bit(k, 2) + 2 * half(4) /\ Bit(k, 2) \in Int
  BY DEF Bit
<1>4. half(4) = Bit(k, 4) + 2 * half(8) /\ Bit(k, 4) \in Int
  BY DEF Bit
<1>5. half(8) = Bit(k, 8) + 2 * half(16) /\ Bit(k, 8) \in Int
  BY DEF Bit
<1>6. half(16) = Bit(k, 16) + 2 * half(32) /\ Bit(k, 16) \in Int
  BY DEF Bit
<1>7. half(32) = Bit(k, 32) + 2 * half(64) /\ Bit(k, 32) \in Int
  BY DEF Bit
<1>8. half(64) = Bit(k, 64) + 2 * half(128) /\ Bit(k, 64) \in Int
  BY DEF Bit
<1>9. half(128) = Bit(k, 128) + 2 * half(256) /\ Bit(k, 128) \in Int
  BY DEF Bit
<1>10. half(256) = Bit(k, 256) + 2 * half(512) /\ Bit(k, 256) \in Int
  BY DEF Bit
<1> HIDE DEF half
<1> QED
  BY <1>1, <1>2, <1>3, <1>4, <1>5, <1>6, <1>7, <1>8, <1>9, <1>10 DEF Weights

LEMMA BitOf ==
    ASSUME NEW k \in Int, NEW w \in Weights
    PROVE  /\ Bit(k, w) \in {0, 1}
           /\ w \in D!Bits(k) <=> Bit(k, w) = 1
BY DEF D!Bits, Bit, Weights

LEMMA BitsDetermine ==
    ASSUME NEW k \in 0 .. 511, NEW m \in 0 .. 511, D!Bits(k) = D!Bits(m)
    PROVE  k = m
<1>1. k \in Int /\ m \in Int
  OBVIOUS
<1>2. \A w \in Weights : Bit(k, w) = Bit(m, w)
  BY <1>1, BitOf
<1>3. /\ Bit(k, 1) = Bit(m, 1) /\ Bit(k, 2) = Bit(m, 2) /\ Bit(k, 4) = Bit(m, 4)
      /\ Bit(k, 8) = Bit(m, 8) /\ Bit(k, 16) = Bit(m, 16) /\ Bit(k, 32) = Bit(m, 32)
      /\ Bit(k, 64) = Bit(m, 64) /\ Bit(k, 128) = Bit(m, 128) /\ Bit(k, 256) = Bit(m, 256)
  BY <1>2 DEF Weights
<1> QED BY <1>3, SumOfBits

\* The two octets of an appearance of nine bits make it again.
LEMMA AppearanceSurvives ==
    ASSUME NEW v \in 0 .. 511
    PROVE  D!Or(v % 256, 2 * ((v \div 2) % 256)) = v
<1> DEFINE low == v % 256
           high == 2 * ((v \div 2) % 256)
<1>1. low \in Int /\ high \in Int /\ low = v % 256 /\ high = 2 * (v \div 2)
  OBVIOUS
<1> HIDE DEF low, high
<1>2. D!Bits(v) = D!Bits(low) \cup D!Bits(high)
  <2>1. \A w \in Weights : Bit(v, w) = 1 <=> Bit(low, w) = 1 \/ Bit(high, w) = 1
    <3>1. \A w \in Weights \ {256} : Bit(low, w) = Bit(v, w)
      BY <1>1, BitsOfLow
    <3>2. Bit(low, 256) = 0
      BY <1>1, BitsOfLow
    <3>3. \A w \in Weights \ {1} : Bit(high, w) = Bit(v, w)
      BY <1>1, BitsOfHigh
    <3>4. Bit(high, 1) = 0
      BY <1>1, BitsOfHigh
    <3> QED BY <3>1, <3>2, <3>3, <3>4
  <2>2. \A k \in Int : D!Bits(k) \subseteq Weights
    BY DEF D!Bits, Weights
  <2> QED BY <1>1, <2>1, <2>2, BitOf
<1>3. ASSUME NEW k \in 0 .. 511, D!Bits(k) = D!Bits(low) \cup D!Bits(high)
      PROVE  k = v
  BY <1>2, <1>3, BitsDetermine
<1>4. D!Or(low, high) = v
  BY <1>2, <1>3 DEF D!Or
<1> QED BY <1>4 DEF low, high

\* The item is written in octets, behind the first `from` of them.
WrittenAt(octets, from, to, item) ==
    LET body == D!Body(item) IN
    /\ item.type \in D!Known
    /\ to = from + Len(body) + 2 /\ to <= Len(octets)
    /\ octets[from + 1] = Len(body) + 1 /\ octets[from + 2] = item.type
    /\ \A m \in 1 .. Len(body) : octets[from + 2 + m] = body[m]

\* bci_ad_put() has written the first k items, the one with number i behind off[i].
Written(off, k) ==
    /\ off[1] = 0 /\ off[k + 1] = Len(buffer)
    /\ \A i \in 1 .. k : WrittenAt(buffer, off[i], off[i + 1], items[i])

\* bci_ad_get() has found what it should among the first j - 1 groups.
Newest(t, i, j) == /\ i \in 1 .. j - 1 /\ items[i].type = t
                   /\ \A m \in i + 1 .. j - 1 : items[m].type # t

FoundOK(j) ==
    /\ DOMAIN found = {items[i].type : i \in 1 .. j - 1} \cap wanted
    /\ \A t \in DOMAIN found : \E i \in 1 .. j - 1 :
            Newest(t, i, j) /\ found[t] = items[i].value

Parsed(off) ==
    /\ pc \in {"put", "get"} => pos = 0 /\ FoundOK(1)
    /\ pc \in {"loop", "true"} =>
        \E j \in 1 .. Len(items) + 1 :
            /\ pos = off[j] /\ FoundOK(j) /\ (pc = "true" => j = Len(items) + 1)

NumberPut == Len(items) - Len(todo)

PutOK ==
    /\ items \in Seq(Items) /\ NumberPut >= 0
    /\ \A m \in 1 .. Len(todo) : todo[m] = items[NumberPut + m]
    /\ items # <<>> => pc \in {"put", "get", "loop", "true", "einval"}
    /\ pc \in {"get", "loop", "true"} => todo = <<>>

TripOK ==
    items # <<>> /\ pc # "einval" =>
        \E off \in [Nat -> Nat] : Written(off, NumberPut) /\ Parsed(off)

TripInv == BufferOK /\ PutOK /\ TripOK

LEMMA InitTrip == D!AdDataAssumption /\ D!Init => TripInv
<1> SUFFICES ASSUME D!AdDataAssumption, D!Init PROVE TripInv
  OBVIOUS
<1>1. BufferOK
  BY InitAd DEF AdInv
<1>2. items \in Seq(Items) /\ todo = items
  BY <1>1 DEF BufferOK, D!Init
<1>3. NumberPut = 0
  BY <1>2 DEF NumberPut
<1>4. PutOK
  BY <1>2, <1>3 DEF PutOK, D!Init
<1>5. ASSUME items # <<>> PROVE Written([x \in Nat |-> 0], 0) /\ Parsed([x \in Nat |-> 0])
  <2>1. buffer = <<>> /\ pc = "put" /\ pos = 0 /\ found = [t \in {} |-> 0]
    BY <1>5 DEF D!Init
  <2>2. FoundOK(1)
    BY <2>1 DEF FoundOK
  <2>3. Written([x \in Nat |-> 0], 0)
    BY <2>1 DEF Written
  <2> QED BY <2>1, <2>2, <2>3 DEF Parsed
<1>6. TripOK
  BY <1>3, <1>5 DEF TripOK
<1> QED BY <1>1, <1>4, <1>6 DEF TripInv

\* What Put appends.
LEMMA EncodedIs ==
    ASSUME D!AdDataAssumption, NEW item \in Items
    PROVE  LET body == D!Body(item)
               octets == D!Encode(item.type, body)
           IN  /\ Len(body) \in Nat /\ octets \in Seq(Nat) /\ Len(octets) = Len(body) + 2
               /\ octets[1] = Len(body) + 1 /\ octets[2] = item.type
               /\ \A m \in 1 .. Len(body) : octets[m + 2] = body[m]
<1> DEFINE body == D!Body(item)
           head == <<Len(body) + 1, item.type>>
<1>1. item.type \in Nat
  BY ByteFacts DEF D!AdDataAssumption
<1>2. body \in Seq(D!Byte)
  BY BodyIsBytes
<1> HIDE DEF body
<1>3. body \in Seq(Nat) /\ Len(body) \in Nat
  BY <1>2, BytesAreNumbers
<1>4. head \in Seq(Nat) /\ Len(head) = 2 /\ head[1] = Len(body) + 1 /\ head[2] = item.type
  BY <1>1, <1>3
<1> HIDE DEF head
<1>5. /\ head \o body \in Seq(Nat) /\ Len(head \o body) = Len(body) + 2
      /\ \A m \in 1 .. Len(body) + 2 :
            (head \o body)[m] = IF m <= 2 THEN head[m] ELSE body[m - 2]
  <2>1. /\ head \o body \in Seq(Nat) /\ Len(head \o body) = Len(head) + Len(body)
        /\ \A m \in 1 .. Len(head) + Len(body) :
              (head \o body)[m] = IF m <= Len(head) THEN head[m] ELSE body[m - Len(head)]
    BY <1>3, <1>4, ConcatProperties
  <2> QED BY <1>3, <1>4, <2>1
<1>6. D!Encode(item.type, body) = head \o body
  BY DEF D!Encode, head
<1>7. \A m \in 1 .. Len(body) : (head \o body)[m + 2] = body[m]
  BY <1>3, <1>5
<1> QED BY <1>3, <1>4, <1>5, <1>6, <1>7 DEF body

LEMMA AppendedIs ==
    ASSUME NEW s \in Seq(Nat), NEW t \in Seq(Nat)
    PROVE  /\ Len(s) \in Nat /\ Len(t) \in Nat /\ s \o t \in Seq(Nat)
           /\ Len(s \o t) = Len(s) + Len(t)
           /\ \A m \in 1 .. Len(s) : (s \o t)[m] = s[m]
           /\ \A m \in 1 .. Len(t) : (s \o t)[Len(s) + m] = t[m]
<1>1. Len(s) \in Nat /\ Len(t) \in Nat
  OBVIOUS
<1>2. /\ s \o t \in Seq(Nat) /\ Len(s \o t) = Len(s) + Len(t)
      /\ \A m \in 1 .. Len(s) + Len(t) :
            (s \o t)[m] = IF m <= Len(s) THEN s[m] ELSE t[m - Len(s)]
  BY ConcatProperties
<1> QED BY <1>1, <1>2

\* What has been written stays.
LEMMA WrittenStays ==
    ASSUME D!AdDataAssumption, NEW s \in Seq(Nat), NEW t \in Seq(Nat),
           NEW from \in Nat, NEW to \in Nat, NEW item \in Items, WrittenAt(s, from, to, item)
    PROVE  WrittenAt(s \o t, from, to, item)
<1> DEFINE body == D!Body(item)
           u == s \o t
<1>1. Len(body) \in Nat
  BY EncodedIs
<1>2. /\ item.type \in D!Known
      /\ to = from + Len(body) + 2 /\ to <= Len(s)
      /\ s[from + 1] = Len(body) + 1 /\ s[from + 2] = item.type
      /\ \A m \in 1 .. Len(body) : s[from + 2 + m] = body[m]
  BY DEF WrittenAt
<1>3. Len(s) \in Nat /\ Len(u) \in Nat /\ Len(s) <= Len(u) /\ \A m \in 1 .. Len(s) : u[m] = s[m]
  BY AppendedIs
<1> HIDE DEF body, u
<1>4. /\ to <= Len(u) /\ u[from + 1] = s[from + 1] /\ u[from + 2] = s[from + 2]
  BY <1>1, <1>2, <1>3
<1>5. \A m \in 1 .. Len(body) : u[from + 2 + m] = body[m]
  BY <1>1, <1>2, <1>3
<1> QED BY <1>2, <1>4, <1>5 DEF WrittenAt, body, u

LEMMA WrittenLast ==
    ASSUME D!AdDataAssumption, NEW s \in Seq(Nat), NEW item \in Items, item.type \in D!Known
    PROVE  LET u == s \o D!Encode(item.type, D!Body(item))
           IN  WrittenAt(u, Len(s), Len(u), item)
<1> DEFINE body == D!Body(item)
           octets == D!Encode(item.type, body)
           u == s \o octets
<1>1. /\ Len(body) \in Nat /\ octets \in Seq(Nat) /\ Len(octets) = Len(body) + 2
      /\ octets[1] = Len(body) + 1 /\ octets[2] = item.type
      /\ \A m \in 1 .. Len(body) : octets[m + 2] = body[m]
  BY EncodedIs
<1> HIDE DEF body, octets
<1>2. /\ Len(s) \in Nat /\ Len(u) = Len(s) + Len(octets)
      /\ \A m \in 1 .. Len(octets) : u[Len(s) + m] = octets[m]
  BY <1>1, AppendedIs
<1> HIDE DEF u
<1>3. u[Len(s) + 1] = Len(body) + 1 /\ u[Len(s) + 2] = item.type /\ Len(u) = Len(s) + Len(body) + 2
  BY <1>1, <1>2
<1>4. \A m \in 1 .. Len(body) : u[Len(s) + 2 + m] = body[m]
  <2> TAKE m \in 1 .. Len(body)
  <2>1. m + 2 \in 1 .. Len(octets) /\ octets[m + 2] = body[m]
    BY <1>1
  <2>2. u[Len(s) + (m + 2)] = octets[m + 2]
    BY <1>2, <2>1
  <2>3. Len(s) + (m + 2) = Len(s) + 2 + m
    BY <1>1, <1>2
  <2> QED BY <2>1, <2>2, <2>3
<1>5. Len(u) <= Len(u)
  BY <1>1, <1>3, <1>2
<1> QED BY <1>3, <1>4, <1>5 DEF WrittenAt, body, octets, u

LEMMA PutTrips ==
    ASSUME D!AdDataAssumption, TripInv, D!Put
    PROVE  TripInv'
<1> DEFINE item == Head(todo)
           octets == D!Encode(item.type, D!Body(item))
           k == NumberPut
<1>1. /\ pc = "put" /\ todo # <<>> /\ item.type \in D!Known
      /\ buffer' = buffer \o octets /\ todo' = Tail(todo)
      /\ UNCHANGED <<items, wanted, found, pos, pc>>
  BY DEF D!Put
<1>2. BufferOK /\ PutOK /\ buffer \in Seq(Nat) /\ todo \in Seq(Items) /\ items \in Seq(Items)
  BY DEF TripInv, BufferOK
<1>3. /\ item \in Items /\ Len(todo) \in Nat \ {0} /\ Len(todo') = Len(todo) - 1
      /\ todo' \in Seq(Items) /\ \A m \in 1 .. Len(todo') : todo'[m] = todo[m + 1]
  BY <1>1, <1>2
<1>4. /\ k \in Nat /\ k < Len(items) /\ NumberPut' = k + 1 /\ item = items[k + 1]
      /\ Len(items) \in Nat
  <2>1. item = todo[1] /\ 1 \in 1 .. Len(todo)
    BY <1>1, <1>2, <1>3
  <2> QED BY <1>1, <1>2, <1>3, <2>1 DEF PutOK, NumberPut
<1>5. octets \in Seq(Nat)
  BY <1>3, EncodedIs
<1>6. WrittenAt(buffer', Len(buffer), Len(buffer'), item)
  BY <1>1, <1>2, <1>3, WrittenLast
<1> HIDE DEF item, octets, k
<1>7. buffer' \in Seq(Nat) /\ Len(buffer') \in Nat
  <2>1. buffer \o octets \in Seq(Nat) /\ Len(buffer \o octets) \in Nat
    BY <1>2, <1>5, AppendedIs
  <2> QED BY <1>1, <2>1
<1>8. BufferOK'
  BY <1>1, <1>2, <1>3, <1>7 DEF BufferOK
<1>9. PutOK'
  <2>1. \A m \in 1 .. Len(todo') : todo'[m] = items[k + 1 + m]
    <3> TAKE m \in 1 .. Len(todo')
    <3>1. m + 1 \in 1 .. Len(todo) /\ todo'[m] = todo[m + 1]
      BY <1>3
    <3>2. todo[m + 1] = items[k + (m + 1)]
      BY <1>2, <3>1 DEF PutOK, k
    <3> QED BY <1>4, <3>1, <3>2
  <2> QED BY <1>1, <1>2, <1>3, <1>4, <2>1 DEF PutOK
<1>10. ASSUME items # <<>>, NEW off \in [Nat -> Nat], Written(off, k), Parsed(off)
      PROVE  \E on \in [Nat -> Nat] : Written(on, NumberPut)' /\ Parsed(on)'
  <2>1. PICK on \in [Nat -> Nat] :
            on[k + 2] = Len(buffer') /\ \A x \in 1 .. k + 1 : on[x] = off[x]
    <3> DEFINE n1 == Len(buffer')
               on == [off EXCEPT ![k + 2] = n1]
    <3>1. n1 \in Nat
      BY <1>7
    <3> HIDE DEF n1
    <3>2. k \in Nat
      BY <1>4
    <3>3. k + 2 \in Nat
      BY <3>2
    <3>4. off \in [Nat -> Nat]
      OBVIOUS
    <3>5. on \in [Nat -> Nat] /\ on[k + 2] = n1 /\ \A x \in 1 .. k + 1 : on[x] = off[x]
      BY <3>1, <3>2, <3>3, <3>4
    <3> QED BY <3>5 DEF n1
  <2>2. /\ off[1] = 0 /\ off[k + 1] = Len(buffer)
        /\ \A i \in 1 .. k : WrittenAt(buffer, off[i], off[i + 1], items[i])
    BY <1>10 DEF Written
  <2>3. ASSUME NEW i \in 1 .. k PROVE WrittenAt(buffer', on[i], on[i + 1], items[i])
    <3>1. i \in Nat /\ i + 1 \in Nat /\ i \in 1 .. Len(items) /\ i \in 1 .. k + 1
          /\ i + 1 \in 1 .. k + 1
      BY <1>4
    <3>2. items[i] \in Items
      BY <1>2, <3>1, ElementOfSeq
    <3>3. WrittenAt(buffer, off[i], off[i + 1], items[i])
      BY <2>2
    <3>4. off[i] \in Nat /\ off[i + 1] \in Nat
      BY <3>1
    <3>5. WrittenAt(buffer \o octets, off[i], off[i + 1], items[i])
      BY <1>2, <1>5, <3>2, <3>3, <3>4, WrittenStays
    <3> QED BY <1>1, <2>1, <3>1, <3>5
  <2>4. WrittenAt(buffer', on[k + 1], on[(k + 1) + 1], items[k + 1])
    <3>1. on[k + 1] = Len(buffer) /\ (k + 1) + 1 = k + 2
      BY <1>4, <2>1, <2>2
    <3> QED BY <1>4, <1>6, <2>1, <3>1
  <2>5. Written(on, NumberPut)'
    <3>1. \A i \in 1 .. k + 1 : WrittenAt(buffer', on[i], on[i + 1], items[i])
      <4> TAKE i \in 1 .. k + 1
      <4>1. i \in 1 .. k \/ i = k + 1
        BY <1>4
      <4> QED BY <2>3, <2>4, <4>1
    <3>2. on[1] = 0 /\ on[(k + 1) + 1] = Len(buffer')
      BY <1>4, <2>1, <2>2
    <3> QED BY <1>1, <1>4, <3>1, <3>2 DEF Written
  <2>6. Parsed(on)'
    <3>1. pos = 0 /\ FoundOK(1)
      BY <1>1, <1>10 DEF Parsed
    <3>2. FoundOK(1)'
      BY <1>1, <3>1 DEF FoundOK, Newest
    <3> QED BY <1>1, <3>1, <3>2 DEF Parsed
  <2> QED BY <2>1, <2>5, <2>6
<1>11. TripOK'
  BY <1>1, <1>4, <1>10 DEF TripOK, TripInv, k
<1> QED BY <1>8, <1>9, <1>11 DEF TripInv

LEMMA OneElement ==
    ASSUME NEW T, NEW s \in Seq(T), Len(s) = 1 PROVE s[1] \in T /\ s = <<s[1]>>
OBVIOUS

\* Of a group of a known type: what is read, and what is stored.
LEMMA WhatIsRead ==
    ASSUME NEW grouplen, NEW type \in D!Known
    PROVE  /\ type \notin wanted => D!ReadEnd(grouplen, type) = pos + 2
           /\ type \in wanted =>
                /\ type \in D!Octets => D!ReadEnd(grouplen, type) = pos + 3
                /\ type = D!BCI_AD_GAP_APPEARANCE => D!ReadEnd(grouplen, type) = pos + 4
                /\ type \in D!Names => D!ReadEnd(grouplen, type) = D!CopyEnd(grouplen)
                /\ type \notin D!Octets \cup D!Names \cup {D!BCI_AD_GAP_APPEARANCE}
                    /\ grouplen # 0 => D!ReadEnd(grouplen, type) = pos + grouplen + 1
           /\ type \in D!Octets => D!Value(grouplen, type) = <<D!At(pos + 2)>>
           /\ type = D!BCI_AD_GAP_APPEARANCE =>
                D!Value(grouplen, type) = <<D!Or(D!At(pos + 2), 2 * D!At(pos + 3))>>
           /\ type \notin D!Octets \cup {D!BCI_AD_GAP_APPEARANCE} =>
                D!Value(grouplen, type) =
                    SubSeq(buffer, pos + 3, D!ReadEnd(grouplen, type))
<1>1. type \in {1, 8, 9, 10, 25, 255}
  BY NumbersOfAd
<1>2. type \notin wanted => D!ReadEnd(grouplen, type) = pos + 2
  BY <1>1, NumbersOfAd DEF D!ReadEnd
<1>3. type \in wanted /\ type \in D!Octets => D!ReadEnd(grouplen, type) = pos + 3
  BY <1>1, NumbersOfAd DEF D!ReadEnd
<1>4. type \in wanted /\ type = D!BCI_AD_GAP_APPEARANCE => D!ReadEnd(grouplen, type) = pos + 4
  BY <1>1, NumbersOfAd DEF D!ReadEnd
<1>5. type \in wanted /\ type \in D!Names => D!ReadEnd(grouplen, type) = D!CopyEnd(grouplen)
  BY <1>1, NumbersOfAd DEF D!ReadEnd
<1>6. type \in wanted /\ type \notin D!Octets \cup D!Names \cup {D!BCI_AD_GAP_APPEARANCE}
        /\ grouplen # 0 => D!ReadEnd(grouplen, type) = pos + grouplen + 1
  BY <1>1, NumbersOfAd DEF D!ReadEnd
<1>7. type \in D!Octets => D!Value(grouplen, type) = <<D!At(pos + 2)>>
  BY <1>1, NumbersOfAd DEF D!Value
<1>8. type = D!BCI_AD_GAP_APPEARANCE =>
        D!Value(grouplen, type) = <<D!Or(D!At(pos + 2), 2 * D!At(pos + 3))>>
  BY <1>1, NumbersOfAd DEF D!Value
<1>9. type \notin D!Octets \cup {D!BCI_AD_GAP_APPEARANCE} =>
        D!Value(grouplen, type) = SubSeq(buffer, pos + 3, D!ReadEnd(grouplen, type))
  BY <1>1, NumbersOfAd DEF D!Value
<1> QED BY <1>2, <1>3, <1>4, <1>5, <1>6, <1>7, <1>8, <1>9

\* bci_ad_get() stores of a group what was put.
LEMMA ValueIsPut ==
    ASSUME D!AdDataAssumption, Representable, BufferOK,
           NEW item \in Items, NEW to \in Nat, WrittenAt(buffer, pos, to, item)
    PROVE  LET grouplen == D!At(pos)
           IN  /\ grouplen = Len(D!Body(item)) + 1 /\ D!At(pos + 1) = item.type
               /\ D!ReadEnd(grouplen, item.type) \in Int
               /\ D!ReadEnd(grouplen, item.type) <= D!len
               /\ item.type \in wanted => D!Value(grouplen, item.type) = item.value
<1> DEFINE body == D!Body(item)
           value == item.value
           grouplen == D!At(pos)
<1>1. /\ item.type \in D!Known /\ to = pos + Len(body) + 2 /\ to <= Len(buffer)
      /\ buffer[pos + 1] = Len(body) + 1 /\ buffer[pos + 2] = item.type
      /\ \A m \in 1 .. Len(body) : buffer[pos + 2 + m] = body[m]
  BY DEF WrittenAt
<1>2. body \in Seq(D!Byte) /\ Len(body) \in Nat /\ pos \in Nat /\ Len(buffer) \in Nat
      /\ buffer \in Seq(Nat)
  BY BodyIsBytes, EncodedIs DEF BufferOK
<1>3. grouplen = Len(body) + 1 /\ D!At(pos + 1) = item.type
  <2>1. (pos + 1) + 1 = pos + 2
    BY <1>2
  <2> QED BY <1>1, <2>1 DEF D!At
<1>4. CASE item.type = D!BCI_AD_GAP_APPEARANCE
  <2>1. value \in Seq(D!Short) /\ Len(value) = 1 /\ value[1] < 512
    BY <1>4 DEF D!AdDataAssumption, Representable
  <2>2. body = <<value[1] % 256, (value[1] \div 2) % 256>>
    BY <1>4 DEF D!Body
  <2> HIDE DEF value, body, grouplen
  <2>3. value[1] \in D!Short /\ value = <<value[1]>>
    BY <2>1, OneElement
  <2> DEFINE u16 == value[1]
  <2>4. u16 \in 0 .. 511
    <3>1. u16 \in Nat
      BY <2>3, ByteFacts
    <3>2. u16 < 512
      BY <2>1
    <3> HIDE DEF u16
    <3> QED BY <3>1, <3>2
  <2> HIDE DEF u16
  <2>5. Len(body) = 2 /\ body[1] = u16 % 256 /\ body[2] = (u16 \div 2) % 256
    BY <2>2 DEF u16
  <2>6. D!At(pos + 2) = u16 % 256 /\ D!At(pos + 3) = (u16 \div 2) % 256
    <3>1. buffer[pos + 2 + 1] = body[1] /\ buffer[pos + 2 + 2] = body[2]
      BY <1>1, <2>5
    <3>2. (pos + 2) + 1 = pos + 2 + 1 /\ (pos + 3) + 1 = pos + 2 + 2
      BY <1>2
    <3> QED BY <2>5, <3>1, <3>2 DEF D!At
  <2>7. D!Value(grouplen, item.type) = <<u16>>
    <3>1. D!Value(grouplen, item.type) = <<D!Or(D!At(pos + 2), 2 * D!At(pos + 3))>>
      BY <1>1, <1>4, WhatIsRead
    <3>2. D!Or(u16 % 256, 2 * ((u16 \div 2) % 256)) = u16
      BY <2>4, AppearanceSurvives
    <3> QED BY <2>6, <3>1, <3>2
  <2>8. D!ReadEnd(grouplen, item.type) \in Int /\ D!ReadEnd(grouplen, item.type) <= D!len
    <3>1. item.type \notin D!Octets /\ item.type \notin D!Names
      BY <1>4, NumbersOfAd
    <3>2. pos + 4 <= Len(buffer) /\ pos + 2 <= Len(buffer)
      BY <1>1, <1>2, <2>5
    <3>3. D!ReadEnd(grouplen, item.type) \in {pos + 2, pos + 4}
      BY <1>1, <1>4, WhatIsRead
    <3> QED BY <1>2, <3>2, <3>3 DEF D!len
  <2> QED BY <1>3, <2>3, <2>7, <2>8 DEF value, u16, body, grouplen
<1>5. CASE item.type # D!BCI_AD_GAP_APPEARANCE
  <2>1. value \in Seq(D!Byte) /\ body = value
    BY <1>5 DEF D!AdDataAssumption, D!Body
  <2>2. item.type \in D!Octets => Len(value) = 1
    BY DEF D!AdDataAssumption
  <2>3. item.type \in D!Names => \A m \in 1 .. Len(value) : value[m] # 0
    BY DEF Representable
  <2> HIDE DEF value, body, grouplen
  <2>4. CASE item.type \in D!Octets
    <3>1. Len(value) = 1 /\ value = <<value[1]>>
      BY <2>1, <2>2, <2>4, OneElement
    <3>2. D!At(pos + 2) = value[1]
      <4>1. buffer[pos + 2 + 1] = body[1]
        BY <1>1, <2>1, <3>1
      <4>2. (pos + 2) + 1 = pos + 2 + 1
        BY <1>2
      <4> QED BY <2>1, <4>1, <4>2 DEF D!At
    <3>3. D!Value(grouplen, item.type) = <<value[1]>>
      BY <1>5, <2>4, <3>2 DEF D!Value
    <3>4. pos + 3 <= Len(buffer) /\ pos + 2 <= Len(buffer)
      BY <1>1, <1>2, <2>1, <3>1
    <3>5. D!ReadEnd(grouplen, item.type) \in {pos + 2, pos + 3}
      BY <1>1, <2>4, WhatIsRead
    <3>6. D!ReadEnd(grouplen, item.type) \in Int /\ D!ReadEnd(grouplen, item.type) <= D!len
      BY <1>2, <3>4, <3>5 DEF D!len
    <3> QED BY <1>3, <3>1, <3>3, <3>6 DEF value, body, grouplen
  <2>5. CASE item.type \notin D!Octets
    <3> DEFINE limit == pos + grouplen + 1
    <3>1. D!CopyEnd(grouplen) = limit \/ item.type \notin D!Names
      <4> SUFFICES ASSUME item.type \in D!Names PROVE D!CopyEnd(grouplen) = limit
        OBVIOUS
      <4> DEFINE nuls == {i \in pos + 2 .. D!len - 1 : D!At(i) = 0}
      <4>1. nuls \subseteq Nat /\ D!len \in Nat
        BY <1>2 DEF D!len
      <4>2. ASSUME NEW i \in nuls PROVE i >= limit
        <5> SUFFICES ASSUME i < limit PROVE FALSE
          BY <1>2, <1>3, <4>1
        <5>1. i \in Nat /\ pos + 2 <= i /\ buffer[i + 1] = 0
          BY <1>2, <4>1 DEF D!At
        <5> DEFINE m == i - pos - 1
        <5>2. m \in 1 .. Len(body) /\ pos + 2 + m = i + 1
          BY <1>2, <1>3, <5>1
        <5> HIDE DEF m
        <5>3. buffer[i + 1] = body[m] /\ body[m] # 0
          BY <1>1, <2>1, <2>3, <5>2
        <5> QED BY <5>1, <5>3
      <4>3. nuls # {} => D!Min(nuls) \in nuls
        <5> HIDE DEF nuls
        <5> QED BY <4>1, MinIsLeast
      <4>4. D!CopyEnd(grouplen) = IF nuls = {} \/ D!Min(nuls) >= limit THEN limit
                                  ELSE D!Min(nuls) + 1
        BY <1>2, <1>3 DEF D!CopyEnd
      <4> HIDE DEF nuls
      <4> QED BY <4>2, <4>3, <4>4
    <3>2. grouplen # 0
      BY <1>2, <1>3
    <3>3. D!ReadEnd(grouplen, item.type) = IF item.type \in wanted THEN limit ELSE pos + 2
      BY <1>1, <1>5, <2>5, <3>1, <3>2, WhatIsRead
    <3>4. limit <= Len(buffer) /\ pos + 2 <= Len(buffer) /\ limit - (pos + 3) + 1 = Len(body)
          /\ limit \in Int
      BY <1>1, <1>2, <1>3
    <3>5. D!ReadEnd(grouplen, item.type) \in Int /\ D!ReadEnd(grouplen, item.type) <= D!len
      BY <1>2, <3>3, <3>4 DEF D!len
    <3>6. SubSeq(buffer, pos + 3, limit) = body
      <4> DEFINE part == SubSeq(buffer, pos + 3, limit)
      <4>1. ASSUME NEW m \in pos + 3 .. limit PROVE buffer[m] \in Nat
        <5>1. m \in 1 .. Len(buffer)
          BY <1>2, <3>4
        <5> QED BY <1>2, <5>1, ElementOfSeq
      <4>2. part \in Seq(Nat) /\ Len(part) = Len(body)
        BY <1>2, <3>4, <4>1, SubSeqProperties
      <4>3. \A m \in 1 .. Len(body) : part[m] = body[m]
        <5> TAKE m \in 1 .. Len(body)
        <5>1. part[m] = buffer[(pos + 3) + m - 1]
          BY <1>2, <3>4, <4>1, SubSeqProperties
        <5>2. (pos + 3) + m - 1 = pos + 2 + m
          BY <1>2
        <5> QED BY <1>1, <5>1, <5>2
      <4>4. body \in Seq(Nat)
        BY <1>2, BytesAreNumbers
      <4> HIDE DEF part
      <4>5. part = body
        BY <4>2, <4>3, <4>4, SeqEqual
      <4> QED BY <4>5 DEF part
    <3>7. item.type \in wanted => D!Value(grouplen, item.type) = value
      BY <1>5, <2>1, <2>5, <3>3, <3>6 DEF D!Value
    <3> QED BY <1>3, <3>5, <3>7 DEF value, body, grouplen
  <2> QED BY <2>4, <2>5
<1> QED BY <1>4, <1>5


LEMMA FoundGrows ==
    ASSUME items \in Seq(Items), NEW j \in 1 .. Len(items), FoundOK(j),
           UNCHANGED <<items, wanted>>,
           found' = IF items[j].type \in wanted
                    THEN [t \in DOMAIN found \cup {items[j].type} |->
                            IF t = items[j].type THEN items[j].value ELSE found[t]]
                    ELSE found
    PROVE  FoundOK(j + 1)'
<1> DEFINE type == items[j].type
<1>1. j \in Nat /\ j \in 1 .. j /\ 1 .. (j + 1) - 1 = 1 .. j /\ 1 .. j = (1 .. j - 1) \cup {j}
  OBVIOUS
<1>2. /\ DOMAIN found = {items[i].type : i \in 1 .. j - 1} \cap wanted
      /\ \A t \in DOMAIN found : \E i \in 1 .. j - 1 :
            Newest(t, i, j) /\ found[t] = items[i].value
  BY DEF FoundOK
<1>3. DOMAIN found' = {items[i].type : i \in 1 .. j} \cap wanted
  <2>1. {items[i].type : i \in 1 .. j} = {items[i].type : i \in 1 .. j - 1} \cup {type}
    BY <1>1
  <2>2. CASE type \in wanted
    <3>1. DOMAIN found' = DOMAIN found \cup {type}
      BY <2>2
    <3> QED BY <1>2, <2>1, <2>2, <3>1
  <2>3. CASE type \notin wanted
    BY <1>2, <2>1, <2>3
  <2> QED BY <2>2, <2>3
<1>4. ASSUME NEW t \in DOMAIN found'
      PROVE  \E i \in 1 .. j : Newest(t, i, j + 1) /\ found'[t] = items[i].value
  <2>1. CASE t = type
    <3>1. Newest(t, j, j + 1)
      BY <1>1, <2>1 DEF Newest
    <3>2. found'[t] = items[j].value
      <4>1. type \in wanted
        BY <1>3, <2>1
      <4> QED BY <2>1, <4>1
    <3> QED BY <1>1, <3>1, <3>2
  <2>2. CASE t # type
    <3>1. t \in DOMAIN found /\ found'[t] = found[t]
      BY <2>2
    <3>2. PICK i \in 1 .. j - 1 : Newest(t, i, j) /\ found[t] = items[i].value
      BY <1>2, <3>1
    <3>3. Newest(t, i, j + 1)
      <4>1. \A m \in i + 1 .. (j + 1) - 1 : m \in i + 1 .. j - 1 \/ m = j
        BY <1>1, <3>2
      <4> QED BY <1>1, <2>2, <3>2, <4>1 DEF Newest
    <3> QED BY <1>1, <3>1, <3>2, <3>3
  <2> QED BY <2>1, <2>2
<1>5. \A t, i : Newest(t, i, j + 1)' <=> Newest(t, i, j + 1)
  BY DEF Newest
<1>6. (1 .. (j + 1) - 1) = 1 .. j
  OBVIOUS
<1>7. items' = items /\ wanted' = wanted
  OBVIOUS
<1>8. DOMAIN found' = {items'[i].type : i \in 1 .. (j + 1) - 1} \cap wanted'
  BY <1>3, <1>6, <1>7
<1>9. \A t \in DOMAIN found' : \E i \in 1 .. (j + 1) - 1 :
            Newest(t, i, j + 1)' /\ found'[t] = items'[i].value
  <2> TAKE t \in DOMAIN found'
  <2>1. PICK i \in 1 .. j : Newest(t, i, j + 1) /\ found'[t] = items[i].value
    BY <1>4
  <2>2. i \in 1 .. (j + 1) - 1 /\ Newest(t, i, j + 1)' /\ found'[t] = items'[i].value
    BY <1>5, <1>6, <1>7, <2>1
  <2> QED BY <2>2
<1> QED BY <1>8, <1>9 DEF FoundOK

LEMMA NotTheLast ==
    ASSUME NEW a \in Nat, NEW b \in 1 .. a + 1, b # a + 1 PROVE b \in 1 .. a
OBVIOUS

LEMMA LoopTrips ==
    ASSUME D!AdDataAssumption, Representable, TripInv, D!Loop
    PROVE  TripInv'
<1> DEFINE grouplen == D!At(pos)
           type == D!At(pos + 1)
<1>1. /\ pc = "loop" /\ pos + 1 < D!len /\ D!len \in Nat /\ pos \in Nat
      /\ grouplen \in Nat /\ type \in Nat /\ D!len = Len(buffer)
      /\ UNCHANGED <<items, todo, buffer, wanted>>
      /\ items \in Seq(Items) /\ Len(items) \in Nat
  BY DEF D!Loop, TripInv, BufferOK, D!len, D!At
<1>2. pos' \in Nat
  <2>1. pos' = pos \/ pos' = pos + grouplen + 1
    <3>1. CASE pos + grouplen > D!len \/ type \notin D!Known
      BY <3>1 DEF D!Loop
    <3>2. CASE ~(pos + grouplen > D!len \/ type \notin D!Known)
               /\ D!ReadEnd(grouplen, type) > D!len
      BY <1>1, <3>2 DEF D!Loop
    <3>3. CASE ~(pos + grouplen > D!len \/ type \notin D!Known)
               /\ ~(D!ReadEnd(grouplen, type) > D!len)
      BY <3>3 DEF D!Loop, D!NextGroup
    <3> QED BY <3>1, <3>2, <3>3
  <2> QED BY <1>1, <2>1
<1>3. BufferOK'
  BY <1>1, <1>2 DEF BufferOK, TripInv
<1>4. NumberPut' = NumberPut
  BY <1>1 DEF NumberPut
<1>5. CASE items = <<>>
  BY <1>1, <1>3, <1>4, <1>5 DEF TripInv, PutOK, TripOK
<1>6. CASE items # <<>>
  <2>1. NumberPut = Len(items)
    BY <1>1 DEF TripInv, PutOK, NumberPut
  <2>2. PICK off \in [Nat -> Nat] : Written(off, Len(items)) /\ Parsed(off)
    BY <1>1, <1>6, <2>1 DEF TripInv, TripOK
  <2>3. PICK j \in 1 .. Len(items) + 1 : pos = off[j] /\ FoundOK(j)
    BY <1>1, <2>2 DEF Parsed
  <2>4. j \in 1 .. Len(items)
    <3>1. j = Len(items) + 1 => pos = Len(buffer)
      BY <2>2, <2>3 DEF Written
    <3>2. j # Len(items) + 1
      BY <1>1, <3>1
    <3> QED BY <1>1, <3>2, NotTheLast
  <2> DEFINE item == items[j]
             to == off[j + 1]
  <2>5. item \in Items /\ to \in Nat /\ WrittenAt(buffer, pos, to, item)
    <3>1. item \in Items
      BY <1>1, <2>4, ElementOfSeq
    <3>2. WrittenAt(buffer, off[j], off[j + 1], items[j])
      BY <2>2, <2>4 DEF Written
    <3> QED BY <2>3, <2>4, <3>1, <3>2
  <2> HIDE DEF item, to
  <2>6. /\ grouplen = Len(D!Body(item)) + 1 /\ type = item.type
        /\ D!ReadEnd(grouplen, item.type) \in Int
        /\ D!ReadEnd(grouplen, item.type) <= D!len
        /\ item.type \in wanted => D!Value(grouplen, item.type) = item.value
    BY <2>5, ValueIsPut DEF TripInv
  <2>7. /\ item.type \in D!Known /\ to = pos + Len(D!Body(item)) + 2 /\ to <= Len(buffer)
    BY <2>5 DEF WrittenAt
  <2>8. Len(D!Body(item)) \in Nat
    BY <2>5, EncodedIs
  <2>9. ~(pos + grouplen > D!len \/ type \notin D!Known) /\ ~(D!ReadEnd(grouplen, type) > D!len)
    <3>1. pos + grouplen <= D!len
      BY <1>1, <2>6, <2>7, <2>8
    <3>2. ~(D!ReadEnd(grouplen, type) > D!len)
      BY <1>1, <2>6
    <3>3. ~(pos + grouplen > D!len)
      BY <1>1, <3>1
    <3>4. type \in D!Known
      BY <2>6, <2>7
    <3> QED BY <3>2, <3>3, <3>4
  <2>10. /\ pos' = pos + grouplen + 1 /\ pc' = "loop"
         /\ found' = IF type \in wanted
                     THEN [t \in DOMAIN found \cup {type} |->
                             IF t = type THEN D!Value(grouplen, type) ELSE found[t]]
                     ELSE found
    BY <1>1, <2>9 DEF D!Loop, D!NextGroup
  <2> HIDE DEF grouplen, type
  <2>11. pos' = off[j + 1]
    BY <1>1, <2>6, <2>7, <2>8, <2>10 DEF to
  <2>12. FoundOK(j + 1)'
    <3>1. found' = IF item.type \in wanted
                   THEN [t \in DOMAIN found \cup {item.type} |->
                           IF t = item.type THEN item.value ELSE found[t]]
                   ELSE found
      BY <2>6, <2>10
    <3>2. items' = items /\ wanted' = wanted
      BY <1>1
    <3> QED BY <1>1, <2>3, <2>4, <3>1, <3>2, FoundGrows DEF item
  <2>13. Parsed(off)'
    <3>1. j + 1 \in 1 .. Len(items) + 1
      BY <1>1, <2>4
    <3> QED BY <1>1, <2>10, <2>11, <2>12, <3>1 DEF Parsed
  <2>14. Written(off, Len(items))'
    BY <1>1, <2>2 DEF Written
  <2>15. TripOK'
    BY <1>1, <1>4, <2>1, <2>13, <2>14 DEF TripOK
  <2>16. PutOK'
    BY <1>1, <1>4, <2>10 DEF PutOK, TripInv
  <2> QED BY <1>3, <2>15, <2>16 DEF TripInv
<1> QED BY <1>5, <1>6

LEMMA FoundStays ==
    ASSUME UNCHANGED <<items, wanted, found>> PROVE \A j : FoundOK(j)' <=> FoundOK(j)
<1>1. \A t, i, j : Newest(t, i, j)' <=> Newest(t, i, j)
  BY DEF Newest
<1>2. ASSUME NEW j PROVE FoundOK(j)' <=> FoundOK(j)
  BY <1>1 DEF FoundOK
<1> QED BY <1>2

LEMMA NextTrip ==
    ASSUME D!AdDataAssumption, Representable, TripInv, [D!Next]_(D!vars)
    PROVE  TripInv'
<1>1. CASE D!Put
  BY <1>1, PutTrips
<1>2. CASE D!Loop
  BY <1>2, LoopTrips
<1>3. ASSUME UNCHANGED <<items, todo, buffer, wanted, found, pos>>,
             pc' \in {"get", "loop", "true"} => todo = <<>>,
             items # <<>> => pc' \in {"put", "get", "loop", "true", "einval"},
             items # <<>> /\ pc' # "einval" =>
                /\ pc # "einval"
                /\ \A off \in [Nat -> Nat] :
                        Written(off, NumberPut) /\ Parsed(off) => Parsed(off)'
      PROVE  TripInv'
  <2>1. NumberPut' = NumberPut /\ \A off, k : Written(off, k)' <=> Written(off, k)
    BY <1>3 DEF NumberPut, Written
  <2>2. BufferOK' /\ PutOK'
    BY <1>3, <2>1 DEF TripInv, BufferOK, PutOK
  <2>3. TripOK'
    BY <1>3, <2>1 DEF TripInv, TripOK
  <2> QED BY <2>2, <2>3 DEF TripInv
<1>4. CASE D!PutInvalid
  BY <1>3, <1>4 DEF D!PutInvalid
<1>5. CASE D!PutEnd
  <2>1. \A off : Parsed(off) => Parsed(off)'
    <3>1. FoundOK(1) => FoundOK(1)'
      BY <1>5 DEF D!PutEnd, FoundOK, Newest
    <3> QED BY <1>5, <3>1 DEF D!PutEnd, Parsed
  <2> QED BY <1>3, <1>5, <2>1 DEF D!PutEnd
<1>6. CASE D!First
  <2>1. pc = "get" /\ todo = <<>> /\ UNCHANGED <<items, todo, buffer, wanted, found, pos>>
        /\ pc' \in {"outside", "false", "loop"}
    BY <1>6 DEF D!First, TripInv, PutOK
  <2>2. ASSUME items # <<>>, NEW off \in [Nat -> Nat], Written(off, NumberPut), Parsed(off)
        PROVE  pc' = "loop" /\ Parsed(off)'
    <3>1. Len(items) \in Nat \ {0} /\ items \in Seq(Items) /\ NumberPut = Len(items)
      BY <2>1, <2>2 DEF TripInv, PutOK, NumberPut
    <3>2. 1 \in 1 .. Len(items) /\ items[1] \in Items /\ 1 \in 1 .. Len(items) + 1
      BY <3>1
    <3>3. WrittenAt(buffer, 0, off[2], items[1])
      BY <2>2, <3>1, <3>2 DEF Written
    <3>4. Len(D!Body(items[1])) \in Nat
      BY <3>2, EncodedIs
    <3> DEFINE k == Len(D!Body(items[1]))
    <3>5. off[2] = k + 2 /\ off[2] <= Len(buffer) /\ buffer[1] = k + 1
      BY <3>3 DEF WrittenAt
    <3> HIDE DEF k
    <3>6. D!len > 0 /\ D!At(0) > 0 /\ D!len \in Nat /\ D!At(0) \in Nat
      <4>1. buffer \in Seq(Nat) /\ Len(buffer) \in Nat /\ k \in Nat
        BY <3>4 DEF k, TripInv, BufferOK
      <4>2. D!At(0) = buffer[1]
        BY DEF D!At
      <4>3. Len(buffer) > 0 /\ k + 1 > 0 /\ k + 1 \in Nat
        BY <3>5, <4>1
      <4> QED BY <3>5, <4>1, <4>2, <4>3 DEF D!len
    <3>7. pc' = "loop"
      BY <1>6, <3>6 DEF D!First
    <3>8. pos = off[1] /\ FoundOK(1)
      BY <2>1, <2>2 DEF Parsed, Written
    <3>9. FoundOK(1)'
      BY <2>1, <3>8 DEF FoundOK, Newest
    <3> QED BY <2>1, <3>2, <3>7, <3>8, <3>9 DEF Parsed
  <2>3. items # <<>> => pc' = "loop"
    BY <2>1, <2>2 DEF TripInv, TripOK
  <2> QED BY <1>3, <2>1, <2>2, <2>3
<1>7. CASE D!Return
  <2>1. /\ pc = "loop" /\ pos + 1 >= D!len /\ pc' = "true" /\ todo = <<>>
        /\ UNCHANGED <<items, todo, buffer, wanted, found, pos>>
    BY <1>7 DEF D!Return, TripInv, PutOK
  <2>2. ASSUME items # <<>>, NEW off \in [Nat -> Nat], Written(off, NumberPut), Parsed(off)
        PROVE  Parsed(off)'
    <3>1. /\ Len(items) \in Nat /\ items \in Seq(Items) /\ NumberPut = Len(items)
          /\ Len(buffer) \in Nat /\ pos \in Nat
      BY <2>1, <2>2 DEF TripInv, PutOK, NumberPut, BufferOK
    <3>2. PICK j \in 1 .. Len(items) + 1 : pos = off[j] /\ FoundOK(j)
      BY <2>1, <2>2 DEF Parsed
    <3>3. j = Len(items) + 1
      <4> SUFFICES ASSUME j # Len(items) + 1 PROVE FALSE
        OBVIOUS
      <4>1. j \in 1 .. Len(items)
        BY <3>1, NotTheLast
      <4>2. items[j] \in Items
        BY <3>1, <4>1, ElementOfSeq
      <4>3. WrittenAt(buffer, pos, off[j + 1], items[j])
        BY <2>2, <3>1, <3>2, <4>1 DEF Written
      <4>4. Len(D!Body(items[j])) \in Nat
        BY <4>2, EncodedIs
      <4> DEFINE k == Len(D!Body(items[j]))
      <4>5. off[j + 1] = pos + k + 2 /\ off[j + 1] <= Len(buffer)
        BY <4>3 DEF WrittenAt
      <4> HIDE DEF k
      <4> QED BY <2>1, <3>1, <4>4, <4>5 DEF D!len, k
    <3>4. FoundOK(j)'
      BY <2>1, <3>2, FoundStays
    <3> QED BY <2>1, <3>2, <3>3, <3>4 DEF Parsed
  <2> QED BY <1>3, <2>1, <2>2
<1>8. CASE UNCHANGED D!vars
  <2>1. UNCHANGED <<items, todo, buffer, wanted, found, pos, pc>>
    BY <1>8 DEF D!vars
  <2>2. \A off : Parsed(off) => Parsed(off)'
    BY <2>1, FoundStays DEF Parsed
  <2>3. pc' = pc
    BY <2>1
  <2> QED BY <1>3, <2>1, <2>2, <2>3 DEF TripInv, PutOK
<1> QED BY <1>1, <1>2, <1>4, <1>5, <1>6, <1>7, <1>8 DEF D!Next

LEMMA TripSuffices == TripInv => D!RoundTrip
<1> SUFFICES ASSUME TripInv, items # <<>>, D!Ended, pc # "einval"
             PROVE  /\ pc = "true"
                    /\ DOMAIN found = {items[i].type : i \in DOMAIN items} \cap wanted
                    /\ \A t \in DOMAIN found : found[t] = D!LastPut(t)
  BY DEF D!RoundTrip
<1>1. pc = "true" /\ items \in Seq(Items) /\ Len(items) \in Nat
  BY DEF TripInv, PutOK, D!Ended
<1>2. PICK off \in [Nat -> Nat] : Parsed(off)
  BY DEF TripInv, TripOK
<1> DEFINE last == Len(items) + 1
<1>3. FoundOK(last)
  BY <1>1, <1>2 DEF Parsed
<1>4. DOMAIN items = 1 .. Len(items) /\ last - 1 = Len(items)
  BY <1>1
<1> HIDE DEF last
<1>5. DOMAIN found = {items[i].type : i \in DOMAIN items} \cap wanted
  BY <1>3, <1>4 DEF FoundOK
<1>6. ASSUME NEW t \in DOMAIN found PROVE found[t] = D!LastPut(t)
  <2>1. PICK i \in 1 .. Len(items) : Newest(t, i, last) /\ found[t] = items[i].value
    BY <1>3, <1>4 DEF FoundOK
  <2> DEFINE IsLast(k) == items[k].type = t /\ \A m \in k + 1 .. Len(items) : items[m].type # t
  <2>2. IsLast(i)
    BY <1>4, <2>1 DEF Newest
  <2>3. ASSUME NEW k \in DOMAIN items, IsLast(k) PROVE k = i
    <3>1. k \in 1 .. Len(items)
      BY <1>4
    <3>2. ~(k < i)
      <4>1. k < i => i \in k + 1 .. Len(items)
        BY <1>1, <3>1
      <4> QED BY <2>2, <2>3, <4>1
    <3>3. ~(i < k)
      <4>1. i < k => k \in i + 1 .. Len(items)
        BY <1>1, <3>1
      <4> QED BY <2>2, <2>3, <4>1
    <3> QED BY <1>1, <3>1, <3>2, <3>3
  <2>4. (CHOOSE k \in DOMAIN items : IsLast(k)) = i
    <3> HIDE DEF IsLast
    <3> QED BY <1>4, <2>2, <2>3
  <2>5. D!LastPut(t) = items[CHOOSE k \in DOMAIN items : IsLast(k)].value
    BY DEF D!LastPut
  <2> HIDE DEF IsLast
  <2> QED BY <2>1, <2>4, <2>5
<1> QED BY <1>1, <1>5, <1>6

\* bci_ad_get() finds in the buffer that bci_ad_put() made of each wanted type the
\* value that was put last, for any list of items that survive the encoding.
THEOREM PutIsGot ==
    ASSUME D!AdDataAssumption, Representable PROVE D!Spec => []D!RoundTrip
<1>1. TripInv /\ [D!Next]_(D!vars) => TripInv'
  BY NextTrip
<1> QED BY <1>1, InitTrip, TripSuffices, PTL DEF D!Spec

-----------------------------------------------------------------------------
(* The text of numbers: LogFormat.                                           *)

\* The powers of ten are what their recursive definition says.
TenUpTo(f, k) == f[0] = 1 /\ \A i \in 1 .. k : f[i] = 10 * f[i - 1]

LEMMA Powers == \A k \in Nat : \E f \in [0 .. k -> Nat] : TenUpTo(f, k)
<1> DEFINE T == {k \in Nat : ~\E f \in [0 .. k -> Nat] : TenUpTo(f, k)}
<1>1. SUFFICES ASSUME T # {} PROVE FALSE
  OBVIOUS
<1>2. PICK k \in T : \A y \in T : k <= y
  BY <1>1, LeastNumber
<1>3. k # 0
  <2> DEFINE f == [i \in 0 .. 0 |-> 1]
  <2>1. f \in [0 .. 0 -> Nat] /\ TenUpTo(f, 0)
    BY DEF TenUpTo
  <2> QED BY <1>2, <2>1
<1>4. PICK f \in [0 .. k - 1 -> Nat] : TenUpTo(f, k - 1)
  <2>1. k - 1 \in Nat
    BY <1>2, <1>3
  <2>2. k - 1 \notin T
    <3>1. k \in Nat /\ ~(k <= k - 1)
      BY <1>2
    <3> HIDE DEF T
    <3> QED BY <1>2, <3>1
  <2> QED BY <2>1, <2>2
<1> DEFINE g == [i \in 0 .. k |-> IF i = k THEN 10 * f[k - 1] ELSE f[i]]
<1>5. g \in [0 .. k -> Nat]
  BY <1>2, <1>3, <1>4
<1>6. TenUpTo(g, k)
  <2>1. k \in Nat \ {0} /\ f[0] = 1 /\ \A i \in 1 .. k - 1 : f[i] = 10 * f[i - 1]
    BY <1>2, <1>3, <1>4 DEF TenUpTo
  <2>2. g[k] = 10 * f[k - 1] /\ \A i \in 0 .. k - 1 : g[i] = f[i]
    BY <2>1
  <2> HIDE DEF g
  <2>3. g[0] = 1
    BY <2>1, <2>2
  <2>4. ASSUME NEW i \in 1 .. k PROVE g[i] = 10 * g[i - 1]
    <3>1. i - 1 \in 0 .. k - 1 /\ g[i - 1] = f[i - 1]
      BY <2>1, <2>2
    <3>2. CASE i = k
      BY <2>2, <3>1, <3>2
    <3>3. CASE i \in 1 .. k - 1
      <4>1. g[i] = f[i]
        <5>1. i \in 0 .. k - 1
          BY <2>1, <3>3
        <5> QED BY <2>2, <5>1
      <4>2. f[i] = 10 * f[i - 1]
        BY <2>1, <3>3
      <4> QED BY <3>1, <4>1, <4>2
    <3> QED BY <2>1, <3>2, <3>3
  <2> QED BY <2>3, <2>4 DEF TenUpTo
<1> QED BY <1>2, <1>5, <1>6

LEMMA PowersAgree ==
    ASSUME NEW j \in Nat, NEW k \in Nat, NEW f, NEW g, TenUpTo(f, j), TenUpTo(g, k)
    PROVE  \A i \in Nat : i <= j /\ i <= k => f[i] = g[i]
<1> DEFINE T == {i \in Nat : i <= j /\ i <= k /\ f[i] # g[i]}
<1>1. SUFFICES ASSUME T # {} PROVE FALSE
  OBVIOUS
<1>2. PICK i \in T : \A y \in T : i <= y
  BY <1>1, LeastNumber
<1>3. i # 0
  BY <1>2 DEF TenUpTo
<1>4. i - 1 \in Nat /\ i - 1 \notin T /\ i \in 1 .. j /\ i \in 1 .. k
  BY <1>2, <1>3
<1>5. f[i - 1] = g[i - 1]
  BY <1>4
<1>6. f[i] = 10 * f[i - 1] /\ g[i] = 10 * g[i - 1]
  BY <1>4 DEF TenUpTo
<1> QED BY <1>2, <1>5, <1>6

LEMMA TenToIs ==
    /\ F!TenTo \in [Nat -> Nat] /\ F!TenTo[0] = 1
    /\ \A k \in Nat : F!TenTo[k + 1] = 10 * F!TenTo[k]
<1> DEFINE Power(k) == CHOOSE f \in [0 .. k -> Nat] : TenUpTo(f, k)
           ten == [k \in Nat |-> Power(k)[k]]
           step(h) == [k \in Nat |-> IF k = 0 THEN 1 ELSE 10 * h[k - 1]]
<1>1. \A k \in Nat : Power(k) \in [0 .. k -> Nat] /\ TenUpTo(Power(k), k)
  BY Powers
<1> HIDE DEF Power
<1>2. ten \in [Nat -> Nat] /\ ten[0] = 1
  BY <1>1 DEF TenUpTo
<1>3. \A k \in Nat \ {0} : ten[k] = 10 * ten[k - 1]
  <2> TAKE k \in Nat \ {0}
  <2>1. k - 1 \in Nat /\ k \in Nat /\ k \in 1 .. k /\ k - 1 <= k
    OBVIOUS
  <2>2. Power(k)[k] = 10 * Power(k)[k - 1]
    BY <1>1, <2>1 DEF TenUpTo
  <2>3. Power(k)[k - 1] = Power(k - 1)[k - 1]
    <3>1. TenUpTo(Power(k), k) /\ TenUpTo(Power(k - 1), k - 1)
      BY <1>1, <2>1
    <3> QED BY <2>1, <3>1, PowersAgree
  <2> QED BY <2>1, <2>2, <2>3
<1>4. ten = step(ten)
  BY <1>2, <1>3
<1> HIDE DEF ten
<1>5. F!TenTo = step(F!TenTo)
  <2>1. F!TenTo = CHOOSE h : h = step(h)
    BY DEF F!TenTo
  <2> HIDE DEF step
  <2> QED BY <1>4, <2>1
<1>6. F!TenTo[0] = 1 /\ \A k \in Nat : F!TenTo[k + 1] = 10 * F!TenTo[k]
  <2> DEFINE h == F!TenTo
  <2>1. h = [k \in Nat |-> IF k = 0 THEN 1 ELSE 10 * h[k - 1]]
    BY <1>5
  <2> HIDE DEF h
  <2>2. h[0] = 1
    BY <2>1
  <2>3. \A k \in Nat : h[k + 1] = 10 * h[k]
    BY <2>1
  <2> QED BY <2>2, <2>3 DEF h
<1>7. \A k \in Nat : F!TenTo[k] = ten[k]
  <2>1. \A k \in Nat : TenUpTo(F!TenTo, k)
    BY <1>6 DEF TenUpTo
  <2>2. \A k \in Nat : TenUpTo(ten, k)
    BY <1>2, <1>3 DEF TenUpTo
  <2> QED BY <2>1, <2>2, PowersAgree
<1> QED BY <1>2, <1>5, <1>6, <1>7

\* The digits of |number|, the last first: q[i] is its quotient by the i-th power of
\* ten, and the first of them that is 0, after q[0], is q[k] if all are Converted.
Abs(a) == IF a < 0 THEN -a ELSE a
Quotients(q, k) ==
    /\ q \in [0 .. k -> Nat] /\ q[0] = Abs(number)
    /\ \A i \in 1 .. k : q[i] = q[i - 1] \div 10
    /\ \A i \in 1 .. k - 1 : q[i] # 0

\* How many digits there is room for, and what they and the sign are.
Room == IF number < 0 THEN ItosLen - 2 ELSE ItosLen - 1
Chars(k) == IF number < 0 THEN k + 1 ELSE k
Char(q, k, i) == IF i < k THEN q[i] % 10 ELSE F!Minus
Converted(q, k) == k \in 1 .. Room /\ Quotients(q, k) /\ q[k] = 0

\* The states of itos() and utos(): in the loop for the digits, before the sign and the
\* terminator are written, in the loop that reverses, and at the end.
Converting ==
    \E q : /\ Quotients(q, p1) /\ q[p1] = Abs(n) /\ (p1 # 0 => n # 0)
           /\ n \in Int /\ (n < 0 <=> number < 0) /\ (number < 0 => signed)
           /\ p1 \in 0 .. Room /\ Abs(n) < F!TenTo[Room - p1]
           /\ \A i \in 0 .. p1 - 1 : itosbuf[i] = q[i] % 10
Signing ==
    \E q : /\ Converted(q, p1) /\ number < 0
           /\ \A i \in 0 .. p1 - 1 : itosbuf[i] = q[i] % 10
Ending ==
    \E q, k : /\ Converted(q, k) /\ p1 = Chars(k)
              /\ \A i \in 0 .. Chars(k) - 1 : itosbuf[i] = Char(q, k, i)
Reversing ==
    \E q, k : /\ Converted(q, k) /\ itosbuf[Chars(k)] = F!Nul
              /\ p1 \in Int /\ p1 + p2 = Chars(k) - 1 /\ p2 <= p1 + 1
              /\ \A i \in 0 .. Chars(k) - 1 :
                     itosbuf[i] = Char(q, k, IF i < p2 \/ i > p1 THEN Chars(k) - 1 - i ELSE i)
Reversed ==
    \E q, k : /\ Converted(q, k) /\ itosbuf[Chars(k)] = F!Nul
              /\ \A i \in 0 .. Chars(k) - 1 : itosbuf[i] = Char(q, k, Chars(k) - 1 - i)

TextInv ==
    /\ number \in Int /\ itosbuf \in [0 .. ItosLen - 1 -> 0 .. 12] /\ p2 \in Nat
    /\ at \in {"digits", "minus", "nul", "reverse", "done"}
    /\ at = "digits" => Converting /\ p2 = 0
    /\ at = "minus" => Signing /\ p2 = 0
    /\ at = "nul" => Ending /\ p2 = 0
    /\ at = "reverse" => Reversing
    /\ at = "done" => Reversed

LEMMA DigitIs ==
    ASSUME NEW a \in Int
    PROVE  /\ F!itoc[10 + a - 10 * F!Tenth(a)] = Abs(a) % 10 /\ F!Tenth(a) \in Int
           /\ Abs(F!Tenth(a)) = Abs(a) \div 10 /\ Abs(a) \in Nat
           /\ F!Tenth(a) # 0 => (F!Tenth(a) < 0 <=> a < 0)
<1>1. \A d \in 0 .. 9 : F!itoc[10 + d] = d /\ F!itoc[10 - d] = d
  BY DEF F!itoc
<1> DEFINE m == Abs(a)
           d == m % 10
<1>2. m \in Nat /\ (a < 0 => a = -m) /\ (~(a < 0) => a = m)
  BY DEF Abs
<1> HIDE DEF m
<1>3. d \in 0 .. 9 /\ m = 10 * (m \div 10) + d /\ m \div 10 \in Nat
  BY <1>2
<1> HIDE DEF d
<1>4. CASE a < 0
  <2>1. F!Tenth(a) = -(m \div 10)
    BY <1>2, <1>4 DEF F!Tenth, m, Abs
  <2>2. 10 + a - 10 * F!Tenth(a) = 10 - d
    BY <1>2, <1>3, <1>4, <2>1
  <2>3. Abs(F!Tenth(a)) = m \div 10 /\ F!Tenth(a) \in Int
    BY <1>3, <2>1 DEF Abs
  <2>4. F!Tenth(a) # 0 => F!Tenth(a) < 0
    BY <1>3, <2>1
  <2> QED BY <1>1, <1>2, <1>3, <1>4, <2>2, <2>3, <2>4 DEF d, m
<1>5. CASE ~(a < 0)
  <2>1. F!Tenth(a) = m \div 10
    BY <1>2, <1>5 DEF F!Tenth
  <2>2. 10 + a - 10 * F!Tenth(a) = 10 + d
    BY <1>2, <1>3, <1>5, <2>1
  <2>3. Abs(F!Tenth(a)) = m \div 10 /\ F!Tenth(a) \in Int /\ ~(F!Tenth(a) < 0)
    BY <1>3, <2>1 DEF Abs
  <2> QED BY <1>1, <1>2, <1>3, <1>5, <2>2, <2>3 DEF d, m
<1> QED BY <1>4, <1>5

LEMMA InitText == F!LogFormatAssumption /\ F!Init => TextInv
<1> SUFFICES ASSUME F!LogFormatAssumption, F!Init PROVE TextInv
  OBVIOUS
<1>1. /\ number \in F!Inputs(signed) /\ signed \in BOOLEAN /\ n = number /\ p1 = 0 /\ p2 = 0
      /\ at = "digits" /\ itosbuf = [i \in 0 .. ItosLen - 1 |-> F!Junk]
  BY DEF F!Init
<1>2. number \in Int /\ (number < 0 => signed)
  BY <1>1 DEF F!Inputs
<1>3. itosbuf \in [0 .. ItosLen - 1 -> 0 .. 12]
  BY <1>1 DEF F!Junk
<1>4. ItosLen \in Nat /\ ItosLen > 2 /\ Abs(number) < F!TenTo[Room]
  BY <1>1 DEF F!LogFormatAssumption, Abs, Room
<1> DEFINE q == [i \in 0 .. 0 |-> Abs(number)]
<1>5. Quotients(q, 0) /\ q[0] = Abs(number)
  BY <1>2 DEF Quotients, Abs
<1> HIDE DEF q
<1>6. 0 \in 0 .. Room /\ Room - 0 = Room
  BY <1>4 DEF Room
<1>7. Converting
  BY <1>1, <1>2, <1>4, <1>5, <1>6 DEF Converting
<1> QED BY <1>1, <1>2, <1>3, <1>7 DEF TextInv

LEMMA QuotientsExtend ==
    ASSUME NEW q, NEW j \in Nat, Quotients(q, j), j # 0 => q[j] # 0
    PROVE  \E g : /\ Quotients(g, j + 1) /\ g[j + 1] = q[j] \div 10
                  /\ \A i \in 0 .. j : g[i] = q[i]
<1> DEFINE k == j + 1
           g == [i \in 0 .. k |-> IF i = k THEN q[j] \div 10 ELSE q[i]]
<1>1. q \in [0 .. j -> Nat] /\ q[0] = Abs(number)
      /\ (\A i \in 1 .. j : q[i] = q[i - 1] \div 10) /\ \A i \in 1 .. j - 1 : q[i] # 0
  BY DEF Quotients
<1>2. k \in Nat /\ k - 1 = j /\ 0 # k /\ q[j] \in Nat /\ q[j] \div 10 \in Nat
  BY <1>1
<1>3. g \in [0 .. k -> Nat] /\ g[k] = q[j] \div 10 /\ \A i \in 0 .. j : g[i] = q[i]
  BY <1>1, <1>2
<1> HIDE DEF g
<1>4. g[0] = Abs(number)
  BY <1>1, <1>2, <1>3
<1>5. \A i \in 1 .. k : g[i] = g[i - 1] \div 10
  <2>1. g[k] = g[k - 1] \div 10
    <3>1. k - 1 \in 0 .. j
      BY <1>2
    <3> QED BY <1>2, <1>3, <3>1
  <2>2. ASSUME NEW i \in 1 .. j PROVE g[i] = g[i - 1] \div 10
    <3>1. i \in 0 .. j /\ i - 1 \in 0 .. j
      OBVIOUS
    <3>2. g[i] = q[i] /\ g[i - 1] = q[i - 1]
      BY <1>3, <3>1
    <3> QED BY <1>1, <3>2
  <2>3. \A i \in 1 .. k : i = k \/ i \in 1 .. j
    BY <1>2
  <2> QED BY <2>1, <2>2, <2>3
<1>6. \A i \in 1 .. k - 1 : g[i] # 0
  BY <1>1, <1>2, <1>3
<1>7. Quotients(g, k)
  BY <1>3, <1>4, <1>5, <1>6 DEF Quotients
<1> QED BY <1>3, <1>7

LEMMA DigitKeeps ==
    ASSUME F!LogFormatAssumption, TextInv, F!Digit PROVE TextInv'
<1> DEFINE t == F!Tenth(n)
           d == F!itoc[10 + n - 10 * t]
<1>0. PICK k : k = p1 + 1
  OBVIOUS
<1>1. /\ n' = t /\ itosbuf' = [itosbuf EXCEPT ![p1] = d] /\ p1' = k /\ k = p1 + 1
      /\ number' = number /\ signed' = signed /\ p2' = p2 /\ at = "digits"
      /\ at' = IF t # 0 THEN "digits" ELSE IF signed /\ n < 0 THEN "minus" ELSE "nul"
  BY <1>0 DEF F!Digit, F!Write
<1>2. /\ number \in Int /\ itosbuf \in [0 .. ItosLen - 1 -> 0 .. 12] /\ p2 = 0
      /\ ItosLen \in Nat /\ ItosLen > 2 /\ Room' = Room /\ Room \in Nat /\ Room < ItosLen
      /\ (number < 0 => Room < ItosLen - 1)
  BY <1>1 DEF TextInv, F!LogFormatAssumption, Room
<1>3. PICK q : /\ Quotients(q, p1) /\ q[p1] = Abs(n) /\ (p1 # 0 => n # 0)
               /\ n \in Int /\ (n < 0 <=> number < 0) /\ (number < 0 => signed)
               /\ p1 \in 0 .. Room /\ Abs(n) < F!TenTo[Room - p1]
               /\ \A i \in 0 .. p1 - 1 : itosbuf[i] = q[i] % 10
  BY <1>1 DEF TextInv, Converting
<1>4. d = Abs(n) % 10 /\ t \in Int /\ Abs(t) = Abs(n) \div 10 /\ Abs(n) \in Nat
      /\ (t # 0 => (t < 0 <=> n < 0))
  BY <1>3, DigitIs
<1> HIDE DEF t, d
<1>5. p1 < Room
  <2>1. p1 = Room => Abs(n) = 0
    <3>1. p1 = Room => Room - p1 = 0
      BY <1>2
    <3>2. F!TenTo[0] = 1
      BY TenToIs
    <3> QED BY <1>3, <1>4, <3>1, <3>2
  <2>2. p1 = Room => p1 # 0
    BY <1>2 DEF Room
  <2> QED BY <1>2, <1>3, <2>1, <2>2 DEF Abs
<1>6. Abs(t) < F!TenTo[Room - k]
  <2> DEFINE j == Room - k
  <2>1. j \in Nat /\ j + 1 = Room - p1
    BY <1>1, <1>2, <1>3, <1>5
  <2>2. F!TenTo[j + 1] = 10 * F!TenTo[j] /\ F!TenTo[j] \in Nat
    BY <2>1, TenToIs
  <2> HIDE DEF j
  <2>3. Abs(n) < 10 * F!TenTo[j]
    BY <1>3, <2>1, <2>2
  <2>4. Abs(n) \div 10 < F!TenTo[j]
    BY <1>4, <2>2, <2>3
  <2> QED BY <1>4, <2>4 DEF j
<1>7. PICK g : Quotients(g, k) /\ g[k] = Abs(t) /\ \A i \in 0 .. p1 : g[i] = q[i]
  <2>1. p1 \in Nat /\ (p1 # 0 => q[p1] # 0)
    BY <1>3 DEF Abs
  <2> QED BY <1>1, <1>3, <1>4, <2>1, QuotientsExtend
<1>8. itosbuf' \in [0 .. ItosLen - 1 -> 0 .. 12] /\ p1 \in 0 .. ItosLen - 1
  <2>1. p1 \in 0 .. ItosLen - 1
    BY <1>2, <1>3, <1>5
  <2>2. d \in 0 .. 12
    BY <1>4
  <2> QED BY <1>1, <1>2, <2>1, <2>2
<1>9. \A i \in 0 .. p1' - 1 : itosbuf'[i] = g[i] % 10
  <2>1. \A i \in 0 .. p1 - 1 : itosbuf'[i] = itosbuf[i]
    BY <1>1, <1>2, <1>3, <1>8
  <2>2. itosbuf'[p1] = d /\ d = g[p1] % 10
    BY <1>1, <1>2, <1>3, <1>4, <1>7, <1>8
  <2>3. \A i \in 0 .. p1 - 1 : g[i] = q[i]
    BY <1>3, <1>7
  <2> QED BY <1>1, <1>3, <2>1, <2>2, <2>3
<1>10. Quotients(g, k)'
  BY <1>1, <1>7 DEF Quotients
<1>11. k \in 1 .. Room
  BY <1>1, <1>2, <1>3, <1>5
<1>12. p2' \in Nat /\ p2' = 0 /\ number' \in Int
  BY <1>1, <1>2
<1>13. CASE t # 0
  <2>1. at' = "digits" /\ (n' < 0 <=> number' < 0) /\ (number' < 0 => signed')
    BY <1>1, <1>3, <1>4, <1>13
  <2>2. Quotients(g, p1)' /\ g[p1'] = Abs(n') /\ n' # 0 /\ n' \in Int
        /\ p1' \in 0 .. Room' /\ Abs(n') < F!TenTo[Room' - p1']
    BY <1>1, <1>2, <1>4, <1>6, <1>7, <1>10, <1>11, <1>13
  <2>3. Converting'
    BY <1>9, <2>1, <2>2 DEF Converting
  <2> QED BY <1>8, <1>12, <2>1, <2>3 DEF TextInv
<1>14. CASE t = 0
  <2>1. g[k] = 0
    BY <1>7, <1>14 DEF Abs
  <2>2. Converted(g, k)'
    BY <1>1, <1>2, <1>10, <1>11, <2>1 DEF Converted
  <2>3. CASE number < 0
    <3>1. at' = "minus"
      BY <1>1, <1>3, <1>14, <2>3
    <3>2. Signing'
      BY <1>1, <1>9, <2>2, <2>3 DEF Signing
    <3> QED BY <1>8, <1>12, <3>1, <3>2 DEF TextInv
  <2>4. CASE ~(number < 0)
    <3>1. at' = "nul"
      BY <1>1, <1>3, <1>14, <2>4
    <3>2. Chars(k)' = k /\ \A i \in 0 .. k - 1 : Char(g, k, i)' = g[i] % 10
      BY <1>1, <2>4 DEF Chars, Char
    <3>3. Ending'
      BY <1>1, <1>9, <2>2, <3>2 DEF Ending
    <3> QED BY <1>8, <1>12, <3>1, <3>3 DEF TextInv
  <2> QED BY <2>3, <2>4
<1> QED BY <1>13, <1>14

LEMMA SignKeeps ==
    ASSUME F!LogFormatAssumption, TextInv, F!Sign PROVE TextInv'
<1>1. /\ itosbuf' = [itosbuf EXCEPT ![p1] = F!Minus] /\ p1' = p1 + 1 /\ number' = number
      /\ p2' = p2 /\ at = "minus" /\ at' = "nul"
  BY DEF F!Sign, F!Write
<1>2. /\ number \in Int /\ itosbuf \in [0 .. ItosLen - 1 -> 0 .. 12] /\ p2 = 0
      /\ ItosLen \in Nat /\ ItosLen > 2
  BY <1>1 DEF TextInv, F!LogFormatAssumption
<1>3. PICK q : /\ Converted(q, p1) /\ number < 0
               /\ \A i \in 0 .. p1 - 1 : itosbuf[i] = q[i] % 10
  BY <1>1 DEF TextInv, Signing
<1>0. PICK k : k = p1
  OBVIOUS
<1>4. k \in 1 .. ItosLen - 2
  BY <1>0, <1>3 DEF Converted, Room
<1>5. Converted(q, k)'
  BY <1>0, <1>1, <1>3 DEF Converted, Quotients, Room
<1>6. Chars(k)' = k + 1 /\ p1' = k + 1
  BY <1>0, <1>1, <1>3 DEF Chars
<1>7. \A i \in 0 .. k : itosbuf'[i] = Char(q, k, i)'
  <2>1. itosbuf'[k] = F!Minus /\ \A i \in 0 .. k - 1 : itosbuf'[i] = q[i] % 10
    BY <1>0, <1>1, <1>2, <1>3, <1>4
  <2> QED BY <1>1, <1>4, <2>1 DEF Char
<1>8. itosbuf' \in [0 .. ItosLen - 1 -> 0 .. 12]
  BY <1>0, <1>1, <1>2, <1>4 DEF F!Minus
<1>9. Ending'
  <2>1. (k + 1) - 1 = k
    BY <1>4
  <2> QED BY <1>5, <1>6, <1>7, <2>1 DEF Ending
<1> QED BY <1>1, <1>2, <1>8, <1>9 DEF TextInv

LEMMA TerminateKeeps ==
    ASSUME F!LogFormatAssumption, TextInv, F!Terminate PROVE TextInv'
<1>1. /\ itosbuf' = [itosbuf EXCEPT ![p1] = F!Nul] /\ p1' = p1 - 1 /\ number' = number
      /\ p2' = p2 /\ at = "nul" /\ at' = "reverse"
  BY DEF F!Terminate, F!Write
<1>2. /\ number \in Int /\ itosbuf \in [0 .. ItosLen - 1 -> 0 .. 12] /\ p2 = 0
      /\ ItosLen \in Nat /\ ItosLen > 2
  BY <1>1 DEF TextInv, F!LogFormatAssumption
<1>3. PICK q, k : /\ Converted(q, k) /\ p1 = Chars(k)
                  /\ \A i \in 0 .. Chars(k) - 1 : itosbuf[i] = Char(q, k, i)
  BY <1>1 DEF TextInv, Ending
<1>4. p1 \in 1 .. ItosLen - 1
  BY <1>2, <1>3 DEF Converted, Room, Chars
<1>5. Converted(q, k)' /\ Chars(k)' = p1
  BY <1>1, <1>3 DEF Converted, Quotients, Room, Chars
<1>6. itosbuf' \in [0 .. ItosLen - 1 -> 0 .. 12] /\ itosbuf'[p1] = F!Nul
      /\ \A i \in 0 .. p1 - 1 : itosbuf'[i] = itosbuf[i]
  BY <1>1, <1>2, <1>4 DEF F!Nul
<1>7. \A i \in 0 .. p1 - 1 : ~(i < p2' \/ i > p1')
  BY <1>1, <1>2, <1>4
<1>8. \A i : Char(q, k, i)' = Char(q, k, i)
  BY DEF Char
<1>9. p1' \in Int /\ p1' + p2' = p1 - 1 /\ p2' <= p1' + 1
  BY <1>1, <1>2, <1>4
<1>10. Reversing'
  BY <1>3, <1>5, <1>6, <1>7, <1>8, <1>9 DEF Reversing
<1> QED BY <1>1, <1>2, <1>6, <1>10 DEF TextInv

LEMMA SwapKeeps ==
    ASSUME F!LogFormatAssumption, TextInv, F!Swap PROVE TextInv'
<1>1. /\ itosbuf' = [itosbuf EXCEPT ![p1] = itosbuf[p2], ![p2] = itosbuf[p1]]
      /\ p1' = p1 - 1 /\ p2' = p2 + 1 /\ number' = number /\ at = "reverse" /\ at' = at
      /\ p2 < p1
  BY DEF F!Swap
<1>2. /\ number \in Int /\ itosbuf \in [0 .. ItosLen - 1 -> 0 .. 12] /\ p2 \in Nat
      /\ ItosLen \in Nat
  BY DEF TextInv, F!LogFormatAssumption
<1>3. PICK q, k : /\ Converted(q, k) /\ itosbuf[Chars(k)] = F!Nul
                  /\ p1 \in Int /\ p1 + p2 = Chars(k) - 1 /\ p2 <= p1 + 1
                  /\ \A i \in 0 .. Chars(k) - 1 : itosbuf[i] =
                         Char(q, k, IF i < p2 \/ i > p1 THEN Chars(k) - 1 - i ELSE i)
  BY <1>1 DEF TextInv, Reversing
<1>4. PICK len : len = Chars(k)
  OBVIOUS
<1>5. len \in 1 .. ItosLen - 1
  BY <1>2, <1>3, <1>4 DEF Converted, Room, Chars
<1>6. Converted(q, k)' /\ Chars(k)' = len
  BY <1>1, <1>3, <1>4 DEF Converted, Quotients, Room, Chars
<1>7. \A i : Char(q, k, i)' = Char(q, k, i)
  BY DEF Char
<1>8. p1 \in 0 .. len - 1 /\ p2 \in 0 .. len - 1 /\ p1 # p2 /\ p1 + p2 = len - 1
  BY <1>1, <1>2, <1>3, <1>4, <1>5
<1>9. itosbuf' \in [0 .. ItosLen - 1 -> 0 .. 12] /\ itosbuf'[len] = F!Nul
  <2>1. /\ p1 \in 0 .. ItosLen - 1 /\ p2 \in 0 .. ItosLen - 1 /\ len \in 0 .. ItosLen - 1
        /\ len # p1 /\ len # p2
    BY <1>2, <1>5, <1>8
  <2>2. itosbuf[p1] \in 0 .. 12 /\ itosbuf[p2] \in 0 .. 12 /\ itosbuf[len] = F!Nul
    BY <1>2, <1>3, <1>4, <2>1
  <2> QED BY <1>1, <1>2, <2>1, <2>2
<1>10. /\ itosbuf'[p1] = itosbuf[p2] /\ itosbuf'[p2] = itosbuf[p1]
       /\ \A i \in 0 .. len - 1 : i # p1 /\ i # p2 => itosbuf'[i] = itosbuf[i]
  BY <1>1, <1>2, <1>5, <1>8
<1>11. \A i \in 0 .. len - 1 :
           itosbuf'[i] = Char(q, k, IF i < p2' \/ i > p1' THEN len - 1 - i ELSE i)
  <2> TAKE i \in 0 .. len - 1
  <2>1. itosbuf[i] = Char(q, k, IF i < p2 \/ i > p1 THEN len - 1 - i ELSE i)
    BY <1>3, <1>4
  <2>2. itosbuf[p1] = Char(q, k, p1) /\ itosbuf[p2] = Char(q, k, p2)
    BY <1>1, <1>2, <1>3, <1>4, <1>8
  <2>3. CASE i = p1
    <3>1. len - 1 - i = p2 /\ i > p1'
      BY <1>1, <1>8, <2>3
    <3> QED BY <1>10, <2>2, <2>3, <3>1
  <2>4. CASE i = p2
    <3>1. len - 1 - i = p1 /\ i < p2'
      BY <1>1, <1>8, <2>4
    <3> QED BY <1>10, <2>2, <2>4, <3>1
  <2>5. CASE i # p1 /\ i # p2
    <3>1. (i < p2 <=> i < p2') /\ (i > p1 <=> i > p1')
      BY <1>1, <1>8, <2>5
    <3> QED BY <1>10, <2>1, <2>5, <3>1
  <2> QED BY <2>3, <2>4, <2>5
<1>12. p1' \in Int /\ p1' + p2' = len - 1 /\ p2' <= p1' + 1 /\ p2' \in Nat
  BY <1>1, <1>2, <1>8
<1>13. Reversing'
  BY <1>6, <1>7, <1>9, <1>11, <1>12 DEF Reversing
<1> QED BY <1>1, <1>2, <1>9, <1>12, <1>13 DEF TextInv

LEMMA ReturnKeeps ==
    ASSUME F!LogFormatAssumption, TextInv, F!Return PROVE TextInv'
<1>1. /\ itosbuf' = itosbuf /\ p1' = p1 /\ p2' = p2 /\ number' = number /\ at = "reverse"
      /\ at' = "done" /\ p2 >= p1
  BY DEF F!Return
<1>2. number \in Int /\ itosbuf \in [0 .. ItosLen - 1 -> 0 .. 12] /\ p2 \in Nat
  BY DEF TextInv
<1>3. PICK q, k : /\ Converted(q, k) /\ itosbuf[Chars(k)] = F!Nul
                  /\ p1 \in Int /\ p1 + p2 = Chars(k) - 1 /\ p2 <= p1 + 1
                  /\ \A i \in 0 .. Chars(k) - 1 : itosbuf[i] =
                         Char(q, k, IF i < p2 \/ i > p1 THEN Chars(k) - 1 - i ELSE i)
  BY <1>1 DEF TextInv, Reversing
<1>4. Converted(q, k)' /\ Chars(k)' = Chars(k) /\ \A i : Char(q, k, i)' = Char(q, k, i)
  BY <1>1, <1>3 DEF Converted, Quotients, Room, Chars, Char
<1>5. \A i \in 0 .. Chars(k) - 1 :
          (IF i < p2 \/ i > p1 THEN Chars(k) - 1 - i ELSE i) = Chars(k) - 1 - i
  <2> TAKE i \in 0 .. Chars(k) - 1
  <2>1. i < p2 \/ i > p1 \/ (i = p1 /\ i = p2)
    BY <1>1, <1>2, <1>3
  <2> QED BY <1>1, <1>2, <1>3, <2>1
<1>6. \A i \in 0 .. Chars(k) - 1 : itosbuf[i] = Char(q, k, Chars(k) - 1 - i)
  BY <1>3, <1>5
<1>7. Reversed'
  BY <1>1, <1>3, <1>4, <1>6 DEF Reversed
<1> QED BY <1>1, <1>2, <1>7 DEF TextInv

LEMMA NextText ==
    ASSUME F!LogFormatAssumption, TextInv, [F!Next]_(F!vars) PROVE TextInv'
<1>1. CASE UNCHANGED F!vars
  <2>1. UNCHANGED <<signed, number, n, itosbuf, p1, p2, at>>
    BY <1>1 DEF F!vars
  <2>2. /\ \A q, k : Quotients(q, k)' <=> Quotients(q, k)
        /\ \A q, k : Converted(q, k)' <=> Converted(q, k)
        /\ \A k : Chars(k)' = Chars(k)
        /\ \A q, k, i : Char(q, k, i)' = Char(q, k, i)
        /\ Room' = Room
    BY <2>1 DEF Quotients, Converted, Room, Chars, Char
  <2>3. Converting => Converting'
    <3>1. \A q : Quotients(q, p1)' <=> Quotients(q, p1)
      BY <2>1 DEF Quotients
    <3> QED BY <2>1, <2>2, <3>1 DEF Converting
  <2>4. Signing => Signing'
    <3>1. \A q : Converted(q, p1)' <=> Converted(q, p1)
      BY <2>1 DEF Quotients, Converted, Room
    <3> QED BY <2>1, <3>1 DEF Signing
  <2>5. Ending => Ending'
    BY <2>1, <2>2 DEF Ending
  <2>6. Reversing => Reversing'
    BY <2>1, <2>2 DEF Reversing
  <2>7. Reversed => Reversed'
    BY <2>1, <2>2 DEF Reversed
  <2> QED BY <2>1, <2>3, <2>4, <2>5, <2>6, <2>7 DEF TextInv
<1> QED BY <1>1, DigitKeeps, SignKeeps, TerminateKeeps, SwapKeeps, ReturnKeeps DEF F!Next

\* The number that the digits are is the quotient by one.
LEMMA DecimalIs ==
    ASSUME NEW q, NEW k \in Nat, Quotients(q, k), q[k] = 0, NEW s, Len(s) = k,
           \A i \in 1 .. k : s[i] = q[k - i] % 10
    PROVE  F!Decimal(s) = Abs(number)
<1> DEFINE step(h) == [i \in 0 .. Len(s) |-> IF i = 0 THEN 0 ELSE 10 * h[i - 1] + s[i]]
           v == [i \in 0 .. k |-> q[k - i]]
           c == CHOOSE h : h = step(h)
<1>1. /\ q \in [0 .. k -> Nat] /\ q[0] = Abs(number)
      /\ \A i \in 1 .. k : q[i] = q[i - 1] \div 10
  BY DEF Quotients
<1>2. \A i \in 1 .. k : v[i] = 10 * v[i - 1] + s[i]
  <2> TAKE i \in 1 .. k
  <2> DEFINE j == k - i
  <2>1. j \in 0 .. k - 1 /\ j + 1 \in 1 .. k /\ (j + 1) - 1 = j /\ i - 1 \in 0 .. k
        /\ k - (i - 1) = j + 1 /\ i \in 0 .. k
    OBVIOUS
  <2>2. v[i] = q[j] /\ v[i - 1] = q[j + 1] /\ s[i] = q[j] % 10
    BY <2>1
  <2> HIDE DEF j, v
  <2>3. q[j] \in Nat /\ q[j + 1] = q[j] \div 10
    BY <1>1, <2>1
  <2>4. q[j] = 10 * (q[j] \div 10) + (q[j] % 10)
    BY <2>3
  <2> QED BY <2>2, <2>3, <2>4
<1>3. v[0] = 0 /\ v[k] = q[0]
  OBVIOUS
<1>4. v = step(v)
  <2>1. \A i \in 0 .. k : v[i] = IF i = 0 THEN 0 ELSE 10 * v[i - 1] + s[i]
    <3>1. \A i \in 0 .. k : i = 0 \/ i \in 1 .. k
      OBVIOUS
    <3>2. \A i \in 1 .. k : i # 0
      OBVIOUS
    <3> HIDE DEF v
    <3> QED BY <1>2, <1>3, <3>1, <3>2
  <2> QED BY <2>1
<1>5. c = step(c)
  <2> HIDE DEF step, v
  <2> QED BY <1>4
<1>6. c[0] = 0 /\ \A i \in 1 .. k : c[i] = 10 * c[i - 1] + s[i]
  <2> HIDE DEF c
  <2> QED BY <1>5
<1> HIDE DEF c, v
<1>7. c[k] = v[k]
  <2> DEFINE T == {i \in Nat : i <= k /\ c[i] # v[i]}
  <2>1. SUFFICES ASSUME T # {} PROVE FALSE
    OBVIOUS
  <2>2. PICK i \in T : \A y \in T : i <= y
    BY <2>1, LeastNumber
  <2>3. i \in 1 .. k /\ i - 1 \in Nat /\ i - 1 <= k /\ ~(i <= i - 1)
    BY <1>3, <1>6, <2>2
  <2>4. i - 1 \notin T
    BY <2>2, <2>3
  <2>5. c[i - 1] = v[i - 1]
    BY <2>3, <2>4
  <2> QED BY <1>2, <1>6, <2>2, <2>3, <2>5
<1>8. F!Decimal(s) = c[k]
  BY DEF F!Decimal, c
<1> QED BY <1>1, <1>3, <1>7, <1>8

LEMMA TextSuffices == F!LogFormatAssumption /\ TextInv => F!TextIsNumber
<1> SUFFICES ASSUME F!LogFormatAssumption, TextInv, at = "done" PROVE F!TextIsNumber
  BY DEF F!TextIsNumber
<1>1. PICK q, k : /\ Converted(q, k) /\ itosbuf[Chars(k)] = F!Nul
                  /\ \A i \in 0 .. Chars(k) - 1 : itosbuf[i] = Char(q, k, Chars(k) - 1 - i)
  BY DEF TextInv, Reversed
<1>2. /\ ItosLen \in Nat /\ ItosLen > 2 /\ number \in Int /\ k \in Nat \ {0} /\ Quotients(q, k)
      /\ Chars(k) \in 1 .. ItosLen - 1 /\ q[k] = 0
  BY <1>1 DEF F!LogFormatAssumption, TextInv, Converted, Room, Chars
<1>3. \A i \in 0 .. k - 1 : q[i] \in Nat /\ q[i] % 10 \in 0 .. 9
  <2>1. \A i \in 0 .. k - 1 : q[i] \in Nat
    BY <1>2 DEF Quotients
  <2>2. \A d \in Nat : d % 10 \in 0 .. 9
    OBVIOUS
  <2> QED BY <2>1, <2>2
<1> DEFINE size == Chars(k)
           Ends(i) == itosbuf[i] = F!Nul /\ \A j \in 0 .. i - 1 : itosbuf[j] # F!Nul
           len == CHOOSE i \in 0 .. ItosLen - 1 : Ends(i)
           s == [i \in 1 .. size |-> itosbuf[i - 1]]
           negative == s[1] = F!Minus
           digits == IF negative THEN Tail(s) ELSE s
<1>4. \A i \in 0 .. size - 1 : Char(q, k, i) \in 0 .. 10
  BY <1>2, <1>3 DEF Char, Chars, F!Minus
<1>5. \A i \in 0 .. size - 1 : itosbuf[i] # F!Nul
  <2> TAKE i \in 0 .. size - 1
  <2>1. size - 1 - i \in 0 .. size - 1
    BY <1>2
  <2> QED BY <1>1, <1>4, <2>1 DEF F!Nul
<1>6. len = size
  <2>1. size \in 0 .. ItosLen - 1 /\ Ends(size)
    BY <1>1, <1>2, <1>5
  <2>2. ASSUME NEW i \in 0 .. ItosLen - 1, Ends(i) PROVE i = size
    <3>1. ~(i < size)
      BY <1>2, <1>5, <2>2
    <3>2. ~(size < i)
      BY <1>1, <1>2, <2>2
    <3> QED BY <1>2, <3>1, <3>2
  <2> HIDE DEF Ends
  <2> QED BY <2>1, <2>2
<1>7. F!text = s
  <2>1. F!text = [i \in 1 .. len |-> itosbuf[i - 1]]
    BY DEF F!text
  <2> HIDE DEF len
  <2> QED BY <1>6, <2>1
<1>8. /\ \A i \in 1 .. size : s[i] = Char(q, k, size - i)
      /\ s \in Seq(Int) /\ Len(s) = size
  <2>1. \A i \in 1 .. size : s[i] = Char(q, k, size - i) /\ s[i] \in Int
    <3> TAKE i \in 1 .. size
    <3>1. i - 1 \in 0 .. size - 1 /\ size - 1 - (i - 1) = size - i
          /\ size - i \in 0 .. size - 1
      BY <1>2
    <3> QED BY <1>1, <1>4, <3>1
  <2>2. size \in Nat
    BY <1>2
  <2>3. s = [i \in 1 .. size |-> s[i]]
    OBVIOUS
  <2> HIDE DEF s
  <2> QED BY <2>1, <2>2, <2>3
<1> HIDE DEF s, len
<1>9. negative <=> number < 0
  <2>1. s[1] = Char(q, k, size - 1)
    BY <1>2, <1>8
  <2>2. CASE number < 0
    <3>1. size - 1 = k
      BY <1>2, <2>2 DEF Chars
    <3> QED BY <1>2, <2>1, <2>2, <3>1 DEF Char
  <2>3. CASE ~(number < 0)
    <3>1. size - 1 = k - 1 /\ k - 1 \in 0 .. k - 1 /\ k - 1 < k
      BY <1>2, <2>3 DEF Chars
    <3> QED BY <1>3, <2>1, <2>3, <3>1 DEF Char, F!Minus
  <2> QED BY <2>2, <2>3
<1>10. Len(digits) = k /\ \A i \in 1 .. k : digits[i] = q[k - i] % 10
  <2>1. CASE number < 0
    <3>1. digits = Tail(s) /\ size = k + 1 /\ Len(s) = k + 1
      BY <1>2, <1>8, <1>9, <2>1 DEF Chars
    <3>2. Len(Tail(s)) = k /\ \A i \in 1 .. k : Tail(s)[i] = s[i + 1]
      BY <1>2, <1>8, <3>1
    <3>3. \A i \in 1 .. k : s[i + 1] = q[k - i] % 10
      <4> TAKE i \in 1 .. k
      <4>1. i + 1 \in 1 .. size /\ size - (i + 1) = k - i /\ k - i < k
        BY <1>2, <3>1
      <4> QED BY <1>8, <4>1 DEF Char
    <3> QED BY <3>1, <3>2, <3>3
  <2>2. CASE ~(number < 0)
    <3>1. digits = s /\ size = k
      BY <1>2, <1>9, <2>2 DEF Chars
    <3>2. \A i \in 1 .. k : i \in 1 .. size /\ k - i < k
      BY <1>2, <3>1
    <3> QED BY <1>8, <3>1, <3>2 DEF Char
  <2> QED BY <2>1, <2>2
<1>11. digits \in Seq(Int)
  <2>1. s # <<>>
    BY <1>2, <1>8
  <2> QED BY <1>8, <2>1
<1> HIDE DEF digits
<1>12. digits # <<>> /\ DOMAIN digits = 1 .. k /\ \A i \in DOMAIN digits : digits[i] \in 0 .. 9
  <2>1. DOMAIN digits = 1 .. k /\ Len(<<>>) = 0
    BY <1>10, <1>11
  <2>2. \A i \in 1 .. k : k - i \in 0 .. k - 1
    BY <1>2
  <2> QED BY <1>2, <1>3, <1>10, <2>1, <2>2
<1>13. F!Decimal(digits) = Abs(number)
  BY <1>2, <1>10, DecimalIs
<1>14. number = IF negative THEN -F!Decimal(digits) ELSE F!Decimal(digits)
  BY <1>2, <1>9, <1>13 DEF Abs
<1>15. digits[1] = 0 => Len(s) = 1
  <2> SUFFICES ASSUME digits[1] = 0 PROVE Len(s) = 1
    OBVIOUS
  <2>1. k - 1 \in 0 .. k - 1 /\ 1 \in 1 .. k /\ k \in 1 .. k
    BY <1>2
  <2>2. q[k - 1] % 10 = 0 /\ q[k - 1] \in Nat /\ q[k] = q[k - 1] \div 10
    BY <1>2, <1>3, <1>10, <2>1 DEF Quotients
  <2>3. q[k - 1] = 0
    BY <1>2, <2>2
  <2>4. k - 1 \notin 1 .. k - 1
    BY <1>2, <2>3 DEF Quotients
  <2>5. k = 1
    BY <1>2, <2>4
  <2>6. Abs(number) = 0
    BY <1>2, <2>3, <2>5 DEF Quotients
  <2>7. ~(number < 0)
    BY <1>2, <2>6 DEF Abs
  <2> QED BY <1>8, <2>5, <2>7 DEF Chars
<1> QED BY <1>7, <1>12, <1>14, <1>15 DEF F!TextIsNumber, digits

\* itos() and utos() print every number, the least one included, as its decimal text
\* without leading zeros, for any width whose texts fit in the buffer.
THEOREM NumbersArePrinted == ASSUME F!LogFormatAssumption PROVE F!Spec => []F!TextIsNumber
<1>1. TextInv /\ [F!Next]_(F!vars) => TextInv'
  BY NextText
<1> QED BY <1>1, InitText, TextSuffices, PTL DEF F!Spec

-----------------------------------------------------------------------------
(* DataPaths.                                                                *)

LEMMA LinkMoves == [Next]_vars => [L!Next]_(L!vars)
<1>1. UNCHANGED link => UNCHANGED L!vars
  BY DEF link, L!vars, L!bci, L!advertising, L!air, L!connection
<1> QED BY <1>1 DEF Next, Link, Text, Ad, Reports, vars, L!Next

LEMMA ReportsMove == [Next]_vars => [R!Next]_(R!vars)
<1>1. UNCHANGED reports => UNCHANGED R!vars
  BY DEF reports, R!vars
<1> QED BY <1>1 DEF Next, Link, Text, Ad, Reports, vars

\* What bci_set_advertising_params() accepts, in whole units, ll_advertise_start()
\* accepts, whatever else the stack does with data.
THEOREM ParamsStart == Spec => []AcceptedParamsStart
<1>1. Init => L!Init
  BY DEF Init
<1> QED BY <1>1, LinkMoves, InitParams, NextParams, ParamsSuffice, PTL
        DEF Spec, AcceptedParamsStart

\* The advertisement that is sent, and the scan response unless it is being set, are what
\* one call was given, whatever else the stack does with data.
THEOREM PdusWhole == Spec => [](AdvertisementIsWhole /\ ResponseIsWhole)
<1>1. Init => PduInv
  BY InitPdus, DataPathsAssumption DEF Init
<1>2. PduInv /\ [Next]_vars => PduInv'
  BY LinkMoves, NextPdus, DataPathsAssumption
<1>3. PduInv => AdvertisementIsWhole /\ ResponseIsWhole
  BY PdusSuffice DEF AdvertisementIsWhole, ResponseIsWhole
<1> QED BY <1>1, <1>2, <1>3, PTL DEF Spec

\* No octet of a scan response goes out that was never set, also while it is being set.
THEOREM ResponsesFilled == Spec => []ResponseIsFilled
<1>1. Init => PduInv
  BY InitPdus, DataPathsAssumption DEF Init
<1>2. PduInv /\ [Next]_vars => PduInv'
  BY LinkMoves, NextPdus, DataPathsAssumption
<1>3. PduInv => ResponseIsFilled
  BY PdusSuffice DEF ResponseIsFilled
<1> QED BY <1>1, <1>2, <1>3, PTL DEF Spec

\* The transmit window in CONNECT_REQ fits the interval in it, for every interval
\* that ll.h allows.
THEOREM WindowFits == Spec => []WindowFitsInterval
<1>1. L!LinkDataAssumption
  BY DataPathsAssumption
<1>2. Init => ConnInv
  BY InitConn DEF Init
<1>3. ConnInv /\ [Next]_vars => ConnInv'
  BY <1>1, LinkMoves, NextConn
<1>4. ConnInv => WindowFitsInterval
  BY DEF ConnInv, WindowFitsInterval
<1> QED BY <1>2, <1>3, <1>4, PTL DEF Spec

\* A report is of one packet if no other begins between its filling and the end of its
\* reading.
THEOREM ReportsWhole == Spec => []UndisturbedReportIsWhole
<1>1. R!AdvReportAssumption
  BY DataPathsAssumption
<1>2. Init => ReportInv
  BY <1>1, InitReport DEF Init
<1>3. ReportInv /\ [Next]_vars => ReportInv'
  BY <1>1, ReportsMove, NextReport
<1> QED BY <1>2, <1>3, ReportSuffices, PTL DEF Spec, UndisturbedReportIsWhole

\* bci_ad_get() reads a buffer of complete AD structures inside its bounds, and to
\* its end if it knows all types in it.
THEOREM WellFormedRead == Spec => []WellFormedIsRead
<1>1. D!AdDataAssumption
  BY DataPathsAssumption
<1> DEFINE PathInv == path = "ad" => AdInv
<1>2. Init => PathInv
  BY <1>1, InitAd DEF Init
<1>3. PathInv /\ [Next]_vars => PathInv'
  <2> SUFFICES ASSUME PathInv, [Next]_vars, path' = "ad" PROVE AdInv'
    OBVIOUS
  <2>1. path = "ad" /\ [D!Next]_(D!vars)
    BY DEF Next, Text, Link, Ad, Reports, vars, ad, D!vars
  <2> QED BY <1>1, <2>1, NextAd
<1>4. PathInv => WellFormedIsRead
  BY AdSuffices DEF WellFormedIsRead
<1> QED BY <1>2, <1>3, <1>4, PTL DEF Spec

\* What is put is what is got, for items that survive the encoding.
THEOREM ItemsRoundTrip == ASSUME Representable PROVE Spec => []RoundTrip
<1>1. D!AdDataAssumption
  BY DataPathsAssumption
<1> DEFINE PathInv == path = "ad" => TripInv
<1>2. Init => PathInv
  BY <1>1, InitTrip DEF Init
<1>3. PathInv /\ [Next]_vars => PathInv'
  <2> SUFFICES ASSUME PathInv, [Next]_vars, path' = "ad" PROVE TripInv'
    OBVIOUS
  <2>1. path = "ad" /\ [D!Next]_(D!vars)
    BY DEF Next, Text, Link, Ad, Reports, vars, ad, D!vars
  <2> QED BY <1>1, <2>1, NextTrip
<1>4. PathInv => RoundTrip
  BY TripSuffices DEF RoundTrip
<1> QED BY <1>2, <1>3, <1>4, PTL DEF Spec

\* Every number is printed as its decimal text, whatever else the stack does with data.
THEOREM NumbersReadable == Spec => []TextIsNumber
<1>1. F!LogFormatAssumption
  BY DataPathsAssumption
<1> DEFINE PathInv == IF path = "text" THEN TextInv ELSE at = "unused"
<1>2. Init => PathInv
  BY <1>1, InitText DEF Init, TextUnused
<1>3. PathInv /\ [Next]_vars => PathInv'
  <2> SUFFICES ASSUME PathInv, [Next]_vars PROVE PathInv'
    OBVIOUS
  <2>1. path' = path /\ (path # "text" => at' = at) /\ (path = "text" => [F!Next]_(F!vars))
    BY DEF Next, Text, Link, Ad, Reports, vars, text, F!vars
  <2> QED BY <1>1, <2>1, NextText
<1>4. PathInv => TextIsNumber
  BY <1>1, TextSuffices DEF TextIsNumber, F!TextIsNumber
<1> QED BY <1>2, <1>3, <1>4, PTL DEF Spec
=============================================================================
