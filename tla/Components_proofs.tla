------------------------- MODULE Components_proofs --------------------------
(***************************************************************************)
(* What the flows and the migration keep true of the saved entry, what     *)
(* set-ups and unloads leave behind and how long a fetch of the Axle       *)
(* windows takes: for any set of tariff codes, any number of set-ups and   *)
(* any back-off.                                                           *)
(***************************************************************************)
EXTENDS MCComponents, Evaluator_proofs, Rates_proofs, TrainingData_proofs

-----------------------------------------------------------------------------
(***************************************************************************)
(* The saved entry and its flows.                                          *)
(***************************************************************************)

AxleStates == {"none", "axel", "given", "default"}
Losses == Methods \cup {"default"}
FlowSteps == Steps \cup {"closed", "show pick"}

Flows == [step : FlowSteps, opts : Options, resolved : Codes \cup {NoCode},
          asShown : BOOLEAN, offered : SUBSET Codes, selected : SUBSET Codes]

(***************************************************************************)
(* The tariffs of saved options, of an old entry's too.                    *)
(***************************************************************************)
Compared(o) ==
  /\ o.enabled <=> o.tariffs # {}
  /\ o.current \in o.tariffs \cup {NoCode}

(***************************************************************************)
(* A flow that is open has what the entry had of Axle; one that has come   *)
(* to the tariffs compares them, and has picked some when it asks for the  *)
(* export meter.                                                           *)
(***************************************************************************)
FlowInv ==
  /\ FlowTypeOK
  /\ Compared(entry)
  /\ flow.step \in {"show pick", "pick", "export meter"} => flow.opts.enabled
  /\ flow.step = "export meter" => flow.opts.tariffs # {} /\ Compared(flow.opts)
  /\ flow.step # "closed" => entry = NoEntry \/ entry.version = 3
  /\ flow.step # "closed" /\ AxleEntered(entry) => AxleEntered(flow.opts)
-----------------------------------------------------------------------------

(***************************************************************************)
(* The types of the options, one by one.                                   *)
(***************************************************************************)
LEMMA OptionFields ==
  ASSUME NEW o \in Options
  PROVE  /\ o.version \in {2, 3} /\ o.heating \in HeatingTypes /\ o.loss \in Losses
         /\ o.report \in BOOLEAN /\ o.building \in BOOLEAN /\ o.mpan \in BOOLEAN
         /\ o.exportMpan \in BOOLEAN /\ o.axle \in AxleStates /\ o.enabled \in BOOLEAN
         /\ o.tariffs \in SUBSET Codes /\ o.current \in Codes \cup {NoCode}
  BY DEF Options, Losses, AxleStates

(***************************************************************************)
(* The options after one of them is set.                                   *)
(***************************************************************************)
LEMMA AxleSet ==
  ASSUME NEW o \in Options, NEW a \in AxleStates
  PROVE  /\ [o EXCEPT !.axle = a] \in Options /\ [o EXCEPT !.axle = a].axle = a
         /\ [o EXCEPT !.axle = a].enabled = o.enabled
         /\ [o EXCEPT !.axle = a].tariffs = o.tariffs
         /\ [o EXCEPT !.axle = a].current = o.current
  BY DEF Options, AxleStates

(***************************************************************************)
(* Blank options and an entry that is not there compare no tariffs and     *)
(* have no Axle settings.                                                  *)
(***************************************************************************)
LEMMA BlankOptions ==
  /\ Blank \in Options /\ Blank.axle = "none" /\ Blank.enabled = FALSE
  /\ Blank.tariffs = {} /\ Blank.current = NoCode
  /\ NoEntry \in Options /\ NoEntry.axle = "none" /\ Compared(NoEntry)
  BY DEF Blank, NoEntry, Options, HeatingTypes, Compared

LEMMA ClosedFlow ==
  /\ Closed \in Flows /\ Closed.step = "closed" /\ Closed.opts = Blank
<1> HIDE DEF Blank
<1> QED BY BlankOptions DEF Closed, Flows, FlowSteps

(***************************************************************************)
(* Filling in the Axle defaults keeps the tariffs and entered Axle         *)
(* settings.                                                               *)
(***************************************************************************)
LEMMA FilledIn ==
  ASSUME NEW o \in Options
  PROVE  /\ AxleDefaults(o) \in Options
         /\ Compared(o) => Compared(AxleDefaults(o))
         /\ AxleEntered(o) => AxleEntered(AxleDefaults(o))
<1>1. CASE o.axle = "none"
  <2> DEFINE d == [o EXCEPT !.axle = "default"]
  <2>1. AxleDefaults(o) = d /\ ~AxleEntered(o)
    BY <1>1 DEF AxleDefaults, AxleEntered
  <2>2. d \in Options /\ d.enabled = o.enabled /\ d.tariffs = o.tariffs /\ d.current = o.current
    BY AxleSet DEF AxleStates
  <2> HIDE DEF d
  <2> QED BY <2>1, <2>2 DEF Compared
<1>2. CASE o.axle # "none"
  BY <1>2 DEF AxleDefaults
<1> QED BY <1>1, <1>2

(***************************************************************************)
(* What an answer stores never touches the tariffs, nor takes entered Axle *)
(* settings back.                                                          *)
(***************************************************************************)
LEMMA StoredTyped ==
  ASSUME NEW o \in Options, NEW step \in Steps, NEW reply \in Answers(step)
  PROVE  /\ Stored(o, step, reply) \in Options
         /\ AxleEntered(o) => AxleEntered(Stored(o, step, reply))
<1>1. CASE step = "main"
  BY <1>1 DEF Stored, MainStored, Options, AxleEntered, Methods
<1>2. CASE step = "heating"
  BY <1>2 DEF Stored, Answers, Options, AxleEntered, Methods
<1>3. CASE step \in Methods
  BY <1>3 DEF Stored, LossStored, Options, AxleEntered, Methods
<1>4. CASE step = "ml"
  BY <1>4 DEF Stored, Options, AxleEntered, Methods
<1>5. CASE step = "axle"
  BY <1>5, FilledIn, AxleSet DEF Stored, AxleEntered, AxleStates, Methods
<1>6. CASE step \notin {"main", "heating", "ml", "axle"} \cup Methods
  BY <1>6 DEF Stored
<1> QED BY <1>1, <1>2, <1>3, <1>4, <1>5, <1>6

LEMMA FlowFields ==
  ASSUME FlowTypeOK
  PROVE  /\ entry \in Options /\ flow \in Flows /\ flow.step \in FlowSteps
         /\ flow.opts \in Options /\ flow.resolved \in Codes \cup {NoCode}
         /\ flow.asShown \in BOOLEAN /\ flow.offered \in SUBSET Codes
         /\ flow.selected \in SUBSET Codes
  BY DEF FlowTypeOK, Flows, FlowSteps

(***************************************************************************)
(* A step of an open flow that leaves the entry, and one that closes it.   *)
(***************************************************************************)
LEMMA FlowGoesOn ==
  ASSUME FlowInv, UNCHANGED entry, flow' \in Flows,
         flow.step # "closed",
         AxleEntered(flow.opts) => AxleEntered(flow'.opts),
         flow'.step \in {"show pick", "pick", "export meter"} => flow'.opts.enabled,
         flow'.step = "export meter" => flow'.opts.tariffs # {} /\ Compared(flow'.opts)
  PROVE  FlowInv'
<1>1. FlowTypeOK'
  BY FlowFields DEF FlowInv, FlowTypeOK, Flows, FlowSteps
<1> QED BY <1>1 DEF FlowInv, Compared, AxleEntered

(***************************************************************************)
(* A flow that closes leaves the invariant to the entry it saves.          *)
(***************************************************************************)
LEMMA FlowCloses ==
  ASSUME entry' \in Options, Compared(entry'), flow' = Closed
  PROVE  FlowInv'
<1>1. flow' \in Flows /\ flow'.step = "closed"
  BY ClosedFlow
<1>2. FlowTypeOK'
  BY <1>1 DEF FlowTypeOK, Flows, FlowSteps
<1> QED BY <1>1, <1>2 DEF FlowInv, Compared

LEMMA OpensKeeps ==
  ASSUME FlowInv, SetupFlowOpens \/ OptionsFlowOpens
  PROVE  FlowInv'
<1>1. CASE SetupFlowOpens
  <2>1. /\ entry = NoEntry /\ UNCHANGED entry
        /\ flow' = [Closed EXCEPT !.step = "main"]
    BY <1>1 DEF SetupFlowOpens
  <2>2. flow' \in Flows /\ flow'.step = "main"
    <3> HIDE DEF Closed
    <3> QED BY <2>1, ClosedFlow DEF Flows, FlowSteps, Steps
  <2>3. ~AxleEntered(entry)
    BY <2>1, BlankOptions DEF AxleEntered
  <2>4. FlowTypeOK'
    BY <2>1, <2>2 DEF FlowInv, FlowTypeOK, Flows, FlowSteps
  <2> QED BY <2>1, <2>2, <2>3, <2>4 DEF FlowInv, Compared, AxleEntered
<1>2. CASE OptionsFlowOpens
  <2>1. /\ entry.version = 3 /\ UNCHANGED entry /\ entry \in Options
        /\ flow' = [Closed EXCEPT !.step = "main", !.opts = entry]
    BY <1>2 DEF OptionsFlowOpens, FlowInv, FlowTypeOK
  <2>2. flow' \in Flows /\ flow'.step = "main" /\ flow'.opts = entry
    <3> HIDE DEF Closed
    <3> QED BY <2>1, ClosedFlow DEF Flows, FlowSteps, Steps
  <2>4. FlowTypeOK'
    BY <2>1, <2>2 DEF FlowTypeOK, Flows, FlowSteps
  <2> QED BY <2>1, <2>2, <2>4 DEF FlowInv, Compared, AxleEntered
<1> QED BY <1>1, <1>2

LEMMA MigrateKeeps ==
  ASSUME FlowInv, Migrate
  PROVE  FlowInv' /\ (AxleEntered(entry) => AxleEntered(entry'))
<1>0. entry.version = 2 /\ UNCHANGED flow /\ flow.step = "closed"
  <2>1. entry.version = 2 /\ UNCHANGED flow /\ entry # NoEntry
    BY DEF Migrate
  <2>2. flow.step # "closed" => entry = NoEntry \/ entry.version = 3
    BY DEF FlowInv
  <2> QED BY <2>1, <2>2
<1> DEFINE a == IF entry.axle = "axel" THEN "given" ELSE entry.axle
<1>1. entry' = [entry EXCEPT !.version = 3, !.axle = a]
  BY DEF Migrate
<1>2. entry \in Options /\ a \in AxleStates
  BY OptionFields DEF FlowInv, FlowTypeOK, AxleStates
<1>3. AxleEntered(entry) => a \in {"axel", "given"}
  BY DEF AxleEntered
<1> HIDE DEF a
<1>4. /\ entry' \in Options /\ entry'.axle = a
      /\ entry'.enabled = entry.enabled /\ entry'.tariffs = entry.tariffs
      /\ entry'.current = entry.current
  <2> DEFINE d == [entry EXCEPT !.version = 3]
  <2>1. /\ d \in Options /\ d.enabled = entry.enabled /\ d.tariffs = entry.tariffs
        /\ d.current = entry.current
    BY <1>2 DEF Options
  <2>2. entry' = [d EXCEPT !.axle = a]
    BY <1>1, <1>2 DEF Options
  <2> HIDE DEF d
  <2> QED BY <1>2, <2>1, <2>2, AxleSet
<1>5. Compared(entry')
  BY <1>4 DEF FlowInv, Compared
<1>6. FlowTypeOK'
  BY <1>0, <1>4 DEF FlowInv, FlowTypeOK
<1> QED BY <1>0, <1>3, <1>4, <1>5, <1>6 DEF FlowInv, AxleEntered, Compared

LEMMA OldEntryKeeps ==
  ASSUME FlowInv, OldEntry
  PROVE  FlowInv' /\ ~AxleEntered(entry)
<1>1. /\ entry = NoEntry /\ flow = Closed /\ UNCHANGED flow
      /\ entry' \in Options /\ ~entry'.enabled /\ entry'.tariffs = {}
      /\ entry'.current = NoCode
  BY DEF OldEntry
<1>2. Compared(entry') /\ ~AxleEntered(entry)
  BY <1>1, BlankOptions DEF Compared, AxleEntered
<1> QED BY <1>1, <1>2, FlowCloses

LEMMA SubmitKeeps ==
  ASSUME FlowInv, Submit
  PROVE  FlowInv'
<1>0. flow.step \in Steps \ {"compare", "pick", "export meter"} /\ UNCHANGED entry
  BY DEF Submit
<1>1. PICK reply \in Answers(flow.step) :
        flow' = [Answered(flow.step, reply) EXCEPT !.step = Following(flow.step, reply)]
  BY DEF Submit
<1> DEFINE o == Stored(flow.opts, flow.step, reply)
           asIs == flow.asShown /\ reply = Shown(flow.step, flow.opts)
           next == Following(flow.step, reply)
<1>2. o \in Options /\ (AxleEntered(flow.opts) => AxleEntered(o))
  BY <1>0, FlowFields, StoredTyped DEF FlowInv
<1>3. next \in Steps \ {"pick", "export meter"}
  BY <1>0 DEF Following, Answers, Steps, Methods, HeatingTypes
<1>4. flow' = [[flow EXCEPT !.opts = o, !.asShown = asIs] EXCEPT !.step = next]
  BY <1>1 DEF Answered
<1>5. asIs \in BOOLEAN
  OBVIOUS
<1> HIDE DEF o, asIs, next
<1>6. flow' \in Flows /\ flow'.opts = o /\ flow'.step = next
  BY <1>2, <1>3, <1>4, <1>5, FlowFields DEF FlowInv, Flows, FlowSteps
<1>7. flow.step # "closed" /\ "show pick" \notin Steps
  BY <1>0 DEF Steps, Methods
<1> QED BY <1>0, <1>2, <1>3, <1>6, <1>7, FlowGoesOn

-----------------------------------------------------------------------------
(***************************************************************************)
(* The tariffs.                                                            *)
(***************************************************************************)
LEMMA SaveKeeps ==
  ASSUME FlowInv, NEW o \in Options, Compared(o), Save(o),
         AxleEntered(entry) => AxleEntered(o)
  PROVE  FlowInv' /\ (AxleEntered(entry) => AxleEntered(entry'))
<1>1. entry' \in Options /\ Compared(entry') /\ flow' = Closed
  BY FilledIn DEF Save
<1> QED BY <1>1, FilledIn, FlowCloses DEF Save

LEMMA CompareDisabledKeeps ==
  ASSUME FlowInv, CompareDisabled
  PROVE  FlowInv' /\ (AxleEntered(entry) => AxleEntered(entry'))
<1> DEFINE o == [flow.opts EXCEPT !.enabled = FALSE, !.tariffs = {}, !.current = NoCode]
<1>1. flow.opts \in Options /\ (AxleEntered(entry) => AxleEntered(flow.opts))
  BY FlowFields DEF FlowInv, CompareDisabled
<1>2. /\ o \in Options /\ o.enabled = FALSE /\ o.tariffs = {} /\ o.current = NoCode
      /\ o.axle = flow.opts.axle
  BY <1>1 DEF Options
<1>3. Save(o)
  BY DEF CompareDisabled
<1> HIDE DEF o
<1>4. Compared(o) /\ (AxleEntered(entry) => AxleEntered(o))
  BY <1>1, <1>2 DEF Compared, AxleEntered
<1> QED BY <1>2, <1>3, <1>4, SaveKeeps

LEMMA ExportMeterKeeps ==
  ASSUME FlowInv, ExportMeter
  PROVE  FlowInv' /\ (AxleEntered(entry) => AxleEntered(entry'))
<1>1. PICK given \in BOOLEAN : Save([flow.opts EXCEPT !.exportMpan = given])
  BY DEF ExportMeter
<1> DEFINE o == [flow.opts EXCEPT !.exportMpan = given]
<1>2. /\ flow.opts \in Options /\ Compared(flow.opts)
      /\ AxleEntered(entry) => AxleEntered(flow.opts)
  BY FlowFields DEF FlowInv, ExportMeter
<1>3. /\ o \in Options /\ o.enabled = flow.opts.enabled /\ o.tariffs = flow.opts.tariffs
      /\ o.current = flow.opts.current /\ o.axle = flow.opts.axle
  BY <1>2 DEF Options
<1>4. Save(o)
  BY <1>1
<1> HIDE DEF o
<1>5. Compared(o) /\ (AxleEntered(entry) => AxleEntered(o))
  BY <1>2, <1>3 DEF Compared, AxleEntered
<1> QED BY <1>3, <1>4, <1>5, SaveKeeps

LEMMA CompareEnabledKeeps ==
  ASSUME FlowInv, CompareEnabled
  PROVE  FlowInv'
<1> DEFINE o == [flow.opts EXCEPT !.enabled = TRUE]
           asIs == flow.asShown /\ "enable" = Shown("compare", flow.opts)
<1>1. flow.step = "compare" /\ UNCHANGED entry /\ flow.opts \in Options
  BY FlowFields DEF CompareEnabled, FlowInv
<1>2. o \in Options /\ o.enabled = TRUE /\ o.axle = flow.opts.axle /\ asIs \in BOOLEAN
  BY <1>1 DEF Options
<1>3. Stored(flow.opts, "compare", "enable") = flow.opts
  BY DEF Stored, Methods
<1>4. flow' = [[flow EXCEPT !.opts = flow.opts, !.asShown = asIs]
                 EXCEPT !.step = "show pick", !.opts = [@ EXCEPT !.enabled = TRUE]]
  BY <1>3 DEF CompareEnabled, Answered
<1> DEFINE mid == [flow EXCEPT !.opts = flow.opts, !.asShown = asIs]
<1>5. mid \in Flows /\ mid.opts = flow.opts
  <2> HIDE DEF asIs
  <2> QED BY <1>1, <1>2, FlowFields DEF FlowInv, Flows
<1>6. flow' = [mid EXCEPT !.step = "show pick", !.opts = o]
  <2>1. flow' = [mid EXCEPT !.step = "show pick", !.opts = [@ EXCEPT !.enabled = TRUE]]
    BY <1>4
  <2> HIDE DEF mid
  <2> QED BY <2>1, <1>5 DEF Flows
<1> HIDE DEF o, mid
<1>7. flow' \in Flows /\ flow'.opts = o /\ flow'.step = "show pick"
  BY <1>2, <1>5, <1>6 DEF Flows, FlowSteps
<1> QED BY <1>1, <1>2, <1>7, FlowGoesOn DEF AxleEntered

LEMMA PickShownKeeps ==
  ASSUME FlowInv, PickShown
  PROVE  FlowInv'
<1>0. flow.step = "show pick" /\ UNCHANGED entry /\ flow.opts.enabled
  BY DEF PickShown, FlowInv
<1>1. PICK r \in Codes \cup {NoCode}, f \in SUBSET Codes, s \in SUBSET Codes :
        flow' = [flow EXCEPT !.step = "pick", !.selected = s, !.offered = f, !.resolved = r]
  <2>1. PICK code \in Codes \cup {NoCode}, listed \in SUBSET Codes, keeps \in BOOLEAN :
          LET now == IF code = NoCode THEN {} ELSE {code}
              default == IF flow.opts.tariffs # {} THEN flow.opts.tariffs ELSE now
          IN flow' = [flow EXCEPT !.step = "pick", !.selected = default,
                        !.offered = listed \cup default,
                        !.resolved = IF code = NoCode /\ keeps THEN @ ELSE code]
    BY DEF PickShown
  <2> DEFINE now == IF code = NoCode THEN {} ELSE {code}
             default == IF flow.opts.tariffs # {} THEN flow.opts.tariffs ELSE now
             r == IF code = NoCode /\ keeps THEN flow.resolved ELSE code
  <2>2. /\ default \in SUBSET Codes /\ listed \cup default \in SUBSET Codes
        /\ r \in Codes \cup {NoCode}
    BY FlowFields, OptionFields DEF FlowInv
  <2>3. flow' = [flow EXCEPT !.step = "pick", !.selected = default,
                   !.offered = listed \cup default, !.resolved = r]
    BY <2>1, FlowFields DEF FlowInv, Flows
  <2> HIDE DEF default, r
  <2> QED BY <2>2, <2>3
<1>2. flow' \in Flows /\ flow'.opts = flow.opts /\ flow'.step = "pick"
  BY <1>1, FlowFields DEF FlowInv, Flows, FlowSteps, Steps
<1> QED BY <1>0, <1>2, FlowGoesOn

LEMMA RefusedKeeps ==
  ASSUME FlowInv, ReportRefused \/ NothingPicked
  PROVE  FlowInv'
<1>0. UNCHANGED entry /\ flow.step # "closed"
  BY DEF ReportRefused, NothingPicked
<1>1. CASE ReportRefused
  <2>1. flow' \in Flows /\ flow'.opts = flow.opts /\ flow'.step = "report"
    BY <1>1, FlowFields DEF FlowInv, ReportRefused, Flows
  <2> QED BY <1>0, <2>1, FlowGoesOn
<1>2. CASE NothingPicked
  <2> DEFINE asIs == flow.asShown /\ flow.selected = {}
  <2>1. flow' = [flow EXCEPT !.step = "show pick", !.asShown = asIs] /\ asIs \in BOOLEAN
    BY <1>2, FlowFields DEF FlowInv, NothingPicked, Flows
  <2> HIDE DEF asIs
  <2>2. flow' \in Flows /\ flow'.opts = flow.opts /\ flow'.step = "show pick"
    BY <2>1, FlowFields DEF FlowInv, Flows, FlowSteps
  <2>3. flow.opts.enabled
    BY <1>2 DEF NothingPicked, FlowInv
  <2> QED BY <1>0, <2>2, <2>3, FlowGoesOn
<1> QED BY <1>1, <1>2

LEMMA PickedKeeps ==
  ASSUME FlowInv, Picked
  PROVE  FlowInv'
<1>1. PICK s \in (SUBSET flow.offered) \ {{}} : PickStored(s)
  BY DEF Picked
<1> DEFINE c == IF flow.resolved \in s THEN flow.resolved ELSE NoCode
           o == [flow.opts EXCEPT !.tariffs = s, !.current = c]
           asIs == flow.asShown /\ s = flow.selected
<1>2. /\ s \in SUBSET Codes /\ s # {} /\ c \in Codes \cup {NoCode} /\ c \in s \cup {NoCode}
      /\ flow.opts \in Options /\ flow.opts.enabled /\ flow.step = "pick" /\ UNCHANGED entry
  BY FlowFields DEF FlowInv, Picked
<1>3. flow' = [flow EXCEPT !.step = "export meter", !.asShown = asIs, !.opts = o]
  BY <1>1, FlowFields DEF FlowInv, PickStored, Flows
<1> HIDE DEF c
<1>4. /\ o \in Options /\ o.tariffs = s /\ o.current = c /\ o.enabled = flow.opts.enabled
      /\ o.axle = flow.opts.axle
  <2>1. flow.opts \in Options /\ s \in SUBSET Codes /\ c \in Codes \cup {NoCode}
    BY <1>2
  <2> QED BY <2>1 DEF Options
<1>5. asIs \in BOOLEAN
  OBVIOUS
<1> HIDE DEF o, asIs
<1>6. flow' \in Flows /\ flow'.opts = o /\ flow'.step = "export meter"
  BY <1>3, <1>4, <1>5, FlowFields DEF FlowInv, Flows, FlowSteps, Steps
<1>7. Compared(o) /\ o.enabled /\ (AxleEntered(flow.opts) => AxleEntered(o))
  BY <1>2, <1>4 DEF Compared, AxleEntered
<1> QED BY <1>2, <1>4, <1>6, <1>7, FlowGoesOn

-----------------------------------------------------------------------------
LEMMA FlowInitInv == FlowInit => FlowInv
<1> SUFFICES ASSUME FlowInit PROVE FlowInv
  OBVIOUS
<1>1. entry = NoEntry /\ flow = Closed
  BY DEF FlowInit
<1>2. /\ entry \in Options /\ Compared(entry) /\ flow \in Flows /\ flow.step = "closed"
  BY <1>1, BlankOptions, ClosedFlow
<1>3. FlowTypeOK
  BY <1>2 DEF FlowTypeOK, Flows, FlowSteps
<1> QED BY <1>2, <1>3 DEF FlowInv

LEMMA FlowNextInv ==
  FlowInv /\ [FlowNext]_flowVars
    => FlowInv' /\ [AxleEntered(entry) => AxleEntered(entry')]_flowVars
<1> SUFFICES ASSUME FlowInv, [FlowNext]_flowVars
             PROVE  FlowInv' /\ (AxleEntered(entry) => AxleEntered(entry'))
  OBVIOUS
<1>1. CASE UNCHANGED entry
  <2>1. AxleEntered(entry) => AxleEntered(entry')
    BY <1>1
  <2>2. CASE SetupFlowOpens \/ OptionsFlowOpens
    BY <2>1, <2>2, OpensKeeps
  <2>3. CASE Abandon
    <3>1. flow' = Closed /\ entry' \in Options /\ Compared(entry')
      BY <1>1, <2>3 DEF Abandon, FlowInv, FlowTypeOK
    <3> QED BY <2>1, <3>1, FlowCloses
  <2>4. CASE Submit
    BY <2>1, <2>4, SubmitKeeps
  <2>5. CASE ReportRefused \/ NothingPicked
    BY <2>1, <2>5, RefusedKeeps
  <2>6. CASE CompareEnabled
    BY <2>1, <2>6, CompareEnabledKeeps
  <2>7. CASE PickShown
    BY <2>1, <2>7, PickShownKeeps
  <2>8. CASE Picked
    BY <2>1, <2>8, PickedKeeps
  <2>9. CASE OldEntry \/ Migrate \/ CompareDisabled \/ ExportMeter
    BY <2>9, OldEntryKeeps, MigrateKeeps, CompareDisabledKeeps, ExportMeterKeeps
  <2>10. CASE UNCHANGED flowVars
    BY <2>1, <2>10 DEF flowVars, FlowInv, FlowTypeOK, Compared, AxleEntered
  <2> QED
    BY <2>2, <2>3, <2>4, <2>5, <2>6, <2>7, <2>8, <2>9, <2>10 DEF FlowNext
<1>2. CASE entry' # entry
  <2>1. OldEntry \/ Migrate \/ CompareDisabled \/ ExportMeter
    BY <1>2
    DEF FlowNext, SetupFlowOpens, OptionsFlowOpens, Abandon, Submit, ReportRefused,
        CompareEnabled, PickShown, NothingPicked, Picked, flowVars
  <2> QED BY <2>1, OldEntryKeeps, MigrateKeeps, CompareDisabledKeeps, ExportMeterKeeps
<1> QED BY <1>1, <1>2

(***************************************************************************)
(* The types of the flow and the entry it saves.                           *)
(***************************************************************************)
THEOREM FlowTyping == FlowSpec => []FlowTypeOK
<1>1. FlowInv => FlowTypeOK
  BY DEF FlowInv
<1> QED BY <1>1, FlowInitInv, FlowNextInv, PTL DEF FlowSpec

(***************************************************************************)
(* A saved entry compares tariffs exactly when the comparison is on, and   *)
(* the account's own is one of them, whatever path the forms took          *)
(* (async_step_tariff_comparison, _tariff_codes_to_stored_json).           *)
(***************************************************************************)
THEOREM TariffsOfEntry == FlowSpec => []ComparedIffEnabled
<1>1. FlowInv => ComparedIffEnabled
  BY DEF FlowInv, Compared, ComparedIffEnabled
<1> QED BY <1>1, FlowInitInv, FlowNextInv, PTL DEF FlowSpec

(***************************************************************************)
(* Axle settings that were entered are never replaced by defaults, by the  *)
(* migration or by any flow (_with_axle_defaults, async_migrate_entry).    *)
(***************************************************************************)
THEOREM AxleSettingsKept == FlowSpec => AxleKept
  BY FlowInitInv, FlowNextInv, PTL DEF FlowSpec, AxleKept

-----------------------------------------------------------------------------
(***************************************************************************)
(* A flow whose forms were all submitted as shown has the options of the   *)
(* entry, but for what the heat loss and the Axle forms fill in; it asks   *)
(* for the heat loss as MethodShown says, and its selection is what the    *)
(* entry compares.                                                         *)
(***************************************************************************)
LossOf(o) ==
  o.loss # entry.loss =>
    entry.heating = "electric" /\ MethodShown(entry) \notin {"known", entry.loss}

SameAsEntry(o) ==
  /\ o.heating = entry.heating /\ o.building = entry.building /\ o.report = entry.report
  /\ o.enabled = entry.enabled /\ o.tariffs = entry.tariffs
  /\ o.axle = entry.axle \/ entry.axle = "none"
  /\ LossOf(o)

ShownAlong ==
  /\ flow.step \in Methods \cup {"electric", "method"} => entry.heating = "electric"
  /\ flow.step \in Methods => flow.step = MethodShown(entry)
  /\ flow.step = "pick" => flow.selected = entry.tariffs

AsShownInv ==
  entry # NoEntry /\ flow.step # "closed" /\ flow.asShown => SameAsEntry(flow.opts) /\ ShownAlong

KeptAsShown ==
  entry # NoEntry /\ flow.asShown /\ LastAsShown /\ flow' = Closed =>
    /\ entry'.heating = entry.heating
    /\ entry'.tariffs = entry.tariffs
    /\ entry'.axle = entry.axle \/ entry.axle = "none"
    /\ entry'.loss # entry.loss =>
         entry.heating = "electric" /\ MethodShown(entry) \notin {"known", entry.loss}

(***************************************************************************)
(* A form submitted as shown changes none of the options that count,       *)
(* whichever form it is.                                                   *)
(***************************************************************************)
LEMMA StoredAsShown ==
  ASSUME NEW o \in Options, entry \in Options, NEW step \in Steps, SameAsEntry(o),
         step \in Methods => entry.heating = "electric" /\ step = MethodShown(entry)
  PROVE  SameAsEntry(Stored(o, step, Shown(step, o)))
<1>1. CASE step = "main"
  <2> DEFINE n == [o EXCEPT !.mpan = FALSE, !.exportMpan = FALSE]
  <2>1. Stored(o, step, Shown(step, o)) = n
    <3>1. Stored(o, step, Shown(step, o)) = MainStored(o)
      BY <1>1 DEF Stored, Methods
    <3> QED BY <3>1 DEF MainStored
  <2>2. /\ n.heating = o.heating /\ n.building = o.building /\ n.report = o.report
        /\ n.enabled = o.enabled /\ n.tariffs = o.tariffs /\ n.axle = o.axle
        /\ n.loss = o.loss
    BY DEF Options
  <2> HIDE DEF n
  <2> QED BY <2>1, <2>2 DEF SameAsEntry, LossOf
<1>2. CASE step = "heating"
  <2>1. Stored(o, step, Shown(step, o)) = [o EXCEPT !.heating = o.heating]
    BY <1>2 DEF Stored, Shown, Methods
  <2>2. [o EXCEPT !.heating = o.heating] = o
    BY DEF Options
  <2> QED BY <2>1, <2>2
<1>3. CASE step \in Methods
  <2>1. Shown(step, o) = "as shown"
    BY <1>3 DEF Shown, Methods
  <2>2. CASE step = "known"
    <3>1. Stored(o, step, Shown(step, o)) = o
      BY <2>1, <2>2 DEF Stored, LossStored, Methods
    <3> QED BY <3>1
  <2>3. CASE step = "report"
    <3>1. Stored(o, step, Shown(step, o)) = [o EXCEPT !.loss = "report", !.report = TRUE]
      BY <2>1, <2>3 DEF Stored, LossStored, Methods
    <3> DEFINE n == [o EXCEPT !.loss = "report", !.report = TRUE]
    <3>2. /\ n.heating = o.heating /\ n.building = o.building /\ n.report = TRUE
          /\ n.enabled = o.enabled /\ n.tariffs = o.tariffs /\ n.axle = o.axle
          /\ n.loss = "report"
      BY DEF Options
    <3> HIDE DEF n
    <3>3. entry.heating = "electric" /\ MethodShown(entry) = "report"
      BY <1>3, <2>3
    <3>4. entry.report = TRUE
      BY <3>3, OptionFields DEF MethodShown
    <3>5. SameAsEntry(n)
      BY <3>2, <3>3, <3>4 DEF SameAsEntry, LossOf
    <3> QED BY <3>1, <3>5 DEF n
  <2>4. CASE step = "estimate"
    <3>1. Stored(o, step, Shown(step, o)) = [o EXCEPT !.loss = "estimate", !.building = TRUE]
      BY <2>1, <2>4 DEF Stored, LossStored, Methods
    <3> DEFINE n == [o EXCEPT !.loss = "estimate", !.building = TRUE]
    <3>2. /\ n.heating = o.heating /\ n.building = TRUE /\ n.report = o.report
          /\ n.enabled = o.enabled /\ n.tariffs = o.tariffs /\ n.axle = o.axle
          /\ n.loss = "estimate"
      BY DEF Options
    <3> HIDE DEF n
    <3>3. entry.heating = "electric" /\ MethodShown(entry) = "estimate"
      BY <1>3, <2>4
    <3>4. entry.building = TRUE
      BY <3>3, OptionFields DEF MethodShown
    <3>5. SameAsEntry(n)
      BY <3>2, <3>3, <3>4 DEF SameAsEntry, LossOf
    <3> QED BY <3>1, <3>5 DEF n
  <2> QED BY <1>3, <2>2, <2>3, <2>4 DEF Methods
<1>4. CASE step = "axle"
  <2>1. Stored(o, step, Shown(step, o)) = AxleDefaults(o)
    BY <1>4 DEF Stored, Shown, Methods
  <2>2. CASE o.axle = "none"
    <3> DEFINE n == [o EXCEPT !.axle = "default"]
    <3>1. /\ n.heating = o.heating /\ n.building = o.building /\ n.report = o.report
          /\ n.enabled = o.enabled /\ n.tariffs = o.tariffs /\ n.loss = o.loss
      BY DEF Options
    <3>2. AxleDefaults(o) = n
      BY <2>2 DEF AxleDefaults
    <3> HIDE DEF n
    <3>3. entry.axle = "none"
      BY <2>2 DEF SameAsEntry
    <3> QED BY <2>1, <3>1, <3>2, <3>3 DEF SameAsEntry, LossOf
  <2>3. CASE o.axle # "none"
    BY <2>1, <2>3 DEF AxleDefaults
  <2> QED BY <2>2, <2>3
<1>5. CASE step \notin {"main", "heating", "axle"} \cup Methods
  <2>1. Stored(o, step, Shown(step, o)) = o
    BY <1>5 DEF Stored, Shown
  <2> QED BY <2>1
<1> QED BY <1>1, <1>2, <1>3, <1>4, <1>5

(***************************************************************************)
(* A step that keeps the entry and the flow open need only keep what was   *)
(* collected.                                                              *)
(***************************************************************************)
LEMMA GoesOnAsShown ==
  ASSUME UNCHANGED entry, flow' # Closed,
         flow'.asShown => flow.asShown, flow.step # "closed",
         entry # NoEntry /\ flow.asShown /\ flow'.asShown => SameAsEntry(flow'.opts) /\ ShownAlong'
  PROVE  AsShownInv' /\ KeptAsShown
BY DEF AsShownInv, KeptAsShown, SameAsEntry, LossOf

(***************************************************************************)
(* A form submitted: if it was not as shown, nothing more is claimed of    *)
(* this flow.                                                              *)
(***************************************************************************)
LEMMA SubmitAsShown ==
  ASSUME FlowInv, AsShownInv, Submit
  PROVE  AsShownInv' /\ KeptAsShown
<1>0. /\ flow.step \in Steps \ {"compare", "pick", "export meter"} /\ UNCHANGED entry
      /\ flow.step # "closed"
  BY DEF Submit, Steps, Methods
<1>1. PICK reply \in Answers(flow.step) :
        flow' = [Answered(flow.step, reply) EXCEPT !.step = Following(flow.step, reply)]
  BY DEF Submit
<1> DEFINE o == Stored(flow.opts, flow.step, reply)
           asIs == flow.asShown /\ reply = Shown(flow.step, flow.opts)
           next == Following(flow.step, reply)
<1>2. flow.opts \in Options /\ entry \in Options /\ flow.asShown \in BOOLEAN /\ flow \in Flows
  BY FlowFields DEF FlowInv
<1>3. flow' = [[flow EXCEPT !.opts = o, !.asShown = asIs] EXCEPT !.step = next]
  BY <1>1 DEF Answered
<1>4. flow'.opts = o /\ flow'.step = next /\ flow'.asShown = asIs
  <2> HIDE DEF o, asIs, next
  <2> QED BY <1>2, <1>3 DEF Flows
<1>5. next \in Steps \ {"pick"} /\ next # "closed"
  BY <1>0 DEF Following, Answers, Steps, Methods, HeatingTypes
<1>6. flow' # Closed
  BY <1>4, <1>5, ClosedFlow
<1>7. ASSUME entry # NoEntry, flow.asShown, asIs
      PROVE  SameAsEntry(o) /\ ShownAlong'
  <2>1. SameAsEntry(flow.opts) /\ ShownAlong
    BY <1>0, <1>7 DEF AsShownInv
  <2>2. reply = Shown(flow.step, flow.opts)
    BY <1>7
  <2>3. SameAsEntry(o)
    BY <1>0, <1>2, <2>1, <2>2, StoredAsShown DEF ShownAlong
  <2>4. next \in Methods \cup {"electric", "method"} => entry.heating = "electric"
    <3>1. flow.step = "heating" => reply = flow.opts.heating
      BY <2>2 DEF Shown
    <3>2. flow.opts.heating = entry.heating
      BY <2>1 DEF SameAsEntry
    <3>3. next \in Methods \cup {"electric", "method"} =>
            \/ flow.step \in {"electric", "method"}
            \/ flow.step = "heating" /\ reply = "electric"
      BY <1>0 DEF Following, Steps, Methods, Answers, HeatingTypes
    <3> QED BY <2>1, <3>1, <3>2, <3>3 DEF ShownAlong
  <2>5. next \in Methods => next = MethodShown(entry)
    <3>1. next \in Methods => flow.step = "method" /\ next = reply
      BY <1>0 DEF Following, Steps, Methods, Answers, HeatingTypes
    <3>2. flow.step = "method" => reply = MethodShown(flow.opts)
      BY <2>2 DEF Shown
    <3>3. MethodShown(flow.opts) = MethodShown(entry)
      BY <2>1 DEF SameAsEntry, MethodShown
    <3> QED BY <3>1, <3>2, <3>3
  <2> HIDE DEF o, next
  <2> QED BY <1>0, <1>4, <1>5, <2>3, <2>4, <2>5 DEF ShownAlong, MethodShown
<1> HIDE DEF o, asIs, next
<1>8. asIs => flow.asShown
  BY DEF asIs
<1>9. UNCHANGED entry
  BY <1>0
<1> QED BY <1>0, <1>4, <1>6, <1>7, <1>8, <1>9, GoesOnAsShown

(***************************************************************************)
(* The comparison and its tariffs: the selection shown is the one the      *)
(* entry compares.                                                         *)
(***************************************************************************)
LEMMA PickAsShown ==
  ASSUME FlowInv, AsShownInv, CompareEnabled \/ PickShown \/ NothingPicked \/ Picked \/ ReportRefused
  PROVE  AsShownInv' /\ KeptAsShown
<1>0. /\ flow.opts \in Options /\ entry \in Options /\ flow.asShown \in BOOLEAN /\ flow \in Flows
      /\ UNCHANGED entry /\ flow.step # "closed" /\ "enable" # "disable"
  BY FlowFields
  DEF FlowInv, CompareEnabled, PickShown, NothingPicked, Picked, ReportRefused
<1>1. entry # NoEntry /\ flow.asShown => SameAsEntry(flow.opts) /\ ShownAlong
  BY <1>0 DEF AsShownInv
<1>2. CASE CompareEnabled
  <2> DEFINE o == [flow.opts EXCEPT !.enabled = TRUE]
             asIs == flow.asShown /\ "enable" = Shown("compare", flow.opts)
  <2>1. Stored(flow.opts, "compare", "enable") = flow.opts
    BY DEF Stored, Methods
  <2>2. flow' = [[flow EXCEPT !.opts = flow.opts, !.asShown = asIs]
                   EXCEPT !.step = "show pick", !.opts = [@ EXCEPT !.enabled = TRUE]]
    BY <1>2, <2>1 DEF CompareEnabled, Answered
  <2> DEFINE mid == [flow EXCEPT !.opts = flow.opts, !.asShown = asIs]
  <2>3. mid.opts = flow.opts /\ mid \in Flows /\ mid.asShown = asIs
    <3> HIDE DEF asIs
    <3>1. asIs \in BOOLEAN
      BY <1>0 DEF asIs
    <3> QED BY <1>0, <3>1 DEF Flows
  <2>4. flow'.step = "show pick" /\ flow'.opts = o /\ flow'.asShown = asIs
    <3>1. flow' = [mid EXCEPT !.step = "show pick", !.opts = [@ EXCEPT !.enabled = TRUE]]
      BY <2>2
    <3> HIDE DEF mid, asIs
    <3> QED BY <2>3, <3>1 DEF Flows
  <2> HIDE DEF mid
  <2>5. flow' # Closed
    BY <2>4, ClosedFlow
  <2>6. ASSUME entry # NoEntry, asIs  PROVE SameAsEntry(o) /\ ShownAlong'
    <3>1. flow.opts.enabled = TRUE
      BY <1>0, <2>6, OptionFields DEF Shown
    <3>2. o = flow.opts
      BY <1>0, <3>1 DEF Options
    <3>3. ShownAlong'
      BY <2>4 DEF ShownAlong, Methods
    <3> QED BY <1>1, <2>6, <3>2, <3>3
  <2>7. asIs => flow.asShown
    OBVIOUS
  <2> HIDE DEF o, asIs
  <2> QED BY <1>0, <2>4, <2>5, <2>6, <2>7, GoesOnAsShown
<1>3. CASE PickShown
  <2>1. PICK r, f, s : /\ flow' = [flow EXCEPT !.step = "pick", !.selected = s,
                                   !.offered = f, !.resolved = r]
                       /\ flow.opts.tariffs # {} => s = flow.opts.tariffs
    <3>1. PICK code \in Codes \cup {NoCode}, listed \in SUBSET Codes, keeps \in BOOLEAN :
            LET now == IF code = NoCode THEN {} ELSE {code}
                default == IF flow.opts.tariffs # {} THEN flow.opts.tariffs ELSE now
            IN flow' = [flow EXCEPT !.step = "pick", !.selected = default,
                          !.offered = listed \cup default,
                          !.resolved = IF code = NoCode /\ keeps THEN @ ELSE code]
      BY <1>3 DEF PickShown
    <3> DEFINE now == IF code = NoCode THEN {} ELSE {code}
               default == IF flow.opts.tariffs # {} THEN flow.opts.tariffs ELSE now
               r == IF code = NoCode /\ keeps THEN flow.resolved ELSE code
    <3>2. flow' = [flow EXCEPT !.step = "pick", !.selected = default,
                     !.offered = listed \cup default, !.resolved = r]
      BY <1>0, <3>1 DEF Flows
    <3>3. flow.opts.tariffs # {} => default = flow.opts.tariffs
      OBVIOUS
    <3> HIDE DEF default, r
    <3> QED BY <3>2, <3>3
  <2>2. /\ flow'.step = "pick" /\ flow'.opts = flow.opts /\ flow'.selected = s
        /\ flow'.asShown = flow.asShown
    BY <1>0, <2>1 DEF Flows
  <2>3. flow' # Closed
    BY <2>2, ClosedFlow
  <2>4. flow.opts.enabled /\ (entry = NoEntry \/ entry.version = 3) /\ Compared(entry)
    BY <1>0, <1>3 DEF FlowInv, PickShown
  <2>5. ASSUME entry # NoEntry, flow.asShown  PROVE SameAsEntry(flow.opts) /\ ShownAlong'
    <3>1. SameAsEntry(flow.opts)
      BY <1>1, <2>5
    <3>2. entry.tariffs # {} /\ flow.opts.tariffs = entry.tariffs
      BY <2>4, <3>1 DEF SameAsEntry, Compared
    <3>3. ShownAlong'
      BY <1>0, <2>1, <2>2, <3>2 DEF ShownAlong, Methods
    <3> QED BY <3>1, <3>3
  <2> QED BY <1>0, <2>2, <2>3, <2>5, GoesOnAsShown
<1>4. CASE NothingPicked
  <2> DEFINE asIs == flow.asShown /\ flow.selected = {}
  <2>1. flow' = [flow EXCEPT !.step = "show pick", !.asShown = asIs]
    BY <1>0, <1>4 DEF NothingPicked, Flows
  <2>2. flow'.step = "show pick" /\ flow'.opts = flow.opts /\ flow'.asShown = asIs
    <3> HIDE DEF asIs
    <3> QED BY <1>0, <2>1 DEF Flows
  <2>3. flow' # Closed
    BY <2>2, ClosedFlow
  <2>4. ShownAlong'
    BY <2>2 DEF ShownAlong, Methods
  <2> QED BY <1>0, <1>1, <2>2, <2>3, <2>4, GoesOnAsShown
<1>5. CASE Picked
  <2>1. PICK s \in (SUBSET flow.offered) \ {{}} : PickStored(s)
    BY <1>5 DEF Picked
  <2> DEFINE c == IF flow.resolved \in s THEN flow.resolved ELSE NoCode
             o == [flow.opts EXCEPT !.tariffs = s, !.current = c]
             asIs == flow.asShown /\ s = flow.selected
  <2>2. flow' = [flow EXCEPT !.step = "export meter", !.asShown = asIs, !.opts = o]
    BY <1>0, <2>1 DEF PickStored, Flows
  <2>3. flow'.step = "export meter" /\ flow'.opts = o /\ flow'.asShown = asIs
    <3> HIDE DEF o, asIs
    <3> QED BY <1>0, <2>2 DEF Flows
  <2>4. flow' # Closed
    BY <2>3, ClosedFlow
  <2>5. /\ o.heating = flow.opts.heating /\ o.building = flow.opts.building
        /\ o.report = flow.opts.report /\ o.enabled = flow.opts.enabled /\ o.tariffs = s
        /\ o.axle = flow.opts.axle /\ o.loss = flow.opts.loss
    <3> HIDE DEF c
    <3> QED BY <1>0 DEF Options
  <2>6. ASSUME entry # NoEntry, asIs  PROVE SameAsEntry(o) /\ ShownAlong'
    <3>1. SameAsEntry(flow.opts) /\ s = entry.tariffs
      BY <1>1, <1>5, <2>6 DEF Picked, ShownAlong
    <3> HIDE DEF o
    <3>2. ShownAlong'
      BY <2>3 DEF ShownAlong, Methods
    <3> QED BY <2>5, <3>1, <3>2 DEF SameAsEntry, LossOf
  <2>7. asIs => flow.asShown
    OBVIOUS
  <2> HIDE DEF o, asIs
  <2> QED BY <1>0, <2>3, <2>4, <2>6, <2>7, GoesOnAsShown
<1>6. CASE ReportRefused
  <2>1. flow'.step = "report" /\ flow'.asShown = FALSE
    BY <1>0, <1>6 DEF ReportRefused, Flows
  <2>2. flow' # Closed
    BY <2>1, ClosedFlow
  <2> QED BY <1>0, <2>1, <2>2, GoesOnAsShown
<1> QED BY <1>2, <1>3, <1>4, <1>5, <1>6

(***************************************************************************)
(* The two steps that save what was collected.                             *)
(***************************************************************************)
LEMMA SaveAsShown ==
  ASSUME FlowInv, AsShownInv, CompareDisabled \/ ExportMeter
  PROVE  AsShownInv' /\ KeptAsShown
<1>0. flow.opts \in Options /\ entry \in Options /\ flow.step # "closed"
  BY FlowFields DEF FlowInv, CompareDisabled, ExportMeter
<1>1. entry # NoEntry /\ flow.asShown => SameAsEntry(flow.opts)
  BY <1>0 DEF AsShownInv
<1>2. ASSUME NEW o \in Options, Save(o), entry # NoEntry, flow.asShown,
             o.heating = flow.opts.heating, o.tariffs = flow.opts.tariffs,
             o.axle = flow.opts.axle, o.loss = flow.opts.loss
      PROVE  KeptAsShown
  <2>1. entry' = AxleDefaults(o) /\ SameAsEntry(flow.opts)
    BY <1>1, <1>2 DEF Save
  <2>2. CASE o.axle = "none"
    <3> DEFINE n == [o EXCEPT !.axle = "default"]
    <3>1. n.heating = o.heating /\ n.tariffs = o.tariffs /\ n.loss = o.loss
      BY DEF Options
    <3>2. entry' = n
      BY <2>1, <2>2 DEF AxleDefaults
    <3> HIDE DEF n
    <3>3. entry.axle = "none"
      BY <1>2, <2>1, <2>2 DEF SameAsEntry
    <3> QED BY <1>2, <2>1, <3>1, <3>2, <3>3 DEF KeptAsShown, SameAsEntry, LossOf
  <2>3. CASE o.axle # "none"
    <3>1. entry' = o
      BY <2>1, <2>3 DEF AxleDefaults
    <3> QED BY <1>2, <2>1, <3>1 DEF KeptAsShown, SameAsEntry, LossOf
  <2> QED BY <2>2, <2>3
<1>3. flow' = Closed /\ AsShownInv'
  <2>1. flow' = Closed
    BY DEF CompareDisabled, ExportMeter, Save
  <2> QED BY <2>1, ClosedFlow DEF AsShownInv
<1>4. CASE CompareDisabled
  <2> DEFINE o == [flow.opts EXCEPT !.enabled = FALSE, !.tariffs = {}, !.current = NoCode]
  <2>1. /\ o \in Options /\ o.tariffs = {} /\ o.heating = flow.opts.heating
        /\ o.axle = flow.opts.axle /\ o.loss = flow.opts.loss
    BY <1>0 DEF Options
  <2>2. Save(o)
    BY <1>4 DEF CompareDisabled
  <2>3. SUFFICES ASSUME entry # NoEntry, flow.asShown, LastAsShown  PROVE KeptAsShown
    BY <1>3 DEF KeptAsShown
  <2>4. flow.opts.tariffs = {}
    <3>1. ~ flow.opts.enabled
      BY <1>4, <2>3 DEF CompareDisabled, LastAsShown
    <3> QED BY <1>1, <2>3, <3>1 DEF SameAsEntry, FlowInv, Compared
  <2> HIDE DEF o
  <2> QED BY <1>2, <2>1, <2>2, <2>3, <2>4
<1>5. CASE ExportMeter
  <2>1. PICK given \in BOOLEAN : Save([flow.opts EXCEPT !.exportMpan = given])
    BY <1>5 DEF ExportMeter
  <2> DEFINE o == [flow.opts EXCEPT !.exportMpan = given]
  <2>2. /\ o \in Options /\ o.tariffs = flow.opts.tariffs /\ o.heating = flow.opts.heating
        /\ o.axle = flow.opts.axle /\ o.loss = flow.opts.loss
    BY <1>0 DEF Options
  <2>3. SUFFICES ASSUME entry # NoEntry, flow.asShown  PROVE KeptAsShown
    BY <1>3 DEF KeptAsShown
  <2>4. Save(o)
    BY <2>1
  <2> HIDE DEF o
  <2> QED BY <1>2, <2>2, <2>3, <2>4
<1> QED BY <1>3, <1>4, <1>5

(***************************************************************************)
(* Flows that open and close, and migrations: a flow that opens starts     *)
(* from the entry.                                                         *)
(***************************************************************************)
LEMMA OtherAsShown ==
  ASSUME FlowInv, AsShownInv,
         SetupFlowOpens \/ OptionsFlowOpens \/ OldEntry \/ Migrate \/ Abandon
           \/ UNCHANGED flowVars
  PROVE  AsShownInv' /\ KeptAsShown
<1>1. CASE SetupFlowOpens
  <2>1. entry' = entry /\ entry = NoEntry /\ flow = Closed
    BY <1>1 DEF SetupFlowOpens
  <2> QED BY <2>1 DEF AsShownInv, KeptAsShown
<1>2. CASE OptionsFlowOpens
  <2>1. entry' = entry /\ flow' = [Closed EXCEPT !.step = "main", !.opts = entry] /\ flow = Closed
    BY <1>2 DEF OptionsFlowOpens
  <2>2. flow'.step = "main" /\ flow'.opts = entry
    <3> HIDE DEF Closed
    <3> QED BY <2>1, ClosedFlow DEF Flows
  <2>3. SameAsEntry(entry)
    BY DEF SameAsEntry, LossOf
  <2>4. (SameAsEntry(flow.opts) /\ ShownAlong)'
    BY <2>1, <2>2 DEF ShownAlong, SameAsEntry, LossOf, Methods
  <2>5. ~ LastAsShown
    BY <2>1, ClosedFlow DEF LastAsShown
  <2> QED BY <2>4, <2>5 DEF AsShownInv, KeptAsShown
<1>3. CASE OldEntry \/ Migrate
  <2>1. flow.step = "closed" /\ flow' = flow
    <3>1. CASE OldEntry
      BY <3>1, ClosedFlow DEF OldEntry
    <3>2. CASE Migrate
      <4>1. entry.version = 2 /\ entry # NoEntry /\ flow' = flow
        BY <3>2 DEF Migrate
      <4>2. flow.step # "closed" => entry = NoEntry \/ entry.version = 3
        BY DEF FlowInv
      <4> QED BY <4>1, <4>2
    <3> QED BY <1>3, <3>1, <3>2
  <2> QED BY <2>1 DEF AsShownInv, KeptAsShown, LastAsShown
<1>4. CASE Abandon
  <2>1. entry' = entry /\ flow'.step = "closed"
    BY <1>4, ClosedFlow DEF Abandon
  <2> QED BY <2>1 DEF AsShownInv, KeptAsShown
<1>5. CASE UNCHANGED flowVars
  <2>1. entry' = entry /\ flow' = flow
    BY <1>5 DEF flowVars
  <2>2. AsShownInv'
    BY <2>1 DEF AsShownInv, SameAsEntry, LossOf, ShownAlong, MethodShown
  <2> QED BY <2>1, <2>2 DEF KeptAsShown
<1> QED BY <1>1, <1>2, <1>3, <1>4, <1>5

LEMMA AsShownStep ==
  FlowInv /\ AsShownInv /\ [FlowNext]_flowVars => AsShownInv' /\ KeptAsShown
BY SubmitAsShown, PickAsShown, SaveAsShown, OtherAsShown DEF FlowNext

(***************************************************************************)
(* An options flow whose forms are all submitted as they are shown saves   *)
(* the heating, the Axle settings and the tariffs the entry had, and       *)
(* another heat loss only when the method it offered was another one.      *)
(***************************************************************************)
THEOREM OptionsKeptAsShown == FlowSpec => AsShownKeeps
<1>1. FlowInit => AsShownInv
  <2>1. FlowInit => flow.step = "closed"
    BY ClosedFlow DEF FlowInit
  <2> QED BY <2>1 DEF AsShownInv
<1>2. FlowInv /\ AsShownInv /\ [FlowNext]_flowVars => FlowInv' /\ AsShownInv' /\ [KeptAsShown]_flowVars
  BY FlowNextInv, AsShownStep
<1>3. FlowSpec => [][KeptAsShown]_flowVars
  BY <1>1, <1>2, FlowInitInv, PTL DEF FlowSpec
<1> QED BY <1>3 DEF AsShownKeeps, KeptAsShown

-----------------------------------------------------------------------------
(***************************************************************************)
(* The life cycle of the entry.                                            *)
(***************************************************************************)

(***************************************************************************)
(* The stages of a set-up after which its coordinator is in hass.data, and *)
(* those after which it is subscribed to the state of charge.              *)
(***************************************************************************)
AfterRegistration == {"registered", "compared", "refreshed", "loaded", "stuck"}
AfterSubscription == AfterRegistration \cup {"subscribed"}

(***************************************************************************)
(* The inductive invariant: what a set-up has done is there while it goes  *)
(* on, and an entry that is out has left only subscriptions of failed      *)
(* set-ups behind.                                                         *)
(***************************************************************************)
LifeInv ==
  /\ LifeTypeOK
  /\ stage \in AfterRegistration => data.planner = inst /\ handler = inst
  /\ stage \in AfterSubscription => inst \in subscribed
  /\ OnlyHalfwayLeft

(***************************************************************************)
(* The fields of hass.data after one of them is set.                       *)
(***************************************************************************)
LEMMA PlannerSet ==
  ASSUME NEW d \in [planner : Insts, tariff : Insts], NEW i \in Insts
  PROVE  /\ [d EXCEPT !.planner = i] \in [planner : Insts, tariff : Insts]
         /\ [d EXCEPT !.planner = i].planner = i
         /\ [d EXCEPT !.tariff = i] \in [planner : Insts, tariff : Insts]
         /\ [d EXCEPT !.tariff = i].planner = d.planner
  OBVIOUS

LEMMA LifeInitInv == LifeInit => LifeInv
<1> SUFFICES ASSUME LifeInit PROVE LifeInv
  OBVIOUS
<1>1. 0 \in Insts
  BY LifecycleAssumption DEF Insts
<1>2. LifeTypeOK
  BY <1>1 DEF LifeInit, LifeTypeOK
<1>3. stage = "out" /\ subscribed = {}
  BY DEF LifeInit
<1> QED BY <1>2, <1>3 DEF LifeInv, AfterRegistration, AfterSubscription, OnlyHalfwayLeft

LEMMA LifeNextInv == LifeInv /\ [LifeNext]_lifeVars => LifeInv'
<1> SUFFICES ASSUME LifeInv, [LifeNext]_lifeVars PROVE LifeInv'
  OBVIOUS
<1> USE DEF LifeInv, LifeTypeOK, AfterRegistration, AfterSubscription, OnlyHalfwayLeft
<1>0. 0 \in Insts
  BY LifecycleAssumption DEF Insts
<1>1. CASE SetupStarts
  <2>1. inst + 1 \in Insts
    BY <1>1, LifecycleAssumption DEF SetupStarts, Insts
  <2> QED BY <1>1, <2>1 DEF SetupStarts
<1>2. CASE NotReady
  BY <1>2 DEF NotReady
<1>3. CASE MqttReady
  BY <1>3 DEF MqttReady
<1>4. CASE Registered
  BY <1>4, PlannerSet DEF Registered
<1>5. CASE TariffSetup
  <2>1. /\ data' \in [planner : Insts, tariff : Insts]
        /\ data'.planner = data.planner
    BY <1>5, PlannerSet DEF TariffSetup
  <2> QED BY <1>5, <2>1 DEF TariffSetup
<1>6. CASE FirstRefresh
  BY <1>6 DEF FirstRefresh
<1>7. CASE PlatformsSetup
  BY <1>7 DEF PlatformsSetup
<1>8. CASE Unloaded
  BY <1>0, <1>8, PlannerSet DEF Unloaded
<1>9. CASE UnloadFails
  BY <1>9 DEF UnloadFails
<1>10. CASE OptionsChanged
  BY <1>10 DEF OptionsChanged
<1>11. CASE UNCHANGED lifeVars
  BY <1>11 DEF lifeVars
<1> QED
  BY <1>1, <1>2, <1>3, <1>4, <1>5, <1>6, <1>7, <1>8, <1>9, <1>10, <1>11 DEF LifeNext

(***************************************************************************)
(* The types of what a set-up and an unload keep (async_setup_entry).      *)
(***************************************************************************)
THEOREM LifeTyping == LifeSpec => []LifeTypeOK
<1>1. LifeInv => LifeTypeOK
  BY DEF LifeInv
<1> QED BY <1>1, LifeInitInv, LifeNextInv, PTL DEF LifeSpec

(***************************************************************************)
(* After any history of failed, retried and reloaded set-ups, the planner  *)
(* in hass.data and behind the services of a loaded entry is the one of    *)
(* its last set-up, and is subscribed to the state of charge.              *)
(***************************************************************************)
THEOREM OneCoordinatorLoaded == LifeSpec => []OneCoordinator
<1>1. LifeInv => OneCoordinator
  BY DEF LifeInv, AfterRegistration, AfterSubscription, OneCoordinator
<1> QED BY <1>1, LifeInitInv, LifeNextInv, PTL DEF LifeSpec

(***************************************************************************)
(* An unload ends the subscription of the planner it unloads: when the     *)
(* entry is out, those left are of set-ups that failed half way.           *)
(***************************************************************************)
THEOREM UnloadUnsubscribes == LifeSpec => []OnlyHalfwayLeft
<1>1. LifeInv => OnlyHalfwayLeft
  BY DEF LifeInv
<1> QED BY <1>1, LifeInitInv, LifeNextInv, PTL DEF LifeSpec

-----------------------------------------------------------------------------
(***************************************************************************)
(* Fetching the Axle windows.                                              *)
(***************************************************************************)

(***************************************************************************)
(* Delays double from one attempt to the next.                             *)
(***************************************************************************)
LEMMA PowerOfTwoDef ==
  /\ PowerOfTwo \in [Nat -> Nat] /\ PowerOfTwo[0] = 1
  /\ \A n \in Nat : PowerOfTwo[n + 1] = 2 * PowerOfTwo[n] /\ PowerOfTwo[n] >= 1
<1>. DEFINE step == [p \in Nat \X Nat |-> 2 * p[2]]
            V == Nat
<1>1. step \in [Nat \X V -> V] /\ 1 \in V
  OBVIOUS
<1>2. PICK g \in [Nat -> Nat] : Recursive(g, Nat, 1, step)
  <2>. HIDE DEF V, step
  <2>1. \E g \in [Nat -> V] : Recursive(g, Nat, 1, step)
    BY <1>1, RecursiveExists
  <2>. QED  BY <2>1 DEF V
<1>3. \A n \in Nat : g[n] = IF n = 0 THEN 1 ELSE 2 * g[n - 1]
  <2>1. ASSUME NEW n \in Nat  PROVE g[n] = IF n = 0 THEN 1 ELSE 2 * g[n - 1]
    <3>1. g[n] = IF n = 0 THEN 1 ELSE step[<<n, g[n - 1]>>]
      <4>. HIDE DEF step
      <4>. QED  BY <1>2, Zenon DEF Recursive
    <3>2. n # 0 => g[n - 1] \in Nat
      OBVIOUS
    <3>. QED  BY <3>1, <3>2
  <2>. QED  BY <2>1
<1>4. g = [n \in Nat |-> IF n = 0 THEN 1 ELSE 2 * g[n - 1]]
  BY <1>3
<1>5. PowerOfTwo = [n \in Nat |-> IF n = 0 THEN 1 ELSE 2 * PowerOfTwo[n - 1]]
  BY <1>4, Zenon DEF PowerOfTwo
<1>6. \A n \in Nat : PowerOfTwo[n] = IF n = 0 THEN 1 ELSE 2 * PowerOfTwo[n - 1]
  BY <1>5, Zenon
<1>7. PowerOfTwo[0] = 1
  BY <1>6
<1>8. ASSUME NEW n \in Nat  PROVE PowerOfTwo[n + 1] = 2 * PowerOfTwo[n]
  <2>1. n + 1 \in Nat /\ n + 1 # 0 /\ (n + 1) - 1 = n
    OBVIOUS
  <2>. QED  BY <1>6, <2>1
<1>. DEFINE S == {n \in Nat : PowerOfTwo[n] \in Nat /\ PowerOfTwo[n] >= 1}
<1>9. 0 \in S
  BY <1>7
<1>10. \A n \in Nat : n \in S => n + 1 \in S
  BY <1>8
<1>. HIDE DEF S
<1>11. \A n \in Nat : n \in S
  BY <1>9, <1>10, SetInduction
<1>12. \A n \in Nat : PowerOfTwo[n] \in Nat /\ PowerOfTwo[n] >= 1
  BY <1>11 DEF S
<1>13. PowerOfTwo \in [Nat -> Nat]
  BY <1>5, <1>12
<1>. QED  BY <1>7, <1>8, <1>12, <1>13

(***************************************************************************)
(* Delays never get shorter.                                               *)
(***************************************************************************)
LEMMA PowerOfTwoGrows ==
    ASSUME NEW m \in Nat
    PROVE  \A n \in Nat : n >= m => PowerOfTwo[m] <= PowerOfTwo[n]
<1>. DEFINE S == {n \in Nat : n >= m => PowerOfTwo[m] <= PowerOfTwo[n]}
<1>1. \A n \in Nat : PowerOfTwo[n] \in Nat /\ PowerOfTwo[n + 1] = 2 * PowerOfTwo[n]
  BY PowerOfTwoDef
<1>2. 0 \in S
  <2>1. 0 >= m => m = 0
    OBVIOUS
  <2>. QED  BY <1>1, <2>1
<1>3. ASSUME NEW n \in Nat, n \in S  PROVE n + 1 \in S
  <2>1. CASE n + 1 = m
    BY <1>1, <2>1
  <2>2. CASE n + 1 # m
    <3>1. n + 1 >= m => n >= m
      BY <2>2
    <3>. QED  BY <1>1, <1>3, <3>1
  <2>. QED  BY <2>1, <2>2
<1>. HIDE DEF S
<1>4. \A n \in Nat : n \in S
  BY <1>2, <1>3, SetInduction
<1>. QED  BY <1>4 DEF S

(***************************************************************************)
(* The time a fetch has taken after a number of attempts that have ended   *)
(* and a number of delays between them.                                    *)
(***************************************************************************)
TimeAfter(ended, delays) ==
  ended * Timeout + BaseDelay * (PowerOfTwo[delays] - 1) + delays * Jitter

Ended == IF fetchPc \in {"idle", "request"} THEN attempt ELSE attempt + 1

FetchInv ==
  /\ AxleClientTypeOK
  /\ fetchPc = "idle" => attempt = 0
  /\ fetchPc = "sleep" => attempt < MaxRetries
  /\ fetchPc = "raised" => answer \in Final \/ attempt = MaxRetries
  /\ fetchPc = "returned" => answer \in Good
  /\ elapsed <= TimeAfter(Ended, attempt)

LEMMA TimeAfterType ==
    ASSUME NEW e \in Nat, NEW n \in Nat
    PROVE  TimeAfter(e, n) \in Nat
<1>1. PowerOfTwo[n] - 1 \in Nat
  BY PowerOfTwoDef
<1>2. e * Timeout \in Nat /\ BaseDelay * (PowerOfTwo[n] - 1) \in Nat /\ n * Jitter \in Nat
  <2>. DEFINE x == PowerOfTwo[n] - 1
  <2>. HIDE DEF x
  <2>1. x \in Nat
    BY <1>1 DEF x
  <2>2. BaseDelay * x \in Nat
    BY <2>1, AxleClientAssumption
  <2>. QED  BY <2>2, AxleClientAssumption DEF x
<1>. QED  BY <1>2 DEF TimeAfter

(***************************************************************************)
(* One more attempt takes at most a timeout, one more delay what the code  *)
(* sleeps; more of either is never less time.                              *)
(***************************************************************************)
LEMMA TimeAfterAttempt ==
    ASSUME NEW e \in Nat, NEW n \in Nat
    PROVE  TimeAfter(e + 1, n) = TimeAfter(e, n) + Timeout
<1>1. (e + 1) * Timeout = e * Timeout + Timeout /\ e * Timeout \in Nat /\ (e + 1) * Timeout \in Nat
  BY AxleClientAssumption
<1>. DEFINE rest == BaseDelay * (PowerOfTwo[n] - 1)
            jitters == n * Jitter
<1>2. rest \in Int /\ jitters \in Int
  <2>1. PowerOfTwo[n] \in Nat
    BY PowerOfTwoDef
  <2>. QED  BY <2>1, AxleClientAssumption
<1>3. TimeAfter(e + 1, n) = (e + 1) * Timeout + rest + jitters
      /\ TimeAfter(e, n) = e * Timeout + rest + jitters
  BY DEF TimeAfter
<1>. HIDE DEF rest, jitters
<1>. QED  BY <1>1, <1>2, <1>3, AxleClientAssumption

(***************************************************************************)
(* A delay takes the time from one attempt to the next: it is why the sum  *)
(* of the delays is one delay less than twice the last.                    *)
(***************************************************************************)
LEMMA TimeAfterDelay ==
    ASSUME NEW e \in Nat, NEW n \in Nat
    PROVE  TimeAfter(e, n + 1) = TimeAfter(e, n) + BaseDelay * PowerOfTwo[n] + Jitter
<1>. DEFINE x == PowerOfTwo[n]
            y == PowerOfTwo[n + 1]
<1>1. x \in Nat /\ y = 2 * x
  BY PowerOfTwoDef
<1>2. TimeAfter(e, n + 1) = e * Timeout + BaseDelay * (y - 1) + (n + 1) * Jitter
      /\ TimeAfter(e, n) = e * Timeout + BaseDelay * (x - 1) + n * Jitter
  BY DEF TimeAfter
<1>. HIDE DEF x, y
<1>3. BaseDelay * (y - 1) = BaseDelay * (x - 1) + BaseDelay * x
  BY <1>1, AxleClientAssumption
<1>4. (n + 1) * Jitter = n * Jitter + Jitter
  BY AxleClientAssumption
<1>5. e * Timeout \in Int /\ BaseDelay * (x - 1) \in Int /\ BaseDelay * x \in Int /\ n * Jitter \in Int
      /\ Jitter \in Int
  BY <1>1, AxleClientAssumption
<1>6. TimeAfter(e, n + 1) = TimeAfter(e, n) + BaseDelay * x + Jitter
  BY <1>2, <1>3, <1>4, <1>5
<1>. QED  BY <1>6 DEF x

(***************************************************************************)
(* More attempts and more delays never take less time.                     *)
(***************************************************************************)
LEMMA TimeAfterGrows ==
    ASSUME NEW e \in Nat, NEW n \in Nat, NEW f \in Nat, NEW m \in Nat, e <= f, n <= m
    PROVE  TimeAfter(e, n) <= TimeAfter(f, m)
<1>1. PowerOfTwo[n] \in Nat /\ PowerOfTwo[m] \in Nat /\ PowerOfTwo[n] <= PowerOfTwo[m]
  BY PowerOfTwoDef, PowerOfTwoGrows
<1>. DEFINE x == PowerOfTwo[n] - 1
            y == PowerOfTwo[m] - 1
<1>2. x \in Int /\ y \in Int /\ x <= y
  BY <1>1
<1>3. TimeAfter(e, n) = e * Timeout + BaseDelay * x + n * Jitter
      /\ TimeAfter(f, m) = f * Timeout + BaseDelay * y + m * Jitter
  BY DEF TimeAfter
<1>. HIDE DEF x, y
<1>4. e * Timeout <= f * Timeout /\ n * Jitter <= m * Jitter
  BY AxleClientAssumption, Z3
<1>5. BaseDelay * x <= BaseDelay * y
  BY <1>2, AxleClientAssumption, Z3
<1>6. e * Timeout \in Int /\ f * Timeout \in Int /\ n * Jitter \in Int /\ m * Jitter \in Int
      /\ BaseDelay * x \in Int /\ BaseDelay * y \in Int
  BY <1>2, AxleClientAssumption
<1>. QED  BY <1>3, <1>4, <1>5, <1>6

LEMMA FetchInitial == AxleClientInit => FetchInv
<1>. SUFFICES ASSUME AxleClientInit  PROVE FetchInv
  OBVIOUS
<1>1. TimeAfter(0, 0) \in Nat /\ 0 \in 0 .. MaxRetries
  BY TimeAfterType, AxleClientAssumption
<1>. QED  BY <1>1 DEF AxleClientInit, FetchInv, AxleClientTypeOK, Ended

LEMMA FetchStep == FetchInv /\ [AxleClientNext]_fetchVars => FetchInv'
<1>. SUFFICES ASSUME FetchInv, [AxleClientNext]_fetchVars  PROVE FetchInv'
  OBVIOUS
<1>. USE AxleClientAssumption
<1>0. attempt \in Nat /\ elapsed \in Nat /\ attempt <= MaxRetries
  BY DEF FetchInv, AxleClientTypeOK
<1>1. CASE FetchEvent
  <2>1. Ended' = Ended
    BY <1>1 DEF FetchEvent, Ended
  <2>. QED  BY <1>1, <2>1 DEF FetchEvent, FetchInv, AxleClientTypeOK, TimeAfter
<1>2. CASE AttemptEnds
  <2>1. PICK a \in Good \cup Retryable \cup Final, d \in 0 .. Timeout :
          /\ answer' = a /\ elapsed' = elapsed + d
          /\ fetchPc' = IF a \in Good THEN "returned"
                        ELSE IF a \in Retryable /\ ~IsLastAttempt THEN "sleep"
                        ELSE "raised"
    BY <1>2 DEF AttemptEnds
  <2>2. attempt' = attempt /\ fetchPc = "request"
    BY <1>2 DEF AttemptEnds
  <2>3. Ended = attempt /\ Ended' = attempt + 1
    BY <2>1, <2>2 DEF Ended
  <2>4. elapsed' <= TimeAfter(attempt + 1, attempt)
    <3>1. elapsed <= TimeAfter(attempt, attempt) /\ TimeAfter(attempt, attempt) \in Nat
      BY <1>0, <2>3, TimeAfterType DEF FetchInv
    <3>2. TimeAfter(attempt + 1, attempt) = TimeAfter(attempt, attempt) + Timeout
      BY <1>0, TimeAfterAttempt
    <3>. QED  BY <1>0, <2>1, <3>1, <3>2
  <2>5. fetchPc' = "sleep" => attempt < MaxRetries
    BY <1>0, <2>1 DEF IsLastAttempt
  <2>6. fetchPc' = "raised" => a \in Final \/ attempt = MaxRetries
    BY <1>0, <2>1 DEF IsLastAttempt
  <2>7. AxleClientTypeOK'
    BY <1>0, <2>1, <2>2 DEF FetchInv, AxleClientTypeOK
  <2>8. fetchPc' = "returned" => a \in Good
    BY <2>1
  <2>9. fetchPc' # "idle"
    BY <2>1
  <2>10. elapsed' <= TimeAfter(Ended, attempt)'
    BY <2>2, <2>3, <2>4 DEF TimeAfter
  <2>. QED  BY <2>1, <2>2, <2>5, <2>6, <2>7, <2>8, <2>9, <2>10 DEF FetchInv
<1>3. CASE RetryAfterSleep
  <2>1. PICK j \in 0 .. Jitter : elapsed' = elapsed + BaseDelay * PowerOfTwo[attempt] + j
    BY <1>3 DEF RetryAfterSleep
  <2>2. attempt' = attempt + 1 /\ fetchPc = "sleep" /\ fetchPc' = "request" /\ answer' = answer
    BY <1>3 DEF RetryAfterSleep
  <2>3. Ended = attempt + 1 /\ Ended' = attempt + 1
    BY <2>2 DEF Ended
  <2>. DEFINE delay == BaseDelay * PowerOfTwo[attempt]
  <2>4. delay \in Nat
    <3>1. PowerOfTwo[attempt] \in Nat
      BY <1>0, PowerOfTwoDef
    <3>. QED  BY <3>1
  <2>5. TimeAfter(attempt + 1, attempt + 1) = TimeAfter(attempt + 1, attempt) + delay + Jitter
    BY <1>0, TimeAfterDelay
  <2>6. elapsed <= TimeAfter(attempt + 1, attempt) /\ TimeAfter(attempt + 1, attempt) \in Nat
    BY <1>0, <2>3, TimeAfterType DEF FetchInv
  <2>7. elapsed' = elapsed + delay + j
    BY <2>1
  <2>. HIDE DEF delay
  <2>8. elapsed' <= TimeAfter(attempt + 1, attempt + 1) /\ elapsed' \in Nat
    BY <1>0, <2>4, <2>5, <2>6, <2>7
  <2>9. elapsed' <= TimeAfter(Ended, attempt)'
    BY <2>2, <2>3, <2>8 DEF TimeAfter
  <2>10. AxleClientTypeOK'
    BY <1>0, <2>2, <2>8 DEF FetchInv, AxleClientTypeOK
  <2>. QED  BY <2>2, <2>9, <2>10 DEF FetchInv
<1>4. CASE FetchOver
  <2>1. AxleClientInit'
    BY <1>4 DEF FetchOver, AxleClientInit
  <2>2. AxleClientInit' => FetchInv'
    BY FetchInitial, PTL
  <2>. QED  BY <2>1, <2>2
<1>5. CASE UNCHANGED fetchVars
  BY <1>5 DEF fetchVars, FetchInv, AxleClientTypeOK, Ended, TimeAfter
<1>. QED  BY <1>1, <1>2, <1>3, <1>4, <1>5 DEF AxleClientNext

(***************************************************************************)
(* No more attempts than MaxRetries + 1 end, with a delay between any two. *)
(***************************************************************************)
LEMMA FetchInvBounded == FetchInv => FetchBounded
<1>. SUFFICES ASSUME FetchInv  PROVE FetchBounded
  OBVIOUS
<1>. USE AxleClientAssumption
<1>1. attempt \in Nat /\ elapsed \in Nat /\ attempt <= MaxRetries
  BY DEF FetchInv, AxleClientTypeOK
<1>2. Ended \in Nat /\ Ended <= MaxRetries + 1
  BY <1>1 DEF Ended
<1>3. MaxRetries \in Nat /\ MaxRetries + 1 \in Nat
  OBVIOUS
<1>. HIDE AxleClientAssumption
<1>4. /\ TimeAfter(Ended, attempt) <= TimeAfter(MaxRetries + 1, MaxRetries)
      /\ TimeAfter(Ended, attempt) \in Nat /\ TimeAfter(MaxRetries + 1, MaxRetries) \in Nat
  BY <1>1, <1>2, <1>3, TimeAfterGrows, TimeAfterType
<1>5. elapsed <= TimeAfter(MaxRetries + 1, MaxRetries)
  BY <1>1, <1>4 DEF FetchInv
<1>. QED  BY <1>5 DEF FetchInv, FetchBounded, TimeAfter

LEMMA FetchInvariant == AxleClientSpec => []FetchInv
  BY FetchInitial, FetchStep, PTL DEF AxleClientSpec

(***************************************************************************)
(* A fetch keeps to its states: no attempt after the last.                 *)
(***************************************************************************)
THEOREM AxleClientTypeCorrect == AxleClientSpec => []AxleClientTypeOK
<1>1. FetchInv => AxleClientTypeOK
  BY DEF FetchInv
<1>. QED  BY <1>1, FetchInvariant, PTL

(***************************************************************************)
(* For any number of retries, timeout, delay and jitter: a fetch gives up  *)
(* early only on a final answer, and never holds up the update cycle       *)
(* longer than its attempts and the doubling delays between them.          *)
(***************************************************************************)
THEOREM AxleFetchBounded == AxleClientSpec => []FetchBounded
  BY FetchInvariant, FetchInvBounded, PTL
-----------------------------------------------------------------------------
(***************************************************************************)
(* The components side by side: each behaves as it does alone, so each     *)
(* keeps to the states it is described with.                               *)
(***************************************************************************)
LEMMA ComponentsStep ==
  ASSUME [ComponentsNext]_componentVars
  PROVE  /\ [FlowNext]_flowVars /\ [AxleClientNext]_fetchVars /\ [LevelNext]_levelVars
         /\ [SearchNext]_searchVars /\ [OctopusNext]_tariffVars /\ [RateNext]_rateVars
         /\ [CleanNext]_cleanVars /\ [LifeNext]_lifeVars /\ [SlotNext]_slotVars
         /\ [StandingNext]_standingVars
BY DEF ComponentsNext, componentVars

(***************************************************************************)
(* So the composition implies the specification of each component.         *)
(***************************************************************************)
LEMMA ComponentsAlone ==
  ComponentsSpec => /\ FlowSpec /\ AxleClientSpec /\ LevelSpec /\ SearchSpec /\ OctopusSpec
                    /\ RateSpec /\ CleanSpec /\ LifeSpec /\ SlotSpec /\ StandingSpec
<1>1. ComponentsInit =>
        /\ FlowInit /\ AxleClientInit /\ LevelInit /\ SearchInit /\ OctopusInit
        /\ RateInit /\ CleanInit /\ LifeInit /\ SlotInit /\ StandingInit
  BY DEF ComponentsInit
<1> QED
  BY <1>1, ComponentsStep, PTL
  DEF ComponentsSpec, FlowSpec, AxleClientSpec, LevelSpec, SearchSpec, OctopusSpec,
      RateSpec, CleanSpec, LifeSpec, SlotSpec, StandingSpec

(***************************************************************************)
(* Set-up, flows, fetches, searches, simulations and replays only ever     *)
(* leave the states they are described with, whichever of them moves.      *)
(***************************************************************************)
THEOREM ComponentsTypeCorrect == ComponentsSpec => []ComponentsTypeOK
<1>1. FlowTypeOK /\ AxleClientTypeOK /\ LevelTypeOK /\ SearchTypeOK /\ OctopusTypeOK
      /\ RateTypeOK /\ CleanTypeOK /\ LifeTypeOK /\ SlotTypeOK /\ StandingTypeOK
      => ComponentsTypeOK
  BY DEF ComponentsTypeOK
<1> QED
  BY <1>1, ComponentsAlone, FlowTyping, AxleClientTypeCorrect, LevelTyping,
     SearchTypeCorrect, OctopusTyping, RateReplayTypeCorrect, CleanTypeCorrect, LifeTyping,
     RateSlotsTypeCorrect, StandingTyping, PTL

(***************************************************************************)
(* What each component keeps alone it keeps beside the others: the         *)
(* battery, the search and their plan; tariffs, charges and rates; the     *)
(* energy trained on; the saved entry, what is loaded and how long a fetch *)
(* takes.                                                                  *)
(***************************************************************************)
THEOREM ComponentsSafe ==
  ComponentsSpec =>
    /\ [](LevelInReach /\ SoldIsThere /\ OnlyDemandUnpaid /\ PlanIsShown)
    /\ [](TariffInForce /\ DaysChargedOnce /\ DailyRatesRepeat /\ PricedInForce)
    /\ [](EnergyKept /\ OwnEnergyTrained)
    /\ [](ComparedIffEnabled /\ OneCoordinator /\ OnlyHalfwayLeft /\ FetchBounded)
    /\ AxleKept /\ AsShownKeeps
BY ComponentsAlone, LevelStaysInReach, SoldWasThere, OnlyTheHouseUnpaid, SearchPlanIsShown,
   RunsUseTariffInForce, MonthChargedOnce, SlotsRepeatDaily, RatePricedInForce,
   TrainingKeepsEnergy, TrainedOnOwnEnergy, TariffsOfEntry, OneCoordinatorLoaded,
   UnloadUnsubscribes, AxleFetchBounded, AxleSettingsKept, OptionsKeptAsShown, PTL
=============================================================================
