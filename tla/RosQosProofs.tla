---------------------------- MODULE RosQosProofs ----------------------------
(***************************************************************************)
(* Theorems about RosQos, for any profile names and depths in the          *)
(* configuration and any widths of int and size_t.                         *)
(***************************************************************************)
EXTENDS RosQos, TLAPS

-----------------------------------------------------------------------------
(* The inductive invariant: what has been read so far is in the profile, and *)
(* is_configured says whether any of it means something.                    *)

\* The parameters read before a step.
ReadBefore ==
  [profile     |-> {},
   depth       |-> {"profile"},
   durability  |-> {"profile", "depth"},
   reliability |-> {"profile", "depth", "durability"},
   history     |-> {"profile", "depth", "durability", "reliability"},
   result      |-> Parameters,
   done        |-> Parameters]

\* Those of them that mean something.
Seen == Meant \cap ReadBefore[step]

Base == IF "profile" \in Meant THEN InitQosProfile(value.profile) ELSE Rmw["sensor_data"]

\* The profile that the parameters in set seen make of the base.
SettingsFrom(seen) ==
  Profile(IF "history" \in seen THEN value.history ELSE Base.history,
          IF "depth" \in seen THEN ToSize(value.depth) ELSE Base.depth,
          IF "reliability" \in seen THEN value.reliability ELSE Base.reliability,
          IF "durability" \in seen THEN value.durability ELSE Base.durability)

Configuration ==
  /\ present \subseteq Parameters
  /\ value \in [profile : ProfileNames, depth : Depths,
                durability : Known.durability \cup {"?"},
                reliability : Known.reliability \cup {"?"},
                history : Known.history \cup {"?"}]
  /\ default_qos \in {<<>>, <<ImuDefault>>}

IInv ==
  /\ Configuration
  /\ step \in DOMAIN ReadBefore
  /\ is_configured \in BOOLEAN
  /\ is_configured <=> Seen # {}
  /\ step # "profile" => profile = SettingsFrom(Seen)
  /\ step = "done" =>
       qos = IF ~is_configured /\ default_qos # <<>> THEN default_qos
                                                     ELSE <<FromRmw(profile)>>

LEMMA InitInv == Init => IInv
<1> SUFFICES ASSUME Init PROVE IInv
  OBVIOUS
<1>1. Seen = {}
  BY DEF Init, Seen, ReadBefore
<1>2. ~is_configured /\ is_configured \in BOOLEAN
  BY Zenon DEF Init
<1>3. Configuration
  BY DEF Init, Configuration
<1> QED
  BY <1>1, <1>2, <1>3 DEF Init, IInv, ReadBefore

\* A step that reads one parameter adds it to those seen if it means something.
LEMMA SeenStep ==
  ASSUME UNCHANGED <<present, value>>,
         ReadBefore[step'] = ReadBefore[step] \cup {step}
  PROVE  /\ Meant' = Meant
         /\ Seen' = IF step \in Meant THEN Seen \cup {step} ELSE Seen
<1>1. Meant' = Meant
  BY DEF Meant
<1> QED
  BY <1>1 DEF Seen

\* What a step leaves alone.
LEMMA ConfigurationStep ==
  ASSUME [Next]_vars PROVE UNCHANGED <<present, value, default_qos>>
BY DEF Next, vars, ReadProfile, ReadDepth, ReadPolicy, Return, Done

LEMMA ProfileIsBase ==
  Base = InitQosProfile(IF "profile" \in present THEN value.profile ELSE "sensor_data")
<1>1. "profile" \in Meant <=> "profile" \in present
  BY DEF Meant, Known
<1>2. InitQosProfile("sensor_data") = Rmw["sensor_data"]
  BY DEF InitQosProfile, Rmw
<1> QED
  BY <1>1, <1>2 DEF Base

\* Every profile of rmw has the four policies.
LEMMA BaseIsAProfile ==
  Base = Profile(Base.history, Base.depth, Base.reliability, Base.durability)
<1>1. \A name : InitQosProfile(name) =
        Profile(InitQosProfile(name).history, InitQosProfile(name).depth,
                InitQosProfile(name).reliability, InitQosProfile(name).durability)
  BY DEF InitQosProfile, Rmw, Profile
<1> QED
  BY <1>1, ProfileIsBase

\* The derived operators follow the configuration.
LEMMA SettingsFixed ==
  ASSUME UNCHANGED <<present, value>>
  PROVE  Base' = Base
<1>1. Meant' = Meant
  BY DEF Meant
<1> QED
  BY <1>1 DEF Base

LEMMA ProfileStep == ASSUME IInv, ReadProfile PROVE IInv'
<1>1. /\ step = "profile" /\ step' = "depth"
      /\ UNCHANGED <<present, value, default_qos, qos>>
  BY DEF ReadProfile
<1>2. Seen' = IF "profile" \in Meant THEN {"profile"} ELSE {}
  BY <1>1, SeenStep DEF ReadBefore, Seen
<1>3. "profile" \in Meant <=> "profile" \in present
  BY DEF Meant, Known
<1>4. is_configured' \in BOOLEAN /\ (is_configured' <=> Seen' # {})
  <2>1. is_configured' = ("profile" \in present)
    BY Zenon DEF ReadProfile
  <2>2. CASE "profile" \in present
    <3>1. is_configured' = TRUE
      BY <2>1, <2>2, Zenon
    <3>2. Seen' # {}
      BY <1>2, <1>3, <2>2
    <3> QED
      BY <3>1, <3>2, Zenon
  <2>3. CASE "profile" \notin present
    <3>1. ~is_configured' /\ is_configured' \in BOOLEAN
      <4>1. ("profile" \in present) \in BOOLEAN
        OBVIOUS
      <4> QED
        BY <2>1, <2>3, <4>1, Zenon
    <3>2. Seen' = {}
      BY <1>2, <1>3, <2>3
    <3> QED
      BY <3>1, <3>2, Zenon
  <2> QED
    BY <2>2, <2>3
<1>5. Base' = Base /\ ToSize(value.depth)' = ToSize(value.depth)
  BY <1>1, SettingsFixed DEF ToSize
<1>6. profile' = Base
  BY ProfileIsBase DEF ReadProfile
<1>7. profile' = SettingsFrom(Seen)'
  BY <1>1, <1>2, <1>5, <1>6, BaseIsAProfile DEF SettingsFrom
<1>8. Configuration'
  BY <1>1 DEF IInv, Configuration
<1> QED
  BY <1>1, <1>4, <1>7, <1>8 DEF IInv, ReadBefore

\* is_configured stays right when one more parameter is read.
LEMMA ConfiguredStep ==
  ASSUME is_configured \in BOOLEAN, is_configured <=> Seen # {},
         NEW s, NEW means \in BOOLEAN, means <=> s \in Meant,
         is_configured' = (is_configured \/ means),
         Seen' = IF s \in Meant THEN Seen \cup {s} ELSE Seen
  PROVE  is_configured' \in BOOLEAN /\ (is_configured' <=> Seen' # {})
<1>1. CASE means
  <2>1. is_configured' = TRUE
    BY <1>1, Zenon
  <2>2. Seen' # {}
    BY <1>1
  <2> QED
    BY <2>1, <2>2, Zenon
<1>2. CASE ~means
  <2>1. is_configured' = is_configured
    BY <1>2, Zenon
  <2>2. Seen' = Seen
    BY <1>2
  <2> QED
    BY <2>1, <2>2, Zenon
<1> QED
  BY <1>1, <1>2

LEMMA DepthStep == ASSUME IInv, ReadDepth PROVE IInv'
<1>1. /\ step = "depth" /\ step' = "durability"
      /\ UNCHANGED <<present, value, default_qos, qos>>
  BY DEF ReadDepth
<1>2. /\ Meant' = Meant
      /\ Seen' = IF "depth" \in Meant THEN Seen \cup {"depth"} ELSE Seen
  BY <1>1, SeenStep DEF ReadBefore
<1>3. "depth" \in Meant <=> "depth" \in present
  BY DEF Meant, Known
<1>4. is_configured' \in BOOLEAN /\ (is_configured' <=> Seen' # {})
  <2>1. is_configured \in BOOLEAN /\ (is_configured <=> Seen # {})
    BY Zenon DEF IInv
  <2>2. is_configured' = (is_configured \/ "depth" \in present)
    BY Zenon DEF ReadDepth
  <2>3. ("depth" \in present) \in BOOLEAN
    OBVIOUS
  <2> QED
    BY <1>2, <1>3, <2>1, <2>2, <2>3, ConfiguredStep, Zenon
<1>5. Base' = Base /\ ToSize(value.depth)' = ToSize(value.depth)
  BY <1>1, SettingsFixed DEF ToSize
<1>6. profile = SettingsFrom(Seen)
  BY <1>1 DEF IInv
<1>7. "depth" \notin Seen
  BY <1>1 DEF Seen, ReadBefore
<1>8. profile' = SettingsFrom(Seen)'
  <2>1. profile' = IF "depth" \in present THEN [profile EXCEPT !.depth = ToSize(value.depth)]
                                          ELSE profile
    BY DEF ReadDepth
  <2> QED
    BY <1>1, <1>2, <1>3, <1>5, <1>6, <1>7, <2>1 DEF SettingsFrom, Profile
<1>9. Configuration'
  BY <1>1 DEF IInv, Configuration
<1> QED
  BY <1>1, <1>4, <1>8, <1>9 DEF IInv, ReadBefore

LEMMA PolicyStep == ASSUME IInv, ReadPolicy PROVE IInv'
<1>1. /\ step \in {"durability", "reliability", "history"}
      /\ step' = Following[step]
      /\ UNCHANGED <<present, value, default_qos, qos>>
  BY DEF ReadPolicy, Following
<1>2. /\ ReadBefore[step'] = ReadBefore[step] \cup {step}
      /\ step' \in {"reliability", "history", "result"}
  BY <1>1 DEF ReadBefore, Following, Parameters
<1>3. /\ Meant' = Meant
      /\ Seen' = IF step \in Meant THEN Seen \cup {step} ELSE Seen
  BY <1>1, <1>2, SeenStep
<1>4. Configures(step) <=> step \in Meant
  BY <1>1 DEF Configures, Meant, Known
<1>5. is_configured' \in BOOLEAN /\ (is_configured' <=> Seen' # {})
  <2>1. is_configured \in BOOLEAN /\ (is_configured <=> Seen # {})
    BY Zenon DEF IInv
  <2>2. is_configured' = (is_configured \/ Configures(step))
    BY Zenon DEF ReadPolicy
  <2>3. Configures(step) \in BOOLEAN
    BY DEF Configures
  <2> QED
    BY <1>3, <1>4, <2>1, <2>2, <2>3, ConfiguredStep, Zenon
<1>6. Base' = Base /\ ToSize(value.depth)' = ToSize(value.depth)
  BY <1>1, SettingsFixed DEF ToSize
<1>7. profile = SettingsFrom(Seen)
  BY <1>1 DEF IInv
<1>8. step \notin Seen
  BY <1>1 DEF Seen, ReadBefore
<1>9. profile' = SettingsFrom(Seen)'
  <2>1. profile' = IF step \in Meant THEN [profile EXCEPT ![step] = value[step]] ELSE profile
    BY <1>4 DEF ReadPolicy
  <2>2. CASE step = "durability"
    BY <1>1, <1>3, <1>6, <1>7, <1>8, <2>1, <2>2 DEF SettingsFrom, Profile
  <2>3. CASE step = "reliability"
    BY <1>1, <1>3, <1>6, <1>7, <1>8, <2>1, <2>3 DEF SettingsFrom, Profile
  <2>4. CASE step = "history"
    BY <1>1, <1>3, <1>6, <1>7, <1>8, <2>1, <2>4 DEF SettingsFrom, Profile
  <2> QED
    BY <1>1, <2>2, <2>3, <2>4
<1>10. Configuration'
  BY <1>1 DEF IInv, Configuration
<1> QED
  BY <1>2, <1>5, <1>9, <1>10 DEF IInv, ReadBefore

LEMMA ReturnStep == ASSUME IInv, Return PROVE IInv'
<1>1. /\ step = "result" /\ step' = "done"
      /\ UNCHANGED <<present, value, default_qos, profile>>
  BY DEF Return
<1>2. is_configured' = is_configured
  BY Zenon DEF Return
<1>3. Meant' = Meant /\ Seen' = Seen
  BY <1>1 DEF Meant, Seen, ReadBefore
<1>4. is_configured' \in BOOLEAN /\ (is_configured' <=> Seen' # {})
  BY <1>2, <1>3, Zenon DEF IInv
<1>5. profile' = SettingsFrom(Seen)'
  <2>1. Base' = Base /\ ToSize(value.depth)' = ToSize(value.depth)
    BY <1>1, SettingsFixed DEF ToSize
  <2> QED
    BY <1>1, <1>3, <2>1 DEF IInv, SettingsFrom
<1>6. qos' = IF ~is_configured' /\ default_qos' # <<>> THEN default_qos'
                                                       ELSE <<FromRmw(profile')>>
  <2>1. qos' = IF ~is_configured /\ default_qos # <<>> THEN default_qos
                                                       ELSE <<FromRmw(profile)>>
    BY Zenon DEF Return
  <2> QED
    BY <1>1, <1>2, <2>1, Zenon
<1>7. Configuration'
  BY <1>1 DEF IInv, Configuration
<1>8. (FromRmw(profile))' = FromRmw(profile')
  BY DEF FromRmw
<1> QED
  BY <1>1, <1>4, <1>5, <1>6, <1>7, <1>8 DEF IInv, ReadBefore

LEMMA StutterStep == ASSUME IInv, UNCHANGED vars PROVE IInv'
<1> USE DEF vars
<1>1. Meant' = Meant /\ Seen' = Seen /\ Base' = Base
  BY DEF Meant, Seen, Base
<1> QED
  BY <1>1 DEF IInv, Configuration, SettingsFrom, ToSize, FromRmw

LEMMA NextInv == IInv /\ [Next]_vars => IInv'
<1> SUFFICES ASSUME IInv, [Next]_vars PROVE IInv'
  OBVIOUS
<1>1. CASE ReadProfile
  BY <1>1, ProfileStep
<1>2. CASE ReadDepth
  BY <1>2, DepthStep
<1>3. CASE ReadPolicy
  BY <1>3, PolicyStep
<1>4. CASE Return
  BY <1>4, ReturnStep
<1>5. CASE Done
  BY <1>5, StutterStep DEF Done, vars
<1>6. CASE UNCHANGED vars
  BY <1>6, StutterStep
<1> QED
  BY <1>1, <1>2, <1>3, <1>4, <1>5, <1>6 DEF Next

LEMMA SpecInv == Spec => []IInv
BY InitInv, NextInv, PTL DEF Spec

-----------------------------------------------------------------------------
(* The theorems. *)

\* A depth that is not negative keeps its value: size_t is no narrower than int.
LEMMA DepthFits == ASSUME NEW d \in Depths, d >= 0 PROVE ToSize(d) = d
BY WidthAssumption, DepthsAssumption DEF ToSize

LEMMA InvWritten == IInv => SettingsAsWritten
<1> SUFFICES ASSUME IInv, step = "done", default_qos = <<>> \/ Meant # {}
             PROVE  SettingsAsWritten
  BY DEF SettingsAsWritten
<1>1. Meant = Seen
  BY DEF Seen, ReadBefore, Meant, IInv, Configuration
<1>2. qos = <<FromRmw(SettingsFrom(Meant))>>
  <2>1. is_configured <=> Meant # {}
    BY <1>1, Zenon DEF IInv
  <2>2. qos = <<FromRmw(profile)>>
    <3>1. ~(~is_configured /\ default_qos # <<>>)
      BY <2>1, Zenon
    <3>2. qos = IF ~is_configured /\ default_qos # <<>> THEN default_qos
                                                        ELSE <<FromRmw(profile)>>
      BY Zenon DEF IInv
    <3> QED
      BY <3>1, <3>2, Zenon
  <2> QED
    BY <1>1, <2>2 DEF IInv
<1>3. /\ value.history \in {"keep_last", "keep_all", "?"}
      /\ "history" \in Meant => value.history # "?"
      /\ value.depth \in Depths
  BY DEF IInv, Configuration, Meant, Known
<1>4. Base.history # "keep_all"
  <2>1. \A name : InitQosProfile(name).history # "keep_all"
    BY DEF InitQosProfile, Rmw, Profile
  <2> QED
    BY <2>1, ProfileIsBase
<1>5. value.depth >= 0 => ToSize(value.depth) = value.depth
  BY <1>3, DepthFits
<1> DEFINE q == SettingsFrom(Meant)
<1>6. /\ q.history = IF "history" \in Meant THEN value.history ELSE Base.history
      /\ q.depth = IF "depth" \in Meant THEN ToSize(value.depth) ELSE Base.depth
      /\ q.reliability = IF "reliability" \in Meant THEN value.reliability
                                                    ELSE Base.reliability
      /\ q.durability = IF "durability" \in Meant THEN value.durability ELSE Base.durability
      /\ DOMAIN q = {"history", "depth", "reliability", "durability"}
  BY DEF SettingsFrom, Profile
<1>7. /\ qos[1].history = IF q.history = "keep_all" THEN "keep_all" ELSE "keep_last"
      /\ q.history # "keep_all" => qos[1].depth = q.depth
      /\ qos[1].reliability = q.reliability
      /\ qos[1].durability = q.durability
  <2> HIDE DEF q
  <2>1. qos[1] = FromRmw(q)
    BY <1>2 DEF q
  <2> QED
    BY <1>6, <2>1 DEF FromRmw
<1> QED
  <2> HIDE DEF q
  <2>1. \A p \in {"durability", "reliability"} :
          qos[1][p] = IF p \in Meant THEN value[p] ELSE Base[p]
    BY <1>6, <1>7
  <2>2. qos[1].history = "keep_all" <=> "history" \in Meant /\ value.history = "keep_all"
    BY <1>4, <1>6, <1>7
  <2>3. qos[1].history = "keep_last" /\ ("depth" \in Meant => value.depth >= 0) =>
          qos[1].depth = IF "depth" \in Meant THEN value.depth ELSE Base.depth
    BY <1>5, <1>6, <1>7
  <2> QED
    BY <2>1, <2>2, <2>3 DEF SettingsAsWritten, Base

LEMMA InvDefault == IInv => DefaultWhenUnconfigured
<1> SUFFICES ASSUME IInv, step = "done", default_qos # <<>>, Meant = {}
             PROVE  qos = default_qos
  BY DEF DefaultWhenUnconfigured
<1>1. Seen = {}
  BY DEF Seen
<1>2. ~is_configured
  BY <1>1, Zenon DEF IInv
<1> QED
  BY <1>2, Zenon DEF IInv

\* Whatever is in config_ros, a subscription has the policies written there.
THEOREM QosAsWritten == Spec => []SettingsAsWritten
BY SpecInv, InvWritten, PTL

\* Whatever is in config_ros, the caller's default is used when nothing of it means
\* anything.
THEOREM QosDefault == Spec => []DefaultWhenUnconfigured
BY SpecInv, InvDefault, PTL
=============================================================================
