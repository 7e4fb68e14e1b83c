------------------------------- MODULE RosQos -------------------------------
(***************************************************************************)
(* get_qos_settings: the QoS of one subscription, read from config_ros     *)
(* parameter by parameter.  The local variables are the state; a parameter *)
(* counts as present when it is in the file with the right type.           *)
(*                                                                         *)
(* The profiles and the strings of the policies are those of rmw, and the  *)
(* rclcpp::QoS built at the end keeps the profile but for history and      *)
(* depth: keep_all has no depth, everything else is keep_last.             *)
(***************************************************************************)
EXTENDS Integers, Sequences

CONSTANTS
  ProfileNames,  \* values of "profile" considered
  Depths,        \* values of "depth" considered
  IntMax,        \* the largest int
  SizeMax        \* the largest size_t

ASSUME WidthAssumption == IntMax \in Nat /\ SizeMax \in Nat /\ IntMax <= SizeMax
ASSUME DepthsAssumption == Depths \subseteq -(IntMax + 1)..IntMax

VARIABLES
  present, value,  \* the configuration: the parameters present and their values
  default_qos,     \* <<>> or the default QoS of the caller
  step,            \* the parameter read next
  profile, is_configured,
  qos              \* the result, <<>> before

Parameters == {"profile", "depth", "durability", "reliability", "history"}

Profile(h, d, r, u) == [history |-> h, depth |-> d, reliability |-> r, durability |-> u]

Rmw ==
  [default          |-> Profile("keep_last", 10, "reliable", "volatile"),
   system_default   |-> Profile("system_default", 0, "system_default", "system_default"),
   sensor_data      |-> Profile("keep_last", 5, "best_effort", "volatile"),
   services_default |-> Profile("keep_last", 10, "reliable", "volatile"),
   parameters       |-> Profile("keep_last", 1000, "reliable", "volatile"),
   parameter_events |-> Profile("keep_last", 1000, "reliable", "volatile")]

\* Values that rmw knows, of those considered; "?" stands for one it does not know.
Known ==
  [durability  |-> {"volatile", "transient_local"},
   reliability |-> {"reliable", "best_effort"},
   history     |-> {"keep_last", "keep_all"}]

\* The QoS the node passes for the IMU.
ImuDefault == [Rmw["sensor_data"] EXCEPT !.depth = 1000]

Init ==
  /\ present \in SUBSET Parameters
  /\ value \in [profile : ProfileNames, depth : Depths,
                durability : Known.durability \cup {"?"},
                reliability : Known.reliability \cup {"?"},
                history : Known.history \cup {"?"}]
  /\ default_qos \in {<<>>, <<ImuDefault>>}
  /\ step = "profile"
  /\ profile = Rmw["default"]
  /\ is_configured = FALSE
  /\ qos = <<>>

InitQosProfile(name) == Rmw[IF name \in DOMAIN Rmw THEN name ELSE "default"]

ReadProfile ==
  /\ step = "profile" /\ step' = "depth"
  /\ profile' = InitQosProfile(IF "profile" \in present THEN value.profile
                                                        ELSE "sensor_data")
  /\ is_configured' = ("profile" \in present)
  /\ UNCHANGED <<present, value, default_qos, qos>>

\* An int that is assigned to a size_t.
ToSize(int) == int % (SizeMax + 1)

\* Mutant: a depth alone does not count as a configuration.
ReadDepthAside ==
  /\ step = "depth" /\ step' = "durability"
  /\ profile' = IF "depth" \in present THEN [profile EXCEPT !.depth = ToSize(value.depth)]
                                       ELSE profile
  /\ UNCHANGED <<present, value, default_qos, is_configured, qos>>

ReadDepth ==
  /\ step = "depth" /\ step' = "durability"
  /\ profile' = IF "depth" \in present THEN [profile EXCEPT !.depth = ToSize(value.depth)]
                                       ELSE profile
  /\ is_configured' = (is_configured \/ "depth" \in present)
  /\ UNCHANGED <<present, value, default_qos, qos>>

\* Mutant: a value that is ignored counts as a configuration.
ConfiguresAnyway(policy) == policy \in present

Configures(policy) == policy \in present /\ value[policy] \in Known[policy]

Following == [durability |-> "reliability", reliability |-> "history", history |-> "result"]

ReadPolicy ==
  /\ step \in DOMAIN Following /\ step' = Following[step]
  /\ profile' = IF Configures(step) THEN [profile EXCEPT ![step] = value[step]] ELSE profile
  /\ is_configured' = (is_configured \/ Configures(step))
  /\ UNCHANGED <<present, value, default_qos, qos>>

\* What rclcpp::QoS makes of a profile.
FromRmw(p) == IF p.history = "keep_all" THEN [p EXCEPT !.depth = 0]
                                        ELSE [p EXCEPT !.history = "keep_last"]

Return ==
  /\ step = "result" /\ step' = "done"
  /\ qos' = IF ~is_configured /\ default_qos # <<>> THEN default_qos ELSE <<FromRmw(profile)>>
  /\ UNCHANGED <<present, value, default_qos, profile, is_configured>>

Done == step = "done" /\ UNCHANGED <<present, value, default_qos, step, profile,
                                     is_configured, qos>>

Next == ReadProfile \/ ReadDepth \/ ReadPolicy \/ Return \/ Done

vars == <<present, value, default_qos, step, profile, is_configured, qos>>

Spec == Init /\ [][Next]_vars

-----------------------------------------------------------------------------
(* Properties. *)

\* The parameters that mean something.
Meant == {p \in present : p \in DOMAIN Known => value[p] \in Known[p]}

\* get_qos_settings returns the caller's default exactly if no parameter means
\* anything.  Otherwise each policy is the one written, or else that of the profile
\* written, or else that of sensor data: a value that is ignored with a warning
\* has no effect at all, and no policy comes from the default.  A depth must not be
\* negative, and it has no meaning with keep_all.
SettingsAsWritten ==
  step = "done" /\ (default_qos = <<>> \/ Meant # {}) =>
    LET written(p) == p \in Meant
        base == IF written("profile") THEN InitQosProfile(value.profile)
                                      ELSE Rmw["sensor_data"]
    IN  /\ \A p \in {"durability", "reliability"} :
             qos[1][p] = IF written(p) THEN value[p] ELSE base[p]
        /\ qos[1].history = "keep_all" <=> written("history") /\ value.history = "keep_all"
        /\ qos[1].history = "keep_last" /\ (written("depth") => value.depth >= 0) =>
             qos[1].depth = IF written("depth") THEN value.depth ELSE base.depth

\* Without anything that means something, the IMU keeps its long queue.
DefaultWhenUnconfigured ==
  step = "done" /\ default_qos # <<>> /\ Meant = {} => qos = default_qos
=============================================================================
