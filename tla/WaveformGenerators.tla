------------------------- MODULE WaveformGenerators -------------------------
(***************************************************************************)
(* The waveform generator facade, InstroAWG, and its drivers.              *)
(*                                                                         *)
(* A setting of a generator is often several commands, or a command that   *)
(* is sent only when the answers to some questions allow it.  The drivers  *)
(* keep such a method in one section of the transport, which its inner     *)
(* sections re-enter; the tables name the outer one alone.                 *)
(***************************************************************************)
EXTENDS Programs

BurstSetters == {"set_burst_trigger", "burst_enable", "set_burst_delay", "set_burst_gate_polarity",
                 "set_burst_ncycles", "set_burst_period"}
BurstGetters == {"get_burst_type", "get_burst_state", "get_burst_trigger", "get_burst_delay",
                 "get_burst_gate_polarity", "get_burst_ncycles", "get_burst_period"}
SweepSetters == {"sweep_enable", "set_sweep_trigger", "set_sweep_start_freq", "set_sweep_end_freq",
                 "set_sweep_time", "set_sweep_stop_hold_time", "set_sweep_start_hold_time",
                 "set_sweep_return_time"}
SweepGetters == {"get_sweep_type", "get_sweep_state", "get_sweep_trigger", "get_sweep_start_freq",
                 "get_sweep_end_freq", "get_sweep_time", "get_sweep_stop_hold_time",
                 "get_sweep_start_hold_time", "get_sweep_return_time"}
StartHold == {"set_sweep_start_hold_time", "get_sweep_start_hold_time"}
OutputSetters == {"set_offset", "output_enable", "set_output_load"}
OutputGetters == {"get_output_state", "get_output_load"}

Modulations == {"set_modulation", "modulation_enable", "get_modulation_type", "get_modulation_state"}

\* The methods of AWGDriverBase that are not abstract: they refuse.
AwgOptional == {"align_phase", "set_burst", "set_sweep", "fire_burst_trigger",
                "fire_sweep_trigger", "set_output_load", "get_output_load"}
               \cup Modulations \cup BurstSetters \cup BurstGetters \cup SweepSetters \cup SweepGetters

AwgMethods == AwgOptional \cup OutputSetters \cup OutputGetters
              \cup {"set_waveform", "get_waveform", "set_amplitude", "get_amplitude", "get_offset"}

-----------------------------------------------------------------------------
(* The Keysight 33521B.                                                    *)

\* A shape is up to four commands; an arbitrary one is checked before it is
\* remembered, and once more at the end.
Keysight33521BWaveform ==
    OneOf({"set_waveform"},
          {<<"args">> \o Checked(<<"write", "write">>),
           <<"args">> \o Checked(<<"write", "write", "write">>),
           <<"args">> \o Checked(<<"write", "write", "write", "write">>),
           <<"args">> \o Checked(<<"args", "write", "write", "write", "write", "check">>),
           <<"args">> \o Section(Refused)})
    @@ OneOf({"get_waveform"},
          {<<"args">> \o Checked(<<"query", "query">>),
           <<"args">> \o Checked(<<"query", "query", "query">>),
           <<"args">> \o Checked(<<"query", "query", "query", "query", "args">>),
           <<"args">> \o Checked(<<"query">>),
           <<"args">> \o Section(<<"query", "check">> \o Refused),
           <<"args">> \o Section(<<"query">> \o Refused)})

\* A modulation in force is switched off while another is set up, and stays
\* off if that fails; one bit per kind of modulation tells whether any is on.
\* Of the questions and the switches of the six kinds the model keeps two.
Keysight33521BModulation ==
    LET State == <<"query", "query", "check">>
        Off == <<"write", "write", "check">>
        Enabled == <<"args", "write", "check">>
        Set == <<"write", "write", "write", "check">>
    IN
    OneOf({"set_modulation"},
          {<<"args">> \o Section(<<"query", "args">> \o State \o Set),
           <<"args">> \o Section(<<"query", "args">> \o State \o Off \o Set \o Enabled)})
    @@ OneOf({"modulation_enable"}, {<<"args">> \o Section(Enabled), <<"args">> \o Section(Off)})
    @@ On({"get_modulation_type"}, <<"args">> \o Section(<<"args">>))
    @@ On({"get_modulation_state"}, <<"args">> \o Section(State))

\* A trigger is fired only if burst or sweep is on and set to manual, which
\* is asked in the section in which it is then fired.
Keysight33521BBurst ==
    OneOf({"set_burst"}, {<<"args">> \o Checked(<<"query", "check", "args", "write">>),
                          <<"args">> \o Checked(<<"query", "check", "args", "write", "write">>)})
    @@ OneOf({"get_burst_type"}, {<<"args">> \o Checked(<<"query">>) \o <<"args">>,
                                  <<"args">> \o Checked(<<"query", "query">>) \o <<"args">>})
    @@ On(BurstSetters, <<"args">> \o Checked(<<"write">>))
    @@ On(BurstGetters, <<"args">> \o Checked(<<"query">>) \o <<"args">>)
    @@ OneOf({"fire_burst_trigger"},
             {<<"args">> \o Checked(<<"query", "check", "args", "query", "check", "args",
                                      "query", "check", "args", "write">>),
              <<"args">> \o Checked(<<"query", "check", "args", "query", "query", "check", "args",
                                      "query", "check", "args", "write">>)})

Keysight33521BSweep ==
    On(SweepSetters \ StartHold, <<"args">> \o Checked(<<"write">>))
    @@ On({"set_sweep"}, <<"args">> \o Checked(<<"write">>))
    @@ On(SweepGetters \ StartHold, <<"args">> \o Checked(<<"query">>) \o <<"args">>)
    @@ On({"fire_sweep_trigger"},
          <<"args">> \o Checked(<<"query", "check", "args", "query", "check", "args", "write">>))

Keysight33521B ==
    On({"set_amplitude"}, <<"args">> \o Checked(<<"write", "write">>))
    @@ On({"get_amplitude"}, <<"args">> \o Checked(<<"query", "query">>))
    @@ On(OutputSetters, <<"args">> \o Checked(<<"write">>))
    @@ On(OutputGetters \cup {"get_offset"}, <<"args">> \o Checked(<<"query">>))

-----------------------------------------------------------------------------
(* The Rigol DG1022Z.                                                      *)

\* An arbitrary shape goes over in one command if the line and its size
\* allow it, else point by point (of which the model keeps two), each checked.
RigolDG1022ZWaveform ==
    OneOf({"set_waveform"},
          {<<"args">> \o Checked(<<"write", "write">>),
           <<"args">> \o Checked(<<"write", "write", "write">>),
           <<"args">> \o Checked(<<"write", "write", "write", "write">>),
           <<"args">> \o Section(<<"args", "write", "check", "write", "check", "write", "check">>),
           <<"args">> \o Section(<<"args", "write", "check", "write", "check", "write", "check",
                                   "write", "check", "write", "check">>),
           <<"args">> \o Section(Refused)})
    @@ OneOf({"get_waveform"},
          {<<"args">> \o Checked(<<"query", "args">>),
           <<"args">> \o Checked(<<"query", "query">>)})

\* The carrier is looked at in a section of its own, before that in which
\* the modulation is set: somebody may change it in between.
RigolDG1022ZModulation ==
    OneOf({"set_modulation"},
          {<<"args">> \o look \o <<"args">> \o Checked(set) :
              look \in {Checked(<<"query", "args">>), Checked(<<"query", "query">>)},
              set \in {<<"write", "write", "write", "write">>,
                       <<"write", "write", "write", "write", "write">>}})
    @@ On({"modulation_enable"}, <<"args">> \o Checked(<<"write">>))
    @@ On({"get_modulation_type", "get_modulation_state"}, <<"args">> \o Checked(<<"query">>))

RigolDG1022ZBurst ==
    OneOf({"set_burst"}, {<<"args">> \o Checked(<<"query", "args", "check", "args", "write">>),
                          <<"args">> \o Checked(<<"query", "query", "check", "args", "write">>)})
    @@ On({"set_burst_trigger"}, <<"args">> \o Checked(<<"query", "check", "args", "write">>))
    @@ On(BurstSetters, <<"args">> \o Checked(<<"write">>))
    @@ On(BurstGetters, <<"args">> \o Checked(<<"query">>) \o <<"args">>)
    @@ On({"fire_burst_trigger"},
          <<"args">> \o Checked(<<"query", "check", "args", "query", "check", "args", "write">>))

RigolDG1022ZSweep ==
    On({"set_sweep"}, <<"args">> \o Checked(<<"query", "check", "args", "write">>))
    @@ On(SweepSetters, <<"args">> \o Checked(<<"write">>))
    @@ On(SweepGetters, <<"args">> \o Checked(<<"query">>) \o <<"args">>)
    @@ On({"fire_sweep_trigger"},
          <<"args">> \o Checked(<<"query", "check", "args", "query", "check", "args", "write">>))

RigolDG1022Z ==
    On({"set_amplitude"}, <<"args">> \o Checked(<<"write", "write">>))
    @@ On({"get_amplitude"}, <<"args">> \o Checked(<<"query", "query">>))
    @@ On(OutputSetters, <<"args">> \o Checked(<<"write">>))
    @@ On(OutputGetters, <<"args">> \o Checked(<<"query">>))
    @@ OneOf({"get_offset"}, {<<"args">> \o Checked(<<"query", "args">>),
                              <<"args">> \o Checked(<<"query", "query">>)})
    @@ On({"align_phase"}, Checked(<<"write">>))

-----------------------------------------------------------------------------
(* The facade.                                                             *)

\* Types and channel are examined first.
AwgCalls(driver) == {<<"args">> \o Guarded(program) : program \in Of(driver, AwgMethods)}

\* A conversion to or from dBm needs the load, which is asked under the lock.
ConvertAmplitude(driver) ==
    {<<"args", "take", "args">> \o load \o <<"args", "drop", "args", "return">> :
        load \in {<<>>} \cup Of(driver, {"get_output_load"})}

\* open(): the configured channels are set up by the public setters; if that
\* fails the remembered waveforms are dropped and the driver closed.
AwgOpen(driver) ==
    LET Applied(method) ==
            {<<>>} \cup {<<"take">> \o p \o <<"drop">> : p \in Of(driver, {method})}
        settings ==
            {<<>>} \cup Then({<<"take">> \o p \o <<"drop">> : p \in Of(driver, {"set_waveform"})},
                             Then(Applied("set_offset"), Applied("burst_enable")))
    IN  UNION {Opening(<<"try">> \o s \o <<"settle">>) : s \in settings}
=============================================================================
