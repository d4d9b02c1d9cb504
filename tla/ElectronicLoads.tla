-------------------------- MODULE ElectronicLoads --------------------------
(***************************************************************************)
(* The electronic load facade, InstroELoad, and its drivers.  The mode in  *)
(* force is known to the facade and names the commands of set_level and    *)
(* set_range; it is data here.                                             *)
(***************************************************************************)
EXTENDS Programs

Plain == {"short_output", "set_mode", "set_slewrate", "output_enable"}
Moded == {"set_level", "set_range"}
LoadReadings == {"get_current", "get_voltage"}

-----------------------------------------------------------------------------
(* The drivers.                                                            *)

BK85XXB ==
    On({"open"}, Checked(<<"write">>))
    @@ On({"short_output"}, Checked(<<"write", "write">>))
    @@ On({"set_mode", "set_level", "set_slewrate", "output_enable"}, Checked(<<"write">>))
    @@ On({"set_range"}, <<"args">> \o Checked(<<"write">>))
    @@ On(LoadReadings, Checked(<<"query">>))

RigolDL30xx ==
    On({"short_output"}, Refused)
    @@ On({"set_mode", "set_slewrate", "output_enable"}, Checked(<<"write">>))
    @@ OneOf({"set_level"}, {Checked(<<"write">>), Checked(<<"write">>) \o Checked(<<"write">>)})
    @@ On({"set_range"}, <<"args">> \o Checked(<<"write">>))
    @@ On(LoadReadings, Checked(<<"query">>))
    @@ On({"trigger", "set_trigger_source", "set_input_state", "set_function_mode",
           "set_transient_trigger", "set_sense_state"}, Checked(<<"write">>))

\* One checked command for each parameter that is given; the model goes up
\* to two.
RigolDL30xxParameters ==
    OneOf({"set_cc_params", "set_transient_curr_params", "set_cv_params", "set_cr_params",
           "set_cp_params", "set_list_params", "set_list_step_params", "set_battery_params",
           "set_ocp_params", "set_opp_params", "set_wave_params"},
          {<<>>, Checked(<<"write">>), Checked(<<"write">>) \o Checked(<<"write">>)})

\* A load of software: nothing is sent.
VirtualELoad == On(Plain \cup Moded \cup LoadReadings, <<"args">>)

\* The sink quadrant of the EA PSB 10000 works through the voltage loop that
\* it shares with the source.
EAPSB10000VisaSink ==
    On({"set_mode"}, <<"args">>)
    @@ OneOf({"set_level"}, {<<"args">> \o Checked(<<"write">>),
                             <<"args">> \o Checked(<<"write">>) \o Checked(<<"write">>)})
    @@ On({"output_enable"}, <<"args">> \o Checked(<<"write">>))
    @@ On(LoadReadings, <<"args">> \o Checked(<<"query">>))
    @@ On({"set_range", "set_slewrate", "short_output"}, Refused)

-----------------------------------------------------------------------------
(* The facade.                                                             *)

\* set_level and set_range need a mode, which they look for before the lock.
LoadCalls(driver) ==
    {Guarded(program) : program \in Of(driver, Plain \cup LoadReadings)}
    \cup {<<"args">> \o Guarded(program) : program \in Of(driver, Moded)}

\* open(): the configured load is applied by the public setters; if that
\* fails the mode is dropped and the driver closed.
LoadOpen(driver) ==
    LET body == IF "open" \in DOMAIN driver THEN driver.open ELSE {<<>>}
        Applied(methods) ==
            {<<>>} \cup {<<"take">> \o p \o <<"drop">> : p \in Of(driver, methods)}
        settings ==
            {<<>>} \cup Then({<<"take">> \o p \o <<"drop">> : p \in Of(driver, {"set_mode"})},
                             Then(Applied({"set_range"}), Applied({"set_level"})))
    IN  UNION {Opening(b \o <<"try">> \o s \o <<"settle">>) : b \in body, s \in settings}
=============================================================================
