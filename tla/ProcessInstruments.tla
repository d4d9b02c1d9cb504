------------------------ MODULE ProcessInstruments ------------------------
(***************************************************************************)
(* Instruments with a protocol of their own rather than SCPI and an error  *)
(* queue: flow and pressure controllers, a motor controller on a CAN bus,  *)
(* a climatic chamber, a network analyser on a serial line, an I2C bus.    *)
(* They answer every command, and a refusal is part of the answer.         *)
(***************************************************************************)
EXTENDS Programs

\* One exchange, whose answer may be a refusal or make no sense.
Asked == <<"query", "args">>

-----------------------------------------------------------------------------
(* Flow controllers.                                                       *)

FlowReadings == {"mass_flow", "volumetric_flow", "pressure"}
FlowMethods == FlowReadings \cup {"get_flow_data", "set_setpoint", "select_working_fluid", "tare_flow",
                                  "setpoint"}

\* Lines without an end of their own: all of them are read in one section,
\* until the line is silent.
Table == Section(<<"write", "query", "hush">>)

\* The gases, the columns and the loop variable are asked for once; the
\* gases again after a mixture is defined.
AlicatMC ==
    LET Gases == {<<>>, Table}
        Variable == {<<>>, Asked}
    IN
    On({"get_flow_data", "setpoint", "mass_flow", "volumetric_flow", "pressure", "tare_flow",
        "tare_barometer", "set_setpoint", "set_setpoint_int", "hold_valve_at_position",
        "hold_valve_closed", "cancel_valve_hold"}, Asked)
    @@ On({"set_loop_control_variable", "define_gas_mixture"}, <<"args">> \o Asked)
    @@ OneOf({"list_gas_types", "get_flow_sample_metadata"}, Gases)
    @@ OneOf({"select_working_fluid"}, Then(Gases, {<<"args">> \o Asked}))
    @@ OneOf({"process_value"}, Then(Variable, {Asked \o <<"args">>}))
    @@ OneOf({"process_value_source"}, Variable)

AlicatLiquidFlowController ==
    On({"get_flow_data", "set_setpoint", "setpoint", "volumetric_flow", "pressure", "process_value"}, Asked)
    @@ On({"process_value_source"}, <<>>)
    @@ On({"select_working_fluid"}, Refused)

AlicatPressureController ==
    On({"get_flow_data", "set_setpoint", "setpoint", "pressure", "process_value"}, Asked)
    @@ On({"process_value_source"}, <<>>)
    @@ On({"select_working_fluid"}, Refused)

FlowCalls(driver) ==
    {Guarded(p) : p \in Of(driver, FlowMethods)}
    \cup {Guarded(p) : p \in Then(driver["process_value"], driver["process_value_source"])}

-----------------------------------------------------------------------------
(* Motor controllers.                                                      *)

MotorMethods == {"enable", "disable", "stop", "set_duty_cycle", "set_current", "set_brake_current",
                 "set_velocity", "set_position", "get_telemetry"}

\* A command is one frame; the telemetry is what arrived since the last call.
\* The motor is told to stop before the bus is let go, heard or not.
VESC6 ==
    On({"open"}, <<"args">>)
    @@ On({"close"}, <<"hush">>)
    @@ On({"set_duty_cycle", "set_current", "set_brake_current", "set_velocity", "set_position"},
          <<"args", "write">>)
    @@ On({"stop"}, <<"write">>)
    @@ On({"get_telemetry"}, Asked)

MotorCalls(driver) == {Guarded(p) : p \in Of(driver, MotorMethods)}

-----------------------------------------------------------------------------
(* A climatic chamber: an Instrument that talks for itself, without locks. *)

EspecGL ==
    On({"identify"}, Asked \o Asked)
    @@ On({"get_temperature", "get_temperature_setpoint", "set_temperature_setpoint", "get_humidity",
           "set_humidity_setpoint", "get_operation_mode", "set_operation_mode"}, Asked)

-----------------------------------------------------------------------------
(* Network analysers.                                                      *)

VnaGetters == {"get_freq_start", "get_freq_stop", "get_freq_span", "get_freq_center",
               "get_freq_npoints", "get_nports", "get_s", "get_network", "get_frequency"}
VnaSetters == {"set_freq_start", "set_freq_stop", "set_freq_span", "set_freq_center",
               "set_freq_npoints", "set_frequency"}

\* A trace is asked for by number and comes line by line: nobody else may
\* use the line meanwhile.  The ports that are not measured read zero, as
\* many times as there are frequencies.
NanoVNAv2Clone ==
    LET Trace == <<"args", "select", "act", "args">>
        Frequencies == <<"args", "query", "args">>
        Sweep == Frequencies \o Frequencies \o Frequencies
    IN
    On({"get_freq_start", "get_freq_stop", "get_freq_npoints"}, Frequencies)
    @@ On({"get_nports"}, <<>>)
    @@ On({"get_frequency"}, <<"args">> \o Sweep)
    @@ OneOf({"get_s"}, {<<"args">> \o Sweep \o Trace, <<"args">> \o Sweep \o Frequencies})
    @@ On({"get_network"}, <<"args">> \o Sweep \o Trace \o Trace \o Frequencies \o Frequencies)

VnaCalls(driver) == {Guarded(p) : p \in Of(driver, VnaGetters \cup VnaSetters)}

\* The network is written to a file when the lock has been let go.
SaveNetwork(driver) ==
    {<<"take">> \o p \o <<"drop", "args", "return">> : p \in driver["get_network"]}

-----------------------------------------------------------------------------
(* Registers on an I2C bus.                                                *)

Aardvark == On({"read", "write", "write_read", "set_bitrate", "set_pullups", "set_power_enable"}, <<"query">>)

\* A field is written by reading the register and writing it back with the
\* lock held; a command and its answer hold it too.  Reading a register is
\* one exchange and takes no lock, nor do the raw accesses.
I2CWrite(driver) ==
    {<<"args", "take">> \o p \o <<"drop", "return">> :
        p \in Then({<<"args">>} \cup Then({<<"args">>}, Then(driver["write_read"], {<<"args">>})),
                   driver["write"])}

I2CQuery(driver) ==
    {<<"args", "take">> \o p \o <<"drop", "args", "return">> :
        p \in Then(driver["write"], driver["read"])}

I2CRead(driver) ==
    {<<"args">> \o p \o <<"args", "return">> :
        p \in driver["write_read"] \cup driver["write"] \cup driver["read"]}

I2CCalls(driver) == I2CWrite(driver) \cup I2CQuery(driver) \cup I2CRead(driver)
=============================================================================
