------------------------------- MODULE MCBench -------------------------------
(***************************************************************************)
(* The instruments of the repository as values of the constants of Bench.  *)
(* The callers go through the facade, and through the driver itself where  *)
(* its methods keep their exchanges together; a driver that leaves that to *)
(* the facade's lock has no direct users.                                  *)
(***************************************************************************)
EXTENDS Bench, PowerSupplies, Multimeters, ElectronicLoads, Oscilloscopes,
        WaveformGenerators, ProcessInstruments, AcquisitionDevices

Symmetry == Permutations(Threads) \cup Permutations(Channels)

MCFacades == {"first", "second"}

Single(open, calls, direct, close) ==
    [open |-> [f \in MCFacades |-> IF f = "first" THEN open ELSE {}],
     calls |-> [f \in MCFacades |-> IF f = "first" THEN calls ELSE {}],
     close |-> [f \in MCFacades |-> IF f = "first" THEN close ELSE {}],
     direct |-> direct]

Opens(driver) ==
    IF "open" \in DOMAIN driver THEN UNION {Opening(p) : p \in driver["open"]} ELSE Opening(<<>>)
Closes(driver) ==
    IF "close" \in DOMAIN driver THEN UNION {Closing(p) : p \in driver["close"]} ELSE Closing(<<>>)

Psu(driver) == Single(Opens(driver), PsuCalls(driver) \cup Apply(driver), Bare(driver), Closes(driver))
Psus == {Psu(RigolDP800), Psu(SiglentSPD3303), Psu(BK9115), Psu(KeysightE36100),
         Psu(TDKLambdaGenesys), Psu(GWInstekGPD3303), Psu(BK914X @@ BK914XRefusals),
         Psu(SimulatedPSU), Psu(MatrixWPS300S), Psu(VirtualPSU)}

\* Source and sink, each with a facade of its own, on one device.
SourceAndSink ==
    [open |-> [f \in MCFacades |-> Opens(EAPSB10000Visa) \cup HeldAlready],
     calls |-> [f \in MCFacades |-> IF f = "first"
                   THEN PsuCalls(EAPSB10000VisaSource) \cup Apply(EAPSB10000VisaSource)
                   ELSE LoadCalls(EAPSB10000VisaSink)],
     close |-> [f \in MCFacades |-> Closes(EAPSB10000Visa) \cup HeldStill],
     direct |-> {}]

Dmm(driver, direct) == Single(DmmOpen(driver), DmmCalls(driver), direct, Closes(driver))
Dmms == {Dmm(Agilent34401A, Bare(Agilent34401A)), Dmm(Keysight34461A, Bare(Keysight34461A)),
         Dmm(SimulatedDMM, Bare(SimulatedDMM)), Dmm(Keithley2400, {}), Dmm(Keithley2750, {}),
         Dmm(VirtualDMM, {})}

\* The one whose driver names the function with every reading.
MCMultimeters == {Dmm(Keysight34461A, {})}

Load(driver) == Single(LoadOpen(driver), LoadCalls(driver), Bare(driver), Closes(driver))
Loads == {Load(BK85XXB), Load(RigolDL30xx @@ RigolDL30xxParameters),
          Load(VirtualELoad)}

Scope(driver) == Single(ScopeOpen(driver), ScopeCalls(driver), {}, Closes(driver))
Scopes == {Scope(Keysight1200X), Scope(Keysight3000TX), Scope(SiglentSDS1000XE),
           Scope(Tektronix2SeriesMSO), Scope(VirtualScope)}

Awg(driver) ==
    Single(AwgOpen(driver), AwgCalls(driver) \cup ConvertAmplitude(driver), Bare(driver), Closes(driver))
Awgs == {Awg(Keysight33521BWaveform @@ Keysight33521BModulation @@ Keysight33521BBurst
             @@ Keysight33521BSweep @@ Keysight33521B),
         Awg(RigolDG1022ZWaveform @@ RigolDG1022ZModulation @@ RigolDG1022ZBurst
             @@ RigolDG1022ZSweep @@ RigolDG1022Z)}

Process(driver, calls, direct) == Single(Opens(driver), calls, direct, Closes(driver))
Processes == {Process(AlicatMC, FlowCalls(AlicatMC), Bare(AlicatMC)),
              Process(AlicatLiquidFlowController, FlowCalls(AlicatLiquidFlowController), {}),
              Process(AlicatPressureController, FlowCalls(AlicatPressureController), {}),
              Process(VESC6, MotorCalls(VESC6), Bare(VESC6)),
              Process(EspecGL, Bare(EspecGL), {}),
              Process(NanoVNAv2Clone, VnaCalls(NanoVNAv2Clone) \cup SaveNetwork(NanoVNAv2Clone), {}),
              Process(Aardvark, I2CCalls(Aardvark), {}),
              Process(Keysight34980A, Bare(Keysight34980A), {})}

MCInstruments == Psus \cup {SourceAndSink} \cup Dmms \cup Loads \cup Scopes \cup Awgs \cup Processes
=============================================================================
