CONSTANTS
  None = None
  Pins <- R_Pins
  Arcs <- R_Arcs
  pin_type <- R_pin_type
  from_pin <- R_from
  to_pin <- R_to
  timing_type <- R_type
  timing_sense <- R_sense
  delay_lut <- R_delay
  slew_lut <- R_slew
  constraint_lut <- R_constraint
  port_capacitance <- R_capacitance
  fanout <- R_fanout
  constraint_arcs <- R_constraint_arcs
  Toposorts <- R_Toposorts
  DeducedClock = "clk"
  Client = "shell"
  ClockCycle = 30
  ClockRiseAt = 0
  MaxCalls = 2
SPECIFICATION FairSpec
INVARIANTS
  ReportedArrivalsExact
  WalkDescends
PROPERTIES
  ImplementsSta
  CallsReturn
  UpdateIsIdempotent
