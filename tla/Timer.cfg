CONSTANTS
    Clients = {c1, c2}
    Dispatcher = Dispatcher
    MaxPeriod = 3
SPECIFICATION TimerFairSpec
INVARIANTS NoCallbackAfterDeinit SleepsOnCurrentState
PROPERTIES FiringJustified ArmedFires DeinitReturns
