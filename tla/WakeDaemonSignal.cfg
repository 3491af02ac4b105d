CONSTANT MaxSignals = 1
SPECIFICATION Spec
PROPERTY SignalStopsDaemon
