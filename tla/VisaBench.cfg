SPECIFICATION Spec
CONSTANTS
    None = None
    User = user
    Threads = {user, daemon}
    Kinds = {"BK9115", "BK914X", "KeysightE36100", "TDKLambdaGenesys", "MatrixWPS300S", "RigolDP800", "SiglentSPD3303", "Agilent34401A", "Keithley2400", "BK85XXB", "Keysight1200X", "Tektronix2SeriesMSO", "SiglentSDS1000XE", "Aardvark"}
    Menus = {{"run", "stop", "single", "state", "fetch", "force"}, {"source", "type", "level", "slope", "load"}, {"get", "set", "acq mode", "save", "load"}, {"measure", "single", "load"}}
    Channels = {1, 2, 3}
    Values = {1, 2}
    MaxSlots = 2
INVARIANTS
    SettingsAreAsAsked
    ReadingsAreWhatTheySay
    WaveformsAreFresh
CHECK_DEADLOCK FALSE
