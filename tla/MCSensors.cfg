SPECIFICATION SensorsSpec
CONSTANTS
  Iss = 1
  Anemometer = 0
  TempHum1 = 0
  TempHum2 = 0
  LeafSoil = 2
  EcSpeeds <- MCSpeeds
  EcAngles <- MCAngles
  EcTable <- MCTable
  MoistureMap <- MCMoisture
  WetnessMap <- MCWetness
  ThermistorCurve <- MCCurve
  RainPerTip = 20
  ReseedSeconds = 1
  Watched = {"wind_speed", "temperature"}
  Weather <- MCWeather
  Ordinary <- MCOrdinary
  Glitched <- MCGlitched
  HopErrors = {0, 25000}
  ShowPeriod = 2
  HopChannels = {0, 7}
  MaxNow = 2
  MaxFrames = 4
  MaxHops = 1
  MaxStarts = 1
  MaxChanges = 1
INVARIANTS
  NullsPaidFor
  GlitchHeldBack
  FreqNotLost
CHECK_DEADLOCK FALSE
