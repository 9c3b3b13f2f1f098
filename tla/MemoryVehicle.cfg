SPECIFICATION Spec
CONSTANTS
  Texts = {say, low, high}
  NoText = NoText
  Keys = {topic, km}
  NoKey = NoKey
  Fields = {mileage}
  Values = {v1, v2}
  NoValue = NoValue
  VehicleKey <- MCVehicleKey
  VehicleText <- MCVehicleText
  say = say
  low = low
  high = high
  km = km
  mileage = mileage
  v1 = v1
  v2 = v2
  Lists = {"questions"}
  Notes = {n}
INVARIANT VehicleInSync
