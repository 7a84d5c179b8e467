SPECIFICATION Spec
CONSTANTS
  s1 = s1
  s2 = s2
  n1 = n1
  n2 = n2
  Serials = {s1, s2}
  NoSerial = NoSerial
  Numbers = {n1, n2}
  NoNumber = NoNumber
  MaxEquipment = 2
  MaxCards = 2
  MaxRequest = 1
  MaxQuantity = 2
  MaxPlans = 1
  StartTables <- Starts
  EquipmentFiles <- RowFiles
  OperationFiles <- TurnoverFiles
  NumberFiles <- NumberBatches
INVARIANTS
  CardsStandForStock
PROPERTIES
  NumbersStayApart
  ConfirmDoesWhatItShowed
CHECK_DEADLOCK FALSE
