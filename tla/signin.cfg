SPECIFICATION SignInSpec
CONSTANTS
  steam = steam stove = stove pc = pc deck = deck laptop = laptop
  Players = {steam, stove}
  SteamPlayers = {steam}
  Devices = {pc, deck, laptop}
  PlayerOf <- MCPlayerOf
  UserIds = {1, 2}
  NoUser = noUser
  AppIds = 2
  MaxFaults = 2
INVARIANTS
  OneAccountPerPlayer
  NoSessionUnderBan
PROPERTY SignInHeals
