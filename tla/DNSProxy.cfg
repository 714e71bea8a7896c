SPECIFICATION ProxySpec
CONSTANTS
  Names <- MCNames
  Suffixes <- MCSuffixes
  Addrs = {"a"}
  Replies <- MCReplies
  Confs = {{"w"}}
  Handlers = {g1, g2}
  Interval = 2
  MaxTTL = 3
SYMMETRY SymmetricHandlers
INVARIANTS NoAddressMissed NoStrangerWatched
CHECK_DEADLOCK FALSE
