CONSTANTS
  N = 4
  Step = 20
  NoGame = NoGame
  NoBid = NoBid
  Rufspiel = Rufspiel
  Bettel = Bettel
  Wenz = Wenz
  Solo = Solo
  Tout = Tout
  Sie = Sie
  Games <- MCGames
  BasePrio <- MCBasePrio
  HandGames <- MCHandGames

SPECIFICATION Spec

INVARIANT TypeOK
INVARIANT QueueShape
INVARIANT OfferedIsAccepted
PROPERTY BidsRise
PROPERTY EveryBiddingEnds
PROPERTY AuctionSpec
PROPERTY BidsAsGamePhases
