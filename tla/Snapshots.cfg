CONSTANTS
    services = services  pods = pods  p1 = p1  p2 = p2
    Main = Main  None = None  r1 = r1
    ListOrder <- OnlyPods
    CoreKinds = {}
    OptionalKinds = {}
    PodKind = pods
    PodsAt <- PodLeaves
    Readers = {r1}
    MaxChanges = 1
    MaxFaults = 1
SPECIFICATION FairSpec
INVARIANTS TypeOK NoMissedChange LabelsAreCovered ConfigMatchesItsSnapshot
PROPERTIES ServerFollowsAgent
