CONSTANTS
    services = services  pods = pods  p1 = p1  p2 = p2
    Main = Main  None = None  r1 = r1
    ListOrder <- ServicesThenPods
    CoreKinds = {services}
    OptionalKinds = {pods}
    PodKind = pods
    PodsAt <- PodLeaves
    Readers = {}
    MaxChanges = 1
    MaxFaults = 0
SPECIFICATION FairSpec
PROPERTIES FollowsCluster
