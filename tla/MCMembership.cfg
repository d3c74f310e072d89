SPECIFICATION MemFairSpec
CONSTANTS
    Configs <- MCConfigs
    FirstConfig <- Config1
    DnsUrl = {"c", "d"}
    KubeUrl = {"d", "e"}
    Parts = {{"dns", "kube"}, {"reload"}, {"dns", "reload"}}
    MaxChanges = 2
INVARIANT NoOrphans
PROPERTIES OnlyTheCreatorRemoves  
