SPECIFICATION FairSpec
CONSTANTS
  s1 = s1
  h1 = h1
  office = office
  p3129 = p3129
  p3130 = p3130
  Addrs = {s1, h1}
  Nets = {office}
  None = None
  Configs <- AutoConfig
  Forms <- AForm
  TrayModes = {"socks"}
  Posts = {a}
  InboxSize = 1
  MayFailToSave = TRUE
INVARIANTS StateIsHonest ViewsAreHonest
PROPERTIES SavedMeansSavedAndApplied Converges
