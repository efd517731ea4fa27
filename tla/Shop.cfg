SPECIFICATION ShopSpec
CONSTANTS
  a1 = a1
  a2 = a2
  k1 = k1
  k2 = k2
  k3 = k3
  top = top
  phone1 = phone1
  phone2 = phone2
  text1 = text1
  text2 = text2
  key1 = key1
  key2 = key2
  Kinds = {"hero", "side", "promo", "section", "collection", "layout"}
  Ids = {1, 2}
  Slugs = {"a", "b"}
  Editors = {a1, a2}
  MaxEdits = 2
  MaxReads = 1
  Latest = 2
  Cats = {k1, k2, k3}
  Root = top
  Planners = {a1, a2}
  MaxPlans = 3
  Attributes = {"color", "size", "fabric"}
  Varying = {"color", "size"}
  Values = {"red", "blue", "large", "wool"}
  AttributeOf <- MCAttributeOf
  Sellers = {a1, a2}
  MaxChanges = 2
  Nodes = {1, 2, 3, 4}
  ParentNode <- MCParentNode
  Features = {"color", "fabric", "label"}
  PublicFeatures = {"color", "fabric"}
  Options = {"red", "blue", "wool", "eco"}
  FeatureOf <- MCFeatureOf
  Makers = {"m", "n"}
  Prices = {1}
  Marks = {"sale"}
  Buyer = "me"
  Wares <- MCWares
  Plain = 0
  CategoryOf <- MCCategoryOf
  Cards = {1, 2}
  Tags <- MCTags
  MaxQuantity = 2
  MaxLines = 3
  MaxOrders = 2
  MaxSales = 4
  Codes = {"", "a"}
  NewOffers <- MCOffers
  Packers = {a1, a2}
  MaxOrderings = 3
  Phones = {phone1, phone2}
  Digits = {"123456"}
  Callers = {a1, a2}
  MaxCodes = 2
  MaxUsers = 2
  MaxAddresses = 2
  MaxCalls = 4
  Clerks = {a1, a2}
  Texts = {text1, text2}
  MaxMessages = 4
  MaxVisits = 5
  Keys = {key1, key2, "other"}
  Keepers = {a1, a2}
  CompareLimit = 2
  MaxViews = 2
  MaxRows = 3
  MaxEntries = 4
SYMMETRY Alike
CHECK_DEADLOCK FALSE
INVARIANTS
  ShopTypeOK
  EditsKept
  
  TreeSound
  
  
  
  
  OrdersSettled
  
  DeskSound
  RegistersSound
